------------------------- MODULE SessionStoreProofs -------------------------
(***************************************************************************)
(* What the tables of a task hold, for every number of snapshots and any     *)
(* failures between them: the type invariant of SessionStore, that its log    *)
(* has no hole, that no row is repeated without a lost answer, and that a     *)
(* snapshot that was sent without an error is there in full.                 *)
(*                                                                         *)
(* None of this follows from the tables and the counter alone: it rests on  *)
(* what is still to be sent.  The requests that are left always come as a    *)
(* deletion and its insertion, or as an insertion whose deletion was carried *)
(* out, and the entries they carry begin behind the counter; and with what   *)
(* the tables have, they make the snapshot complete.                         *)
(***************************************************************************)
EXTENDS SessionStore, SequenceTheorems, TLAPS

PartTables  == {"project_requirements", "project_architectures",
                "validation_results"}
Texts       == {"started", "completed", "failed", "TaskStatus.FAILED"}
SessionRows == [status : Texts, n : Nat]

Upserts == [op : {"upsert"}, table : {"project_sessions"}, rows : Seq(SessionRows)]
Deletes == [op : {"delete"}, table : PartTables, rows : {<<>>}]
Inserts == [op : {"insert"}, table : PartTables \cup {"agent_logs"}, rows : Seq(Nat)]
Sendable == Upserts \cup Deletes \cup Inserts

\* The rows of every table; only the log has more than one.
TablesOK ==
    /\ DOMAIN tables = Tables
    /\ tables["project_sessions"] \in Seq(SessionRows)
    /\ \A t \in Tables \ {"project_sessions"} : tables[t] \in Seq(Nat)
    /\ \A t \in Tables \ {"agent_logs"} : Len(tables[t]) <= 1

\* A request that is left.  The insertion of a part has its deletion before
\* it or behind it, and only the last request is about the log: it carries
\* the entries behind the counter.
RequestOK(i) ==
    LET r == requests[i]
    IN  /\ r.table # "agent_logs" => Len(r.rows) <= 1
        /\ r.op = "insert" /\ r.table \in PartTables =>
              \/ i > 1 /\ requests[i - 1] = Delete(r.table)
              \/ i = 1 /\ tables[r.table] = <<>>
        /\ r.table = "agent_logs" =>
              /\ i = Len(requests)
              /\ persisted_log_count < state.logs
              /\ r.rows = [k \in 1 .. state.logs - persisted_log_count |->
                              persisted_log_count + k]

RequestsOK ==
    /\ requests \in Seq(Sendable)
    /\ \A i \in 1 .. Len(requests) : RequestOK(i)
    /\ run \in {"absent", "gone"} => requests = <<>>

\* The graph writes at most one entry between two snapshots.
StateOK ==
    /\ run \in {"absent", "gone"} => persisted_log_count = 0
    /\ state.logs <= MaxSnapshots
    /\ run \in {"absent", "running"} => state.logs <= state.n
    /\ run = "running" => persisted_log_count <= state.logs

\* The rows of the log are a beginning of the log of the graph, beyond the
\* counter perhaps, and no more than that while every answer has come.
LogOK ==
    /\ \E k \in 0 .. MaxSnapshots : Stored = 1 .. k /\ persisted_log_count <= k
    /\ persisted_log_count <= Len(tables["agent_logs"])
    /\ ~answers_lost =>
          /\ tables["agent_logs"] = [i \in 1 .. Len(tables["agent_logs"]) |-> i]
          /\ run # "gone" => Len(tables["agent_logs"]) = persisted_log_count

IInv == TypeOK /\ TablesOK /\ RequestsOK /\ StateOK /\ LogOK

-----------------------------------------------------------------------------
(* The rows and the requests.                                              *)

LEMMA PartsFacts ==
    /\ Len(Parts) = 3
    /\ \A part \in 1 .. 3 : Parts[part] \in PartTables
    /\ Tables = PartTables \cup {"project_sessions", "agent_logs"}
<1>1. Len(Parts) = 3 /\ Parts[1] = "project_requirements"
      /\ Parts[2] = "project_architectures" /\ Parts[3] = "validation_results"
  BY DEF Parts
<1>2. 1 .. 3 = {1, 2, 3}
  OBVIOUS
<1> QED
  BY <1>1, <1>2 DEF Tables, PartTables

LEMMA EmptyRows == \A S : <<>> \in Seq(S)
OBVIOUS

LEMMA OneRow ==
    ASSUME NEW S, NEW x \in S
    PROVE  <<x>> \in Seq(S) /\ Len(<<x>>) = 1 /\ <<x>>[1] = x
OBVIOUS

LEMMA RowsFrom ==
    ASSUME NEW n \in Nat, NEW c \in Nat, NEW rows, rows = [k \in 1 .. n |-> c + k]
    PROVE  /\ rows \in Seq(Nat)
           /\ Len(rows) = n
           /\ \A k \in 1 .. n : rows[k] = c + k
<1>1. rows \in [1 .. n -> Nat]
  OBVIOUS
<1>2. rows \in Seq(Nat)
  BY <1>1, SeqDef
<1>3. DOMAIN rows = 1 .. Len(rows) /\ Len(rows) \in Nat
  BY <1>2, LenProperties
<1>4. DOMAIN rows = 1 .. n
  OBVIOUS
<1>5. Len(rows) = n
  BY <1>3, <1>4
<1> QED
  BY <1>2, <1>5

LEMMA SendableTypes ==
    /\ \A row \in SessionRows : Upsert(row) \in Sendable
    /\ \A t \in PartTables : Delete(t) \in Sendable
    /\ \A t \in PartTables \cup {"agent_logs"} : \A rows \in Seq(Nat) :
          Insert(t, rows) \in Sendable
<1>1. \A row \in SessionRows : <<row>> \in Seq(SessionRows)
  OBVIOUS
<1> QED
  BY <1>1 DEF Sendable, Upserts, Deletes, Inserts, Upsert, Delete, Insert

\* A row of requests before the entries of the log.
Whole(q) ==
    /\ q \in Seq(Sendable)
    /\ \A i \in 1 .. Len(q) :
          /\ q[i].table # "agent_logs" /\ Len(q[i].rows) <= 1
          /\ q[i].op = "insert" => i > 1 /\ q[i - 1] = Delete(q[i].table)

LEMMA WholeConcat ==
    ASSUME NEW p, NEW q, Whole(p), Whole(q) PROVE Whole(p \o q)
<1>1. p \in Seq(Sendable) /\ q \in Seq(Sendable)
  BY DEF Whole
<1>2. /\ p \o q \in Seq(Sendable)
      /\ Len(p \o q) = Len(p) + Len(q)
      /\ \A i \in 1 .. Len(p) : (p \o q)[i] = p[i]
      /\ \A i \in 1 .. Len(q) : (p \o q)[Len(p) + i] = q[i]
  BY <1>1
<1>3. ASSUME NEW i \in 1 .. Len(p)
      PROVE  /\ (p \o q)[i].table # "agent_logs" /\ Len((p \o q)[i].rows) <= 1
             /\ (p \o q)[i].op = "insert" =>
                    i > 1 /\ (p \o q)[i - 1] = Delete((p \o q)[i].table)
  BY <1>2 DEF Whole
<1>4. ASSUME NEW j \in 1 .. Len(q)
      PROVE  /\ (p \o q)[Len(p) + j].table # "agent_logs"
             /\ Len((p \o q)[Len(p) + j].rows) <= 1
             /\ (p \o q)[Len(p) + j].op = "insert" =>
                    /\ Len(p) + j > 1
                    /\ (p \o q)[Len(p) + j - 1] = Delete((p \o q)[Len(p) + j].table)
  <2>1. (p \o q)[Len(p) + j] = q[j]
    BY <1>2
  <2>2. q[j].op = "insert" => j > 1 /\ q[j - 1] = Delete(q[j].table)
    BY DEF Whole
  <2>3. j > 1 => (p \o q)[Len(p) + (j - 1)] = q[j - 1]
    BY <1>2
  <2>4. Len(p) + (j - 1) = Len(p) + j - 1 /\ Len(p) \in Nat
    BY <1>1
  <2>5. q[j].table # "agent_logs" /\ Len(q[j].rows) <= 1
    BY DEF Whole
  <2> QED
    BY <2>1, <2>2, <2>3, <2>4, <2>5
<1>5. ASSUME NEW i \in 1 .. Len(p) + Len(q), i \notin 1 .. Len(p)
      PROVE  i - Len(p) \in 1 .. Len(q) /\ i = Len(p) + (i - Len(p))
  <2>. PICK m \in Nat, n \in Nat : m = Len(p) /\ n = Len(q)
    BY <1>1
  <2> QED
    BY <1>5
<1> QED
  BY <1>2, <1>3, <1>4, <1>5 DEF Whole

LEMMA WholeParts ==
    /\ \A row \in SessionRows : Whole(<<Upsert(row)>>)
    /\ \A part \in 1 .. 3 : \A s : Whole(Replace(part, s))
<1>1. ASSUME NEW row \in SessionRows PROVE Whole(<<Upsert(row)>>)
  <2>. PICK u \in Sendable : u = Upsert(row)
    BY SendableTypes
  <2>1. u.table = "project_sessions" /\ u.op = "upsert" /\ Len(u.rows) = 1
    BY DEF Upsert
  <2>. PICK q : q = <<u>>
    OBVIOUS
  <2>2. q \in Seq(Sendable) /\ Len(q) = 1 /\ q[1] = u
    BY OneRow
  <2>3. \A i \in 1 .. Len(q) :
            q[i].table # "agent_logs" /\ Len(q[i].rows) <= 1 /\ q[i].op # "insert"
    <3>1. ASSUME NEW i \in 1 .. Len(q) PROVE q[i] = u
      BY <2>2
    <3>2. u.table # "agent_logs" /\ u.op # "insert"
      BY <2>1
    <3>3. Len(u.rows) <= 1
      BY <2>1
    <3> QED
      BY <3>1, <3>2, <3>3
  <2>4. Whole(q)
    BY <2>2, <2>3 DEF Whole
  <2> QED
    BY <2>4
<1>2. ASSUME NEW part \in 1 .. 3, NEW s PROVE Whole(Replace(part, s))
  <2>. PICK t \in PartTables : t = Parts[part]
    BY PartsFacts
  <2>. PICK d \in Sendable : d = Delete(t)
    BY SendableTypes
  <2>. PICK rows \in Seq(Nat) : rows = <<part>> /\ Len(rows) = 1
    <3>1. part \in Nat
      OBVIOUS
    <3> QED
      BY <3>1, OneRow
  <2>. PICK e \in Sendable : e = Insert(t, rows)
    BY SendableTypes
  <2>1. /\ d.table # "agent_logs" /\ Len(d.rows) <= 1 /\ d.op = "delete"
        /\ e.table = t /\ t # "agent_logs" /\ Len(e.rows) <= 1
    BY DEF Delete, Insert, PartTables
  <2>2. Replace(part, s) = <<d, e>> \/ Replace(part, s) = <<>>
    BY DEF Replace
  <2>3. Whole(<<>>)
    BY EmptyRows DEF Whole
  <2>4. Whole(<<d, e>>)
    BY <2>1 DEF Whole
  <2> QED
    BY <2>2, <2>3, <2>4
<1> QED
  BY <1>1, <1>2

\* The requests of a snapshot.
LEMMA SnapshotRequests ==
    ASSUME NEW s \in States, NEW text \in Texts, persisted_log_count \in Nat
    PROVE  \E p : /\ Whole(p)
                  /\ \/ PersistSnapshot(s, text) = p
                     \/ \E rows \in Seq(Nat) :
                           /\ persisted_log_count < s.logs
                           /\ rows = [k \in 1 .. s.logs - persisted_log_count |->
                                         persisted_log_count + k]
                           /\ PersistSnapshot(s, text) = p \o <<Insert("agent_logs", rows)>>
<1>. PICK a : a = <<Upsert([status |-> text, n |-> s.n])>>
  OBVIOUS
<1>. PICK b : b = Replace(1, s)
  OBVIOUS
<1>. PICK c : c = Replace(2, s)
  OBVIOUS
<1>. PICK d : d = Replace(3, s)
  OBVIOUS
<1>1. Whole(a) /\ Whole(b) /\ Whole(c) /\ Whole(d)
  <2>1. [status |-> text, n |-> s.n] \in SessionRows
    BY DEF States, SessionRows
  <2>2. 1 \in 1 .. 3 /\ 2 \in 1 .. 3 /\ 3 \in 1 .. 3
    OBVIOUS
  <2> QED
    BY <2>1, <2>2, WholeParts
<1>. PICK p : p = a \o b \o c \o d
  OBVIOUS
<1>2. Whole(p)
  BY <1>1, WholeConcat
<1>3. PersistSnapshot(s, text) = p \o NewEntries(s)
  BY DEF PersistSnapshot
<1>4. CASE NewEntries(s) = <<>>
  <2>1. p \o <<>> = p
    BY <1>2 DEF Whole
  <2> QED
    BY <1>2, <1>3, <1>4, <2>1
<1>5. CASE NewEntries(s) # <<>>
  <2>. PICK rows : rows = [k \in 1 .. s.logs - persisted_log_count |->
                             persisted_log_count + k]
    OBVIOUS
  <2>1. s.logs \in Nat /\ persisted_log_count < s.logs
    BY <1>5 DEF NewEntries, States
  <2>2. rows \in Seq(Nat)
    <3>. PICK n \in Nat : n = s.logs - persisted_log_count
      BY <2>1
    <3> QED
      BY RowsFrom
  <2>3. NewEntries(s) = <<Insert("agent_logs", rows)>>
    BY <1>5 DEF NewEntries
  <2> QED
    BY <1>2, <1>3, <2>1, <2>2, <2>3
<1> QED
  BY <1>4, <1>5

-----------------------------------------------------------------------------
(* The steps.                                                              *)

LEMMA InitIInv == Init => IInv
<1> SUFFICES ASSUME Init PROVE IInv
  OBVIOUS
<1>1. state \in States
  BY PartsFacts DEF Init, States
<1>2. tables = [t \in Tables |-> <<>>]
  BY DEF Init
<1>3. TypeOK
  <2>1. memory \in [n : Nat, status : {"absent"} \cup {"started", "completed", "failed"}]
    BY DEF Init
  <2>2. DOMAIN requests = {}
    BY DEF Init
  <2>3. persisted_log_count \in 0 .. MaxSnapshots
    BY MaxSnapshotsAssumption DEF Init
  <2> QED
    BY <1>1, <1>2, <2>1, <2>2, <2>3 DEF Init, TypeOK
<1>4. TablesOK
  <2>1. "project_sessions" \in Tables
    BY PartsFacts
  <2>2. \A t \in Tables : tables[t] = <<>>
    BY <1>2
  <2>3. Len(<<>>) <= 1
    OBVIOUS
  <2> QED
    BY <1>2, <2>1, <2>2, <2>3, EmptyRows DEF TablesOK
<1>5. RequestsOK
  BY EmptyRows DEF Init, RequestsOK
<1>6. StateOK
  BY MaxSnapshotsAssumption DEF Init, StateOK
<1>7. LogOK
  <2>1. tables["agent_logs"] = <<>>
    BY <1>2, PartsFacts
  <2>2. Stored = 1 .. 0
    BY <2>1 DEF Stored
  <2>3. <<>> = [i \in 1 .. Len(<<>>) |-> i]
    OBVIOUS
  <2> QED
    BY SMTT(30), <2>1, <2>2, <2>3, MaxSnapshotsAssumption DEF Init, LogOK
<1> QED
  BY <1>3, <1>4, <1>5, <1>6, <1>7 DEF IInv

\* A snapshot is taken: the requests of it are all that is left to send.
LEMMA SnapshotStep ==
    ASSUME IInv, NEW s \in States, NEW text \in Texts, SnapshotTask(s, text),
           run' \in {"running", "ended"}, s.logs <= MaxSnapshots,
           run' = "running" => s.logs <= s.n /\ persisted_log_count <= s.logs
    PROVE  IInv'
<1>0. /\ persisted_log_count \in Nat /\ run = "running" /\ state' = s
      /\ requests' = PersistSnapshot(s, text) /\ outcome' = "sending"
      /\ UNCHANGED <<persisted_log_count, tables, answers_lost>>
  BY MaxSnapshotsAssumption DEF SnapshotTask, IInv, TypeOK
<1>. PICK p : /\ Whole(p)
              /\ \/ PersistSnapshot(s, text) = p
                 \/ \E rows \in Seq(Nat) :
                       /\ persisted_log_count < s.logs
                       /\ rows = [k \in 1 .. s.logs - persisted_log_count |->
                                     persisted_log_count + k]
                       /\ PersistSnapshot(s, text) = p \o <<Insert("agent_logs", rows)>>
  BY <1>0, SnapshotRequests
<1>1. \A i \in 1 .. Len(p) :
          /\ p[i].table # "agent_logs" /\ Len(p[i].rows) <= 1
          /\ p[i].op = "insert" => i > 1 /\ p[i - 1] = Delete(p[i].table)
  BY DEF Whole
<1>2. p \in Seq(Sendable) /\ Len(p) \in Nat
  BY DEF Whole
<1>3. RequestsOK'
  <2>1. CASE requests' = p
    BY <1>0, <1>1, <1>2, <2>1 DEF RequestsOK, RequestOK
  <2>2. ASSUME NEW rows \in Seq(Nat), persisted_log_count < s.logs,
               rows = [k \in 1 .. s.logs - persisted_log_count |-> persisted_log_count + k],
               requests' = p \o <<Insert("agent_logs", rows)>>
        PROVE  RequestsOK'
    <3>. PICK e \in Sendable : e = Insert("agent_logs", rows)
      BY SendableTypes
    <3>. PICK q : q = p \o <<e>>
      OBVIOUS
    <3>1. /\ q \in Seq(Sendable) /\ Len(q) = Len(p) + 1
          /\ \A i \in 1 .. Len(p) : q[i] = p[i]
          /\ q[Len(p) + 1] = e
      BY <1>2
    <3>2. e.table = "agent_logs" /\ e.op = "insert" /\ e.rows = rows
      BY DEF Insert
    <3>3. ASSUME NEW i \in 1 .. Len(q) PROVE RequestOK(i)'
      <4>1. CASE i \in 1 .. Len(p)
        <5>1. q[i] = p[i] /\ (i > 1 => q[i - 1] = p[i - 1])
          BY <1>2, <3>1, <4>1
        <5> QED
          BY <1>1, <2>2, <4>1, <5>1 DEF RequestOK
      <4>2. CASE i = Len(p) + 1
        <5>1. q[i] = e /\ i = Len(q)
          BY <3>1, <4>2
        <5>2. "agent_logs" \notin PartTables
          BY DEF PartTables
        <5> QED
          BY <1>0, <2>2, <3>2, <5>1, <5>2 DEF RequestOK
      <4> QED
        BY <1>2, <3>1, <4>1, <4>2
    <3> QED
      BY <1>0, <2>2, <3>1, <3>3 DEF RequestsOK
  <2> QED
    BY <1>0, <2>1, <2>2
<1>4. TypeOK'
  <2>1. \A i \in 1 .. Len(requests') : requests'[i] \in Sendable
    BY <1>3 DEF RequestsOK
  <2>2. \A r \in Sendable : r.op \in {"upsert", "delete", "insert"} /\ r.table \in Tables
    BY PartsFacts DEF Sendable, Upserts, Deletes, Inserts
  <2>3. DOMAIN requests' = 1 .. Len(requests')
    BY <1>3 DEF RequestsOK
  <2>4. memory' \in [n : Nat, status : {"absent"} \cup {"started", "completed", "failed"}]
    BY DEF SnapshotTask, States
  <2> QED
    BY <1>0, <2>1, <2>2, <2>3, <2>4 DEF IInv, TypeOK
<1>5. TablesOK' /\ LogOK'
  BY <1>0 DEF IInv, TablesOK, LogOK, Stored
<1>6. StateOK'
  BY <1>0 DEF StateOK
<1> QED
  BY <1>3, <1>4, <1>5, <1>6 DEF IInv

Counted(x) == [x EXCEPT !.n = @ + 1]

LEMMA CountedIs ==
    ASSUME NEW x \in States
    PROVE  Counted(x) = [n |-> x.n + 1, status |-> x.status, parts |-> x.parts,
                         logs |-> x.logs, carries |-> x.carries]
<1>. PICK n : n = x.n + 1
  BY DEF States
<1>1. Counted(x) = [x EXCEPT !.n = n]
  BY DEF Counted, States
<1> QED
  BY <1>1 DEF States

\* The states that the graph comes to from one.
LEMMA StatesAfter ==
    ASSUME NEW x \in States, NEW s,
           \/ s = [x EXCEPT !.n = @ + 1]
           \/ s = [[x EXCEPT !.n = @ + 1] EXCEPT !.logs = @ + 1]
           \/ x.parts = 0 /\ s = [[x EXCEPT !.n = @ + 1] EXCEPT !.parts = 1, !.logs = @ + 1]
           \/ x.parts \in {1, 2} /\ s = [[x EXCEPT !.n = @ + 1] EXCEPT !.parts = @ + 1]
           \/ \E st \in {"completed", "failed"} :
                 s = [x EXCEPT !.n = @ + 1, !.status = st]
    PROVE  /\ s \in States
           /\ s.n = x.n + 1
           /\ s.logs \in {x.logs, x.logs + 1}
<1>. PICK n \in Nat : n = x.n + 1
  BY DEF States
<1>. PICK l \in Nat : l = x.logs + 1
  BY DEF States
<1>. PICK c : c = Counted(x)
  OBVIOUS
<1>0. /\ c \in States /\ c.n = n /\ c.logs = x.logs /\ c.parts = x.parts
      /\ c.status = x.status
  BY CountedIs DEF States
<1>1. CASE s = [x EXCEPT !.n = @ + 1]
  BY <1>0, <1>1 DEF Counted
<1>2. CASE s = [[x EXCEPT !.n = @ + 1] EXCEPT !.logs = @ + 1]
  <2>1. s = [c EXCEPT !.logs = @ + 1]
    BY <1>2 DEF Counted
  <2>2. s = [c EXCEPT !.logs = l]
    BY <1>0, <2>1 DEF States
  <2> QED
    BY <1>0, <2>2 DEF States
<1>3. CASE x.parts = 0 /\ s = [[x EXCEPT !.n = @ + 1] EXCEPT !.parts = 1, !.logs = @ + 1]
  <2>1. s = [c EXCEPT !.parts = 1, !.logs = @ + 1]
    BY <1>3 DEF Counted
  <2>2. s = [c EXCEPT !.parts = 1, !.logs = l]
    BY <1>0, <2>1 DEF States
  <2>3. 1 \in 0 .. Len(Parts)
    BY PartsFacts
  <2> QED
    BY <1>0, <2>2, <2>3 DEF States
<1>4. CASE x.parts \in {1, 2} /\ s = [[x EXCEPT !.n = @ + 1] EXCEPT !.parts = @ + 1]
  <2>. PICK p \in 0 .. 3 : p = x.parts + 1
    BY <1>4
  <2>1. s = [c EXCEPT !.parts = @ + 1]
    BY <1>4 DEF Counted
  <2>2. s = [c EXCEPT !.parts = p]
    BY <1>0, <2>1 DEF States
  <2> QED
    BY <1>0, <2>2, PartsFacts DEF States
<1>5. CASE \E st \in {"completed", "failed"} : s = [x EXCEPT !.n = @ + 1, !.status = st]
  <2>. PICK st \in {"completed", "failed"} : s = [x EXCEPT !.n = @ + 1, !.status = st]
    BY <1>5
  <2>1. s = [x EXCEPT !.n = n, !.status = st]
    BY DEF States
  <2> QED
    BY <2>1 DEF States
<1> QED
  BY <1>1, <1>2, <1>3, <1>4, <1>5

LEMMA RunStep ==
    ASSUME IInv, RunNode \/ FinishRun \/ StoreFailure PROVE IInv'
<1>. PICK x \in States : x = state
  BY DEF IInv, TypeOK
<1>0. /\ x.n \in Nat /\ x.logs \in Nat /\ x.parts \in 0 .. 3 /\ x.carries \in BOOLEAN
      /\ x.status \in {"started", "completed", "failed"}
  BY PartsFacts DEF States
<1>1. run = "running"
  BY DEF RunNode, FinishRun, StoreFailure, SnapshotTask
<1>2. x.logs <= MaxSnapshots /\ x.logs <= x.n /\ persisted_log_count <= x.logs
      /\ persisted_log_count \in Nat
  BY <1>1, MaxSnapshotsAssumption DEF IInv, StateOK, TypeOK
<1>3. ASSUME StoreFailure PROVE IInv'
  <2>. PICK y : y = [n |-> x.n + 1, status |-> "failed", parts |-> 0, logs |-> 0,
                     carries |-> FALSE]
    OBVIOUS
  <2>1. y \in States /\ y.logs = 0
    BY <1>0, PartsFacts DEF States
  <2>2. SnapshotTask(y, "TaskStatus.FAILED") /\ run' = "ended"
    BY <1>3 DEF StoreFailure
  <2>3. "TaskStatus.FAILED" \in Texts /\ y.logs <= MaxSnapshots
    BY <2>1, MaxSnapshotsAssumption DEF Texts
  <2> QED
    BY <2>1, <2>2, <2>3, SnapshotStep
<1>4. ASSUME FinishRun PROVE IInv'
  <2>. PICK st \in {"completed", "failed"} :
          SnapshotTask([x EXCEPT !.n = @ + 1, !.status = st], st)
    BY <1>4 DEF FinishRun
  <2>. PICK y : y = [x EXCEPT !.n = @ + 1, !.status = st]
    OBVIOUS
  <2>1. y \in States /\ y.logs = x.logs
    <3>. PICK n : n = x.n + 1
      OBVIOUS
    <3>1. y = [x EXCEPT !.n = n, !.status = st]
      BY DEF States
    <3>2. y.logs = x.logs
      BY <3>1 DEF States
    <3> QED
      BY <3>2, StatesAfter
  <2>2. SnapshotTask(y, st) /\ run' = "ended"
    BY <1>4 DEF FinishRun
  <2>3. st \in Texts
    BY DEF Texts
  <2> QED
    BY <1>2, <2>1, <2>2, <2>3, SnapshotStep
<1>5. ASSUME RunNode PROVE IInv'
  <2>0. x.n < MaxSnapshots /\ run' = "running" /\ "started" \in Texts
    BY <1>1, <1>5 DEF RunNode, Texts
  <2>. PICK s : /\ SnapshotTask(s, "started")
                /\ \/ s = [x EXCEPT !.n = @ + 1]
                   \/ s = [[x EXCEPT !.n = @ + 1] EXCEPT !.logs = @ + 1]
                   \/ x.parts = 0
                      /\ s = [[x EXCEPT !.n = @ + 1] EXCEPT !.parts = 1, !.logs = @ + 1]
                   \/ x.parts \in {1, 2}
                      /\ s = [[x EXCEPT !.n = @ + 1] EXCEPT !.parts = @ + 1]
    BY <1>5 DEF RunNode
  <2>1. s \in States /\ s.n = x.n + 1 /\ s.logs \in {x.logs, x.logs + 1}
    BY StatesAfter
  <2>2. s.logs <= MaxSnapshots /\ s.logs <= s.n /\ persisted_log_count <= s.logs
    BY <1>0, <1>2, <2>0, <2>1, MaxSnapshotsAssumption
  <2> QED
    BY <2>0, <2>1, <2>2, SnapshotStep
<1> QED
  BY <1>3, <1>4, <1>5

LEMMA CreateStep ==
    ASSUME IInv, CreateTask PROVE IInv'
<1>. PICK q : q = <<Upsert([status |-> "started", n |-> 0])>>
  OBVIOUS
<1>0. Whole(q)
  <2>1. [status |-> "started", n |-> 0] \in SessionRows
    BY DEF SessionRows, Texts
  <2> QED
    BY <2>1, WholeParts
<1>1. requests' = q /\ q \in Seq(Sendable) /\ run' = "running"
  BY <1>0 DEF CreateTask, Whole
<1>2. \A i \in DOMAIN q : q[i].op \in {"upsert", "delete", "insert"} /\ q[i].table \in Tables
  BY <1>1, PartsFacts DEF Sendable, Upserts, Deletes, Inserts
<1>3. RequestsOK'
  <2>1. ASSUME NEW i \in 1 .. Len(q) PROVE RequestOK(i)'
    BY <1>0, <1>1, <2>1 DEF Whole, RequestOK
  <2> QED
    BY <1>1, <2>1 DEF RequestsOK
<1>4. TypeOK'
  <2>1. memory' \in [n : Nat, status : {"absent"} \cup {"started", "completed", "failed"}]
    BY DEF CreateTask
  <2> QED
    BY <1>1, <1>2, <2>1 DEF CreateTask, IInv, TypeOK
<1>5. TablesOK' /\ LogOK'
  BY DEF CreateTask, IInv, TablesOK, LogOK, Stored
<1>6. StateOK'
  <2>1. run = "absent" /\ run' = "running" /\ persisted_log_count = 0
        /\ UNCHANGED <<state, persisted_log_count>> /\ state.logs \in Nat
    BY DEF CreateTask, IInv, TypeOK, StateOK, States
  <2> QED
    BY <2>1 DEF IInv, StateOK
<1> QED
  BY <1>3, <1>4, <1>5, <1>6 DEF IInv

\* What is left is dropped: the store goes on, or stops.
LEMMA DroppedStep ==
    ASSUME IInv, Refused \/ Restart PROVE IInv'
<1>1. /\ requests' = <<>> /\ UNCHANGED <<state, tables, answers_lost>>
      /\ run' \in {run, "gone"} /\ (run' # run => persisted_log_count' = 0)
      /\ (run' = run => persisted_log_count' = persisted_log_count)
      /\ outcome' \in {outcome, "failed"}
  BY DEF Refused, Restart
<1>2. TypeOK'
  <2>1. memory' \in [n : Nat, status : {"absent"} \cup {"started", "completed", "failed"}]
    BY DEF Refused, Restart, IInv, TypeOK
  <2>2. DOMAIN requests' = {}
    BY <1>1
  <2>3. persisted_log_count' \in 0 .. MaxSnapshots
    BY <1>1, MaxSnapshotsAssumption DEF IInv, TypeOK
  <2> QED
    BY <1>1, <2>1, <2>2, <2>3 DEF IInv, TypeOK
<1>3. RequestsOK'
  BY <1>1, EmptyRows DEF RequestsOK
<1>4. TablesOK'
  BY <1>1 DEF IInv, TablesOK
<1>5. StateOK'
  BY <1>1 DEF IInv, StateOK
<1>6. LogOK'
  <2>1. persisted_log_count' <= persisted_log_count
    BY <1>1 DEF IInv, TypeOK
  <2>2. persisted_log_count' <= Len(tables["agent_logs"])
    <3>1. tables["agent_logs"] \in Seq(Nat)
      BY PartsFacts DEF IInv, TablesOK, PartTables
    <3>. PICK m \in Nat : m = Len(tables["agent_logs"])
      BY <3>1, LenProperties
    <3>2. persisted_log_count <= m
      BY DEF IInv, LogOK
    <3>3. persisted_log_count \in Nat /\ persisted_log_count' \in Nat
      BY <1>1, MaxSnapshotsAssumption DEF IInv, TypeOK
    <3> QED
      BY <2>1, <3>2, <3>3
  <2>3. \A k \in 0 .. MaxSnapshots : persisted_log_count <= k => persisted_log_count' <= k
    BY <1>1, MaxSnapshotsAssumption DEF IInv, TypeOK
  <2>4. run' # "gone" => run # "gone" /\ persisted_log_count' = persisted_log_count
    BY <1>1
  <2> QED
    BY <1>1, <2>2, <2>3, <2>4 DEF IInv, LogOK, Stored
<1> QED
  BY <1>2, <1>3, <1>4, <1>5, <1>6 DEF IInv

LEMMA AppliedIs ==
    ASSUME NEW r, DOMAIN tables = Tables, r.table \in Tables
    PROVE  /\ DOMAIN Applied(r) = Tables
           /\ \A t \in Tables \ {r.table} : Applied(r)[t] = tables[t]
           /\ r.op = "insert" => Applied(r)[r.table] = tables[r.table] \o r.rows
           /\ r.op # "insert" => Applied(r)[r.table] = r.rows
BY DEF Applied

\* The first request is carried out.
LEMMA AppliedTables ==
    ASSUME IInv, requests # <<>>, NEW r, r = requests[1], tables' = Applied(r)
    PROVE  /\ r \in Sendable /\ r.table \in Tables
           /\ TablesOK'
           /\ r.table # "agent_logs" =>
                 tables'["agent_logs"] = tables["agent_logs"]
           /\ r.table = "agent_logs" =>
                 /\ tables'["agent_logs"] = tables["agent_logs"] \o r.rows
                 /\ Len(requests) = 1
           /\ r.op = "delete" => tables'[r.table] = <<>>
           /\ \A t \in Tables \ {r.table} : tables'[t] = tables[t]
<1>1. requests \in Seq(Sendable) /\ Len(requests) \in Nat /\ 1 \in 1 .. Len(requests)
  BY DEF IInv, RequestsOK
<1>2. r \in Sendable /\ r.table \in Tables /\ RequestOK(1)
  BY <1>1, PartsFacts DEF IInv, RequestsOK, Sendable, Upserts, Deletes, Inserts
<1>3. /\ DOMAIN tables' = Tables
      /\ \A t \in Tables \ {r.table} : tables'[t] = tables[t]
      /\ r.op = "insert" => tables'[r.table] = tables[r.table] \o r.rows
      /\ r.op # "insert" => tables'[r.table] = r.rows
  BY <1>2, AppliedIs DEF IInv, TablesOK
<1>4. r.table = "agent_logs" => r.op = "insert" /\ Len(requests) = 1
  BY <1>2 DEF RequestOK, Sendable, Upserts, Deletes, Inserts, PartTables
<1>5. r.op = "delete" => tables'[r.table] = <<>>
  BY <1>2, <1>3 DEF Sendable, Upserts, Deletes, Inserts
<1>6. TablesOK'
  <2>0. /\ tables["project_sessions"] \in Seq(SessionRows)
        /\ \A t \in Tables \ {"project_sessions"} : tables[t] \in Seq(Nat)
        /\ \A t \in Tables \ {"agent_logs"} : Len(tables[t]) <= 1
    BY DEF IInv, TablesOK
  <2>1. /\ r.table = "project_sessions" => tables'[r.table] \in Seq(SessionRows)
        /\ r.table # "project_sessions" => tables'[r.table] \in Seq(Nat)
        /\ r.table # "agent_logs" => Len(tables'[r.table]) <= 1
    <3>1. CASE r \in Upserts
      <4>1. r.rows \in Seq(SessionRows) /\ r.table = "project_sessions" /\ r.op # "insert"
        BY <3>1 DEF Upserts
      <4>2. Len(r.rows) <= 1
        BY <1>2, <4>1 DEF RequestOK
      <4> QED
        BY <1>3, <4>1, <4>2
    <3>2. CASE r \in Deletes
      <4>1. r.table \in PartTables /\ tables'[r.table] = <<>>
        BY <1>5, <3>2 DEF Deletes
      <4>2. Len(<<>>) <= 1
        OBVIOUS
      <4> QED
        BY <4>1, <4>2, EmptyRows DEF PartTables
    <3>3. CASE r \in Inserts /\ r.table = "agent_logs"
      <4>1. tables'["agent_logs"] = tables["agent_logs"] \o r.rows /\ r.rows \in Seq(Nat)
        BY <1>3, <1>4, <3>3 DEF Inserts
      <4>2. tables["agent_logs"] \in Seq(Nat)
        BY <2>0, PartsFacts
      <4>3. tables'["agent_logs"] \in Seq(Nat)
        BY <4>1, <4>2
      <4> QED
        BY <3>3, <4>3
    <3>4. CASE r \in Inserts /\ r.table # "agent_logs"
      <4>1. r.table \in PartTables /\ r.op = "insert" /\ r.rows \in Seq(Nat)
        BY <3>4 DEF Inserts
      <4>2. Len(r.rows) <= 1 /\ tables[r.table] = <<>>
        BY <1>2, <3>4, <4>1 DEF RequestOK
      <4>3. tables'[r.table] = r.rows
        BY <1>3, <4>1, <4>2
      <4> QED
        BY <4>1, <4>2, <4>3 DEF PartTables
    <3> QED
      BY <1>2, <3>1, <3>2, <3>3, <3>4 DEF Sendable
  <2>2. "project_sessions" \in Tables
    BY PartsFacts
  <2>3. tables'["project_sessions"] \in Seq(SessionRows)
    BY <1>3, <2>0, <2>1, <2>2
  <2>4. \A t \in Tables \ {"project_sessions"} : tables'[t] \in Seq(Nat)
    BY <1>3, <2>0, <2>1
  <2>5. \A t \in Tables \ {"agent_logs"} : Len(tables'[t]) <= 1
    BY <1>3, <2>0, <2>1
  <2> QED
    BY <1>3, <2>3, <2>4, <2>5 DEF TablesOK
<1>7. "agent_logs" \in Tables
  BY PartsFacts
<1> QED
  BY <1>2, <1>3, <1>4, <1>5, <1>6, <1>7

ValuesOf(rows)   == {rows[i] : i \in DOMAIN rows}
EntriesFrom(c, l) == [i \in 1 .. l - c |-> c + i]
UpTo(n)           == [i \in 1 .. n |-> i]

LEMMA ConcatIs ==
    ASSUME NEW S, NEW p \in Seq(S), NEW q \in Seq(S)
    PROVE  /\ p \o q \in Seq(S)
           /\ Len(p \o q) = Len(p) + Len(q)
           /\ DOMAIN (p \o q) = 1 .. Len(p) + Len(q)
           /\ \A i \in 1 .. Len(p) : (p \o q)[i] = p[i]
           /\ \A i \in 1 .. Len(q) : (p \o q)[Len(p) + i] = q[i]
OBVIOUS

LEMMA StoredIs == Stored = ValuesOf(tables["agent_logs"])
BY DEF Stored, ValuesOf

MoreThan(old, new, c, l, k) ==
    /\ Len(new) = Len(old) + (l - c)
    /\ ValuesOf(new) = 1 .. (IF k < l THEN l ELSE k)
    /\ Len(old) = c /\ old = UpTo(Len(old)) => new = UpTo(Len(new))

\* Entries behind the counter are added to the rows.
LEMMA MoreEntries ==
    ASSUME NEW old \in Seq(Nat), NEW rows \in Seq(Nat),
           NEW c \in Nat, NEW l \in Nat, c < l,
           NEW d \in Nat, d = l - c, Len(rows) = d, \A i \in 1 .. d : rows[i] = c + i,
           NEW k \in Nat, c <= k, ValuesOf(old) = 1 .. k
    PROVE  MoreThan(old, old \o rows, c, l, k)
<1>. PICK m \in Nat : m = Len(old)
  BY LenProperties
<1>1. \A i \in 1 .. d : rows[i] = c + i
  OBVIOUS
<1>. PICK new : new = old \o rows
  OBVIOUS
<1>2. /\ Len(new) = m + d /\ DOMAIN new = 1 .. m + d
      /\ \A i \in 1 .. m : new[i] = old[i]
      /\ \A i \in 1 .. d : new[m + i] = c + i
  <2>1. /\ Len(new) = m + d /\ DOMAIN new = 1 .. m + d
        /\ \A i \in 1 .. m : new[i] = old[i]
        /\ \A i \in 1 .. d : new[m + i] = rows[i]
    <3>. PICK S : S = Nat
      OBVIOUS
    <3>1. old \in Seq(S) /\ rows \in Seq(S)
      OBVIOUS
    <3>2. /\ Len(new) = Len(old) + Len(rows)
          /\ DOMAIN new = 1 .. Len(old) + Len(rows)
          /\ \A i \in 1 .. Len(old) : new[i] = old[i]
          /\ \A i \in 1 .. Len(rows) : new[Len(old) + i] = rows[i]
      BY ONLY <3>1, new = old \o rows, ConcatIs
    <3> QED
      BY <3>2
  <2> QED
    BY <1>1, <2>1
<1>3. DOMAIN old = 1 .. m
  BY LenProperties
<1>4. \A i \in 1 .. m + d : i \in 1 .. m \/ (i - m \in 1 .. d /\ i = m + (i - m))
  OBVIOUS
<1>. PICK h \in Nat : h = IF k < l THEN l ELSE k
  OBVIOUS
<1>5. ASSUME NEW v \in ValuesOf(new) PROVE v \in 1 .. h
  <2>. PICK i \in 1 .. m + d : v = new[i]
    BY <1>2 DEF ValuesOf
  <2>1. CASE i \in 1 .. m
    <3>1. v \in 1 .. k
      BY <1>2, <1>3, <2>1 DEF ValuesOf
    <3>. PICK w \in 1 .. k : w = v
      BY <3>1
    <3>2. w \in 1 .. h
      BY ONLY w \in 1 .. k, k \in Nat, l \in Nat, h \in Nat, h = IF k < l THEN l ELSE k
    <3> QED
      BY <3>2
  <2>2. CASE i - m \in 1 .. d /\ i = m + (i - m)
    <3>. PICK j \in 1 .. d : j = i - m
      BY <2>2
    <3>1. v = c + j
      BY <1>2, <2>2
    <3> QED
      BY SMTT(30), <3>1
  <2> QED
    BY <1>4, <2>1, <2>2
<1>6. ASSUME NEW v \in 1 .. h PROVE v \in ValuesOf(new)
  <2>1. CASE v \in 1 .. k
    <3>1. v \in ValuesOf(old)
      BY <2>1
    <3>. PICK i \in 1 .. m : v = old[i]
      BY <1>3, <3>1 DEF ValuesOf
    <3>2. i \in DOMAIN new /\ new[i] = v
      BY <1>2
    <3> QED
      BY <3>2 DEF ValuesOf
  <2>2. CASE v \notin 1 .. k
    <3>1. v - c \in 1 .. d /\ c + (v - c) = v
      BY <2>2
    <3>. PICK j \in 1 .. d : j = v - c
      BY <3>1
    <3>2. m + j \in DOMAIN new /\ new[m + j] = v
      BY <1>2, <3>1
    <3> QED
      BY <3>2 DEF ValuesOf
  <2> QED
    BY <2>1, <2>2
<1>7. ASSUME m = c, old = [i \in 1 .. m |-> i] PROVE new = [i \in 1 .. Len(new) |-> i]
  <2>1. \A i \in 1 .. m : new[i] = i
    BY <1>2, <1>7
  <2>2. \A i \in 1 .. d : new[m + i] = m + i
    BY <1>2, <1>7
  <2>3. \A i \in 1 .. Len(new) : new[i] = i
    <3> SUFFICES ASSUME NEW i \in 1 .. m + d PROVE new[i] = i
      BY <1>2
    <3>1. CASE i \in 1 .. m
      BY <2>1, <3>1
    <3>2. CASE i - m \in 1 .. d /\ i = m + (i - m)
      <4>. PICK j \in 1 .. d : i = m + j
        BY <3>2
      <4> QED
        BY <2>2
    <3> QED
      BY <1>4, <3>1, <3>2
  <2>4. new = [i \in DOMAIN new |-> new[i]]
    <3>1. new \in Seq(Nat)
      BY ConcatIs
    <3> QED
      BY <3>1, LenProperties
  <2> QED
    BY <1>2, <2>3, <2>4
<1>8. ValuesOf(new) = 1 .. h
  BY <1>5, <1>6
<1>9. Len(new) = Len(old) + (l - c)
  BY <1>2
<1>10. ValuesOf(new) = 1 .. (IF k < l THEN l ELSE k)
  BY <1>8
<1>11. Len(old) = c /\ old = UpTo(Len(old)) => new = UpTo(Len(new))
  BY <1>7 DEF UpTo
<1> QED
  BY <1>9, <1>10, <1>11 DEF MoreThan

\* The log after a request, whether it is counted or not.
LEMMA LogStep ==
    ASSUME IInv, requests # <<>>, NEW r, r = requests[1], tables' = Applied(r),
           UNCHANGED <<run, state>>,
           persisted_log_count' = IF r.table = "agent_logs" THEN state.logs
                                                            ELSE persisted_log_count,
           ~answers_lost' => ~answers_lost
    PROVE  LogOK' /\ StateOK' /\ persisted_log_count' \in 0 .. MaxSnapshots
<1>0. /\ persisted_log_count \in Nat /\ MaxSnapshots \in Nat
      /\ persisted_log_count <= MaxSnapshots
      /\ state.logs \in Nat /\ state.logs <= MaxSnapshots
      /\ run \notin {"absent", "gone"}
  BY MaxSnapshotsAssumption DEF IInv, TypeOK, States, StateOK, RequestsOK
<1>1. StateOK' /\ persisted_log_count' \in 0 .. MaxSnapshots
  BY <1>0 DEF IInv, StateOK
<1>2. CASE r.table # "agent_logs"
  <2>1. tables'["agent_logs"] = tables["agent_logs"]
    BY <1>2, AppliedTables
  <2>2. persisted_log_count' = persisted_log_count
    BY <1>2
  <2>3. LogOK'
    BY <2>1, <2>2 DEF IInv, LogOK, Stored
  <2> QED
    BY <1>1, <2>3
<1>3. CASE r.table = "agent_logs"
  <2>. PICK old \in Seq(Nat) : old = tables["agent_logs"]
    BY PartsFacts DEF IInv, TablesOK
  <2>. PICK c \in Nat : c = persisted_log_count
    BY <1>0
  <2>. PICK l \in Nat : l = state.logs
    BY <1>0
  <2>. PICK new : new = tables'["agent_logs"]
    OBVIOUS
  <2>1. RequestOK(1)
    <3>1. 1 \in 1 .. Len(requests)
      BY DEF IInv, RequestsOK
    <3> QED
      BY <3>1 DEF IInv, RequestsOK
  <2>. PICK rows : rows = r.rows
    OBVIOUS
  <2>2. c < l /\ rows = EntriesFrom(c, l)
    BY <1>3, <2>1 DEF RequestOK, EntriesFrom
  <2>3. new = old \o rows
    BY <1>3, AppliedTables
  <2>. PICK k \in Nat : k <= MaxSnapshots /\ ValuesOf(old) = 1 .. k /\ c <= k
    BY <1>0, StoredIs DEF IInv, LogOK
  <2>4. /\ Len(new) = Len(old) + (l - c)
        /\ ValuesOf(new) = 1 .. (IF k < l THEN l ELSE k)
        /\ Len(old) = c /\ old = UpTo(Len(old)) => new = UpTo(Len(new))
    <3>1. rows \in Seq(Nat)
      BY <1>3, AppliedTables DEF Sendable, Upserts, Deletes, Inserts, PartTables
    <3>. PICK d \in Nat : d = l - c
      BY <2>2
    <3>2. Len(rows) = d /\ \A i \in 1 .. d : rows[i] = c + i
      BY <2>2, RowsFrom DEF EntriesFrom
    <3>3. MoreThan(old, new, c, l, k)
      BY ZenonT(40), <2>2, <2>3, <3>1, <3>2, MoreEntries
    <3> QED
      BY <3>3 DEF MoreThan
  <2>. PICK h \in 0 .. MaxSnapshots : h = IF k < l THEN l ELSE k
    BY <1>0
  <2>5. Stored' = 1 .. h /\ l <= h
    <3>1. Stored' = ValuesOf(new)
      BY DEF Stored, ValuesOf
    <3> QED
      BY <2>2, <2>4, <3>1
  <2>6. persisted_log_count' = l
    BY <1>3
  <2>7. l <= Len(new) /\ (Len(old) = c => Len(new) = l)
    <3>1. Len(old) \in Nat /\ c <= Len(old)
      BY LenProperties DEF IInv, LogOK
    <3>. PICK m \in Nat : m = Len(old)
      BY <3>1
    <3>. PICK n : n = Len(new)
      OBVIOUS
    <3>2. n = m + (l - c) /\ c <= m /\ c < l
      BY <2>2, <2>4, <3>1
    <3>3. l <= n /\ (m = c => n = l)
      BY <3>2
    <3> QED
      BY <3>3
  <2>8. ~answers_lost' => Len(old) = c /\ old = UpTo(Len(old))
    BY <1>0 DEF IInv, LogOK, UpTo
  <2>9. ~answers_lost' => new = UpTo(Len(new)) /\ Len(new) = l
    BY <2>4, <2>7, <2>8
  <2>10. LogOK'
    BY <2>5, <2>6, <2>7, <2>9 DEF LogOK, UpTo
  <2> QED
    BY <1>1, <2>10
<1> QED
  BY <1>2, <1>3

LEMMA AnsweredStep ==
    ASSUME IInv, Answered PROVE IInv'
<1>. PICK q \in Seq(Sendable) : q = requests
  BY DEF IInv, RequestsOK
<1>. PICK r : r = requests[1]
  OBVIOUS
<1>0. /\ q # <<>> /\ tables' = Applied(r) /\ UNCHANGED <<run, state, memory, answers_lost>>
      /\ persisted_log_count' = IF r.table = "agent_logs" THEN state.logs
                                                          ELSE persisted_log_count
      /\ requests' = Tail(q) /\ outcome' \in {outcome, "stored"}
  <2>1. Head(requests) = r
    BY DEF Answered
  <2> QED
    BY <2>1 DEF Answered
<1>1. LogOK' /\ StateOK' /\ persisted_log_count' \in 0 .. MaxSnapshots
  BY <1>0, LogStep
<1>2. TablesOK'
  BY <1>0, AppliedTables
<1>. PICK m \in Nat : m + 1 = Len(q)
  <2>1. Len(q) \in Nat /\ Len(q) # 0
    BY <1>0
  <2> QED
    BY <2>1
<1>. PICK rest : rest = Tail(q)
  OBVIOUS
<1>3. /\ rest \in Seq(Sendable) /\ Len(rest) = m
      /\ \A i \in 1 .. m : rest[i] = q[i + 1]
  BY <1>0
<1>4. RequestsOK'
  <2>1. ASSUME NEW i \in 1 .. m PROVE RequestOK(i)'
    <3>0. i + 1 \in 1 .. Len(q) /\ rest[i] = q[i + 1] /\ i + 1 - 1 = i
          /\ i + 1 > 1 /\ i \in 1 .. Len(q)
      BY <1>3
    <3>1. RequestOK(i + 1)
      BY <3>0 DEF IInv, RequestsOK
    <3>. PICK e \in Sendable : e = q[i + 1] /\ e = rest[i]
      BY <1>3
    <3>2. /\ e.table # "agent_logs" => Len(e.rows) <= 1
          /\ e.op = "insert" /\ e.table \in PartTables => q[i] = Delete(e.table)
          /\ e.table = "agent_logs" =>
                /\ i + 1 = Len(q)
                /\ persisted_log_count < state.logs
                /\ e.rows = [k \in 1 .. state.logs - persisted_log_count |->
                                persisted_log_count + k]
      BY <3>0, <3>1 DEF RequestOK
    <3>3. persisted_log_count' = persisted_log_count
      <4>1. Len(requests) # 1
        OBVIOUS
      <4>2. r.table # "agent_logs"
        BY <1>0, <4>1, AppliedTables
      <4> QED
        BY <1>0, <4>2
    <3>4. CASE e.op = "insert" /\ e.table \in PartTables
      <4>1. e.table # "agent_logs" /\ q[i] = Delete(e.table)
        BY <3>2, <3>4 DEF PartTables
      <4>2. CASE i = 1
        <5>1. r.op = "delete" /\ r.table = e.table
          BY <4>1, <4>2 DEF Delete
        <5>2. tables'[e.table] = <<>>
          BY ZenonT(40), <1>0, <5>1, AppliedTables
        <5> QED
          BY <1>0, <3>2, <4>1, <4>2, <5>2 DEF RequestOK
      <4>3. CASE i # 1
        <5>1. i - 1 \in 1 .. m /\ i > 1 /\ (i - 1) + 1 = i
          BY <4>3
        <5>2. rest[i - 1] = q[i]
          BY <1>3, <5>1
        <5> QED
          BY <1>0, <3>2, <4>1, <5>1, <5>2 DEF RequestOK
      <4> QED
        BY <4>2, <4>3
    <3>5. CASE ~(e.op = "insert" /\ e.table \in PartTables)
      <4>1. i + 1 = Len(q) => i = Len(rest)
        BY <1>3
      <4> QED
        BY <1>0, <3>2, <3>3, <3>5, <4>1 DEF RequestOK
    <3> QED
      BY <3>4, <3>5
  <2>2. run' \notin {"absent", "gone"}
    BY <1>0 DEF IInv, RequestsOK
  <2> QED
    BY <1>0, <1>3, <2>1, <2>2 DEF RequestsOK
<1>5. TypeOK'
  <2>1. \A i \in DOMAIN rest : rest[i].op \in {"upsert", "delete", "insert"}
                               /\ rest[i].table \in Tables
    BY <1>3, PartsFacts DEF Sendable, Upserts, Deletes, Inserts
  <2>2. DOMAIN tables' = Tables
    BY <1>2 DEF TablesOK
  <2> QED
    BY <1>0, <1>1, <2>1, <2>2 DEF IInv, TypeOK
<1> QED
  BY <1>1, <1>2, <1>4, <1>5 DEF IInv

\* A request that was carried out unanswered is not counted.
LEMMA AnswerLostStep ==
    ASSUME IInv, AnswerLost PROVE IInv'
<1>. PICK r : r = requests[1]
  OBVIOUS
<1>0. /\ requests # <<>> /\ tables' = Applied(r) /\ requests' = <<>>
      /\ answers_lost' = TRUE /\ outcome' = "failed"
      /\ UNCHANGED <<run, state, memory, persisted_log_count>>
  <2>1. Head(requests) = r
    BY DEF AnswerLost
  <2> QED
    BY <2>1 DEF AnswerLost
<1>1. TablesOK'
  BY <1>0, AppliedTables
<1>2. RequestsOK'
  BY <1>0, EmptyRows DEF RequestsOK
<1>3. StateOK'
  BY <1>0 DEF IInv, StateOK
<1>4. TypeOK'
  <2>1. DOMAIN requests' = {}
    BY <1>0
  <2>2. DOMAIN tables' = Tables
    BY <1>1 DEF TablesOK
  <2> QED
    BY <1>0, <2>1, <2>2 DEF IInv, TypeOK
<1>5. LogOK'
  <2>1. CASE r.table # "agent_logs"
    <3>1. tables'["agent_logs"] = tables["agent_logs"]
      BY <1>0, <2>1, AppliedTables
    <3> QED
      BY <1>0, <3>1 DEF IInv, LogOK, Stored
  <2>2. CASE r.table = "agent_logs"
    <3>. PICK old \in Seq(Nat) : old = tables["agent_logs"]
      BY PartsFacts DEF IInv, TablesOK
    <3>. PICK c \in Nat : c = persisted_log_count
      BY MaxSnapshotsAssumption DEF IInv, TypeOK
    <3>. PICK l \in Nat : l = state.logs
      BY DEF IInv, TypeOK, States
    <3>. PICK new : new = tables'["agent_logs"]
      OBVIOUS
    <3>0. MaxSnapshots \in Nat /\ l <= MaxSnapshots
      BY MaxSnapshotsAssumption DEF IInv, StateOK
    <3>1. RequestOK(1)
      <4>1. 1 \in 1 .. Len(requests)
        BY <1>0 DEF IInv, RequestsOK
      <4> QED
        BY <4>1 DEF IInv, RequestsOK
    <3>. PICK rows : rows = r.rows
      OBVIOUS
    <3>2. c < l /\ rows = EntriesFrom(c, l)
      BY <2>2, <3>1 DEF RequestOK, EntriesFrom
    <3>3. new = old \o rows
      BY <1>0, <2>2, AppliedTables
    <3>. PICK k \in Nat : k <= MaxSnapshots /\ ValuesOf(old) = 1 .. k /\ c <= k
      BY <3>0, StoredIs DEF IInv, LogOK
    <3>4. /\ Len(new) = Len(old) + (l - c)
          /\ ValuesOf(new) = 1 .. (IF k < l THEN l ELSE k)
      <4>1. rows \in Seq(Nat)
        BY <1>0, <2>2, AppliedTables DEF Sendable, Upserts, Deletes, Inserts, PartTables
      <4>. PICK d \in Nat : d = l - c
        BY <3>2
      <4>2. Len(rows) = d /\ \A i \in 1 .. d : rows[i] = c + i
        BY <3>2, RowsFrom DEF EntriesFrom
      <4>3. MoreThan(old, new, c, l, k)
        BY ZenonT(40), <3>2, <3>3, <4>1, <4>2, MoreEntries
      <4> QED
        BY <4>3 DEF MoreThan
    <3>. PICK h \in 0 .. MaxSnapshots : h = IF k < l THEN l ELSE k
      BY <3>0
    <3>5. Stored' = 1 .. h /\ c <= h
      <4>1. Stored' = ValuesOf(new)
        BY DEF Stored, ValuesOf
      <4> QED
        BY <3>2, <3>4, <4>1
    <3>6. c <= Len(new)
      <4>1. Len(old) \in Nat /\ c <= Len(old)
        BY LenProperties DEF IInv, LogOK
      <4>. PICK m \in Nat : m = Len(old)
        BY <4>1
      <4> QED
        BY SMTT(30), <3>2, <3>4, <4>1
    <3> QED
      BY <1>0, <3>5, <3>6 DEF LogOK
  <2> QED
    BY <2>1, <2>2
<1> QED
  BY <1>1, <1>2, <1>3, <1>4, <1>5 DEF IInv

LEMMA NextIInv == IInv /\ [Next]_vars => IInv'
<1> SUFFICES ASSUME IInv, [Next]_vars PROVE IInv'
  OBVIOUS
<1>1. CASE UNCHANGED vars
  <2>1. TypeOK' /\ TablesOK' /\ StateOK' /\ LogOK'
    BY <1>1 DEF vars, IInv, TypeOK, TablesOK, StateOK, LogOK, Stored
  <2>2. RequestsOK'
    <3>1. ASSUME NEW i \in 1 .. Len(requests) PROVE RequestOK(i)'
      <4>1. RequestOK(i)
        BY <3>1 DEF IInv, RequestsOK
      <4> QED
        BY <1>1, <4>1 DEF vars, RequestOK
    <3> QED
      BY <1>1, <3>1 DEF vars, IInv, RequestsOK
  <2> QED
    BY <2>1, <2>2 DEF IInv
<1> QED
  BY <1>1, CreateStep, RunStep, AnsweredStep, AnswerLostStep, DroppedStep DEF Next

LEMMA Invariance == Spec => []IInv
BY InitIInv, NextIInv, PTL DEF Spec

-----------------------------------------------------------------------------
(* A snapshot that is sent without an error.                               *)

\* The last request about its table puts these rows there, or did.
Awaited(t, rows) ==
    \/ \E i \in 1 .. Len(requests) :
          requests[i].table = t /\ requests[i].op # "delete" /\ requests[i].rows = rows
    \/ tables[t] = rows /\ \A i \in 1 .. Len(requests) : requests[i].table # t

\* What is left to send makes the tables complete, with what is in them.
Repairing ==
    /\ \E text \in Texts :
          Awaited("project_sessions", <<[status |-> text, n |-> state.n]>>)
    /\ \A part \in 1 .. state.parts : Awaited(Parts[part], <<part>>)
    /\ state.carries =>
          \/ state.logs <= persisted_log_count
          \/ \E i \in 1 .. Len(requests) : requests[i].table = "agent_logs"

\* Nothing is sent about a table after its rows.
RowsComeLast(q) ==
    \A i, j \in 1 .. Len(q) : i < j /\ q[i].op # "delete" => q[j].table # q[i].table

Complete ==
    /\ \A part \in 1 .. state.parts : tables[Parts[part]] = <<part>>
    /\ state.carries => 1 .. state.logs \subseteq Stored
    /\ Last(tables["project_sessions"]).n = state.n

CleanInv ==
    /\ RowsComeLast(requests)
    /\ requests # <<>> <=> outcome = "sending"
    /\ outcome = "sending" => Repairing
    /\ outcome = "stored" => Complete
    /\ run = "absent" => state.n = 0 /\ state.parts = 0 /\ state.logs = 0

\* Requests about some tables, in this order.
Batch(q, T) ==
    /\ q \in Seq(Sendable)
    /\ \A i \in 1 .. Len(q) : q[i].table \in T
    /\ RowsComeLast(q)

Sends(q, r) == \E i \in 1 .. Len(q) : q[i] = r

LEMMA BatchConcat ==
    ASSUME NEW p, NEW q, NEW T, NEW U, Batch(p, T), Batch(q, U), T \cap U = {}
    PROVE  /\ Batch(p \o q, T \cup U)
           /\ \A r : Sends(p, r) \/ Sends(q, r) => Sends(p \o q, r)
<1>. PICK s : s = p \o q
  OBVIOUS
<1>. PICK m \in Nat, n \in Nat : m = Len(p) /\ n = Len(q)
  BY DEF Batch
<1>1. /\ s \in Seq(Sendable) /\ Len(s) = m + n
      /\ \A i \in 1 .. m : s[i] = p[i]
      /\ \A i \in 1 .. n : s[m + i] = q[i]
  BY ConcatIs DEF Batch
<1>2. \A i \in 1 .. m + n : i \in 1 .. m \/ (i - m \in 1 .. n /\ i = m + (i - m))
  OBVIOUS
<1>3. \A i \in 1 .. m + n : \/ i \in 1 .. m /\ s[i] = p[i] /\ s[i].table \in T
                            \/ /\ i - m \in 1 .. n /\ s[i] = q[i - m]
                               /\ s[i].table \in U
  BY <1>1, <1>2 DEF Batch
<1>4. ASSUME NEW i \in 1 .. m + n, NEW j \in 1 .. m + n, i < j, s[i].op # "delete"
      PROVE  s[j].table # s[i].table
  <2>1. CASE i \in 1 .. m /\ j \in 1 .. m
    BY <1>1, <1>4, <2>1 DEF Batch, RowsComeLast
  <2>2. CASE i \in 1 .. m /\ j \notin 1 .. m
    BY <1>3, <2>2, <1>1 DEF Batch
  <2>3. CASE i \notin 1 .. m
    <3>1. /\ i - m \in 1 .. n /\ j - m \in 1 .. n /\ i - m < j - m
          /\ s[i] = q[i - m] /\ s[j] = q[j - m]
      BY <1>3, <1>4, <2>3
    <3> QED
      BY <1>4, <3>1 DEF Batch, RowsComeLast
  <2> QED
    BY <2>1, <2>2, <2>3
<1>5. ASSUME NEW r, Sends(p, r) \/ Sends(q, r) PROVE Sends(s, r)
  <2>1. CASE Sends(p, r)
    <3>. PICK i \in 1 .. m : p[i] = r
      BY <2>1 DEF Sends
    <3>1. i \in 1 .. Len(s) /\ s[i] = r
      BY <1>1
    <3> QED
      BY <3>1 DEF Sends
  <2>2. CASE Sends(q, r)
    <3>. PICK i \in 1 .. n : q[i] = r
      BY <2>2 DEF Sends
    <3>1. m + i \in 1 .. Len(s) /\ s[m + i] = r
      BY <1>1
    <3> QED
      BY <3>1 DEF Sends
  <2> QED
    BY <1>5, <2>1, <2>2
<1>6. Batch(s, T \cup U)
  BY <1>1, <1>3, <1>4 DEF Batch, RowsComeLast
<1> QED
  BY <1>5, <1>6

LEMMA OneRequest ==
    ASSUME NEW r \in Sendable PROVE Batch(<<r>>, {r.table}) /\ Sends(<<r>>, r)
<1>. PICK q : q = <<r>>
  OBVIOUS
<1>1. q \in Seq(Sendable) /\ Len(q) = 1 /\ q[1] = r
  BY OneRow
<1>2. 1 .. 1 = {1}
  OBVIOUS
<1> QED
  BY <1>1, <1>2 DEF Batch, Sends, RowsComeLast

LEMMA NoRequest == \A T : Batch(<<>>, T)
BY EmptyRows DEF Batch, RowsComeLast

LEMMA ReplaceBatch ==
    ASSUME NEW s \in States, NEW part \in 1 .. 3
    PROVE  /\ Batch(Replace(part, s), {Parts[part]})
           /\ part <= s.parts =>
                 Sends(Replace(part, s), Insert(Parts[part], <<part>>))
<1>. PICK t \in PartTables : t = Parts[part]
  BY PartsFacts
<1>. PICK d \in Sendable : d = Delete(t)
  BY SendableTypes
<1>. PICK rows \in Seq(Nat) : rows = <<part>>
  <2>1. part \in Nat
    OBVIOUS
  <2> QED
    BY <2>1, OneRow
<1>. PICK e \in Sendable : e = Insert(t, rows)
  BY SendableTypes
<1>1. CASE part <= s.parts
  <2>1. Replace(part, s) = <<d, e>> /\ d.table = t /\ e.table = t /\ d.op = "delete"
    BY <1>1 DEF Replace, Delete, Insert
  <2>. PICK q : q = <<d, e>>
    OBVIOUS
  <2>2. q \in Seq(Sendable) /\ Len(q) = 2 /\ q[1] = d /\ q[2] = e
    OBVIOUS
  <2>3. 1 .. 2 = {1, 2}
    OBVIOUS
  <2>4. Batch(q, {t})
    BY <2>1, <2>2, <2>3 DEF Batch, RowsComeLast
  <2>5. Sends(q, e)
    BY <2>2, <2>3 DEF Sends
  <2> QED
    BY <2>1, <2>4, <2>5
<1>2. CASE ~(part <= s.parts)
  BY <1>2, NoRequest DEF Replace
<1> QED
  BY <1>1, <1>2

LEMMA NewEntriesBatch ==
    ASSUME NEW s \in States, persisted_log_count \in Nat
    PROVE  /\ Batch(NewEntries(s), {"agent_logs"})
           /\ s.carries => \/ s.logs <= persisted_log_count
                           \/ \E r : r.table = "agent_logs" /\ Sends(NewEntries(s), r)
<1>1. CASE ~s.carries \/ s.logs <= persisted_log_count
  BY <1>1, NoRequest DEF NewEntries
<1>2. CASE ~(~s.carries \/ s.logs <= persisted_log_count)
  <2>. PICK n \in Nat : n = s.logs - persisted_log_count
    BY <1>2 DEF States
  <2>. PICK rows \in Seq(Nat) : rows = [i \in 1 .. n |-> persisted_log_count + i]
    BY RowsFrom
  <2>. PICK r \in Sendable : r = Insert("agent_logs", rows)
    BY SendableTypes
  <2>1. NewEntries(s) = <<r>> /\ r.table = "agent_logs"
    BY <1>2 DEF NewEntries, Insert
  <2> QED
    BY <2>1, OneRequest
<1> QED
  BY <1>1, <1>2

\* A snapshot sends its row, each of its parts, and its new entries.
LEMMA SnapshotBatch ==
    ASSUME NEW s \in States, NEW text \in Texts, persisted_log_count \in Nat, NEW q,
           q = PersistSnapshot(s, text)
    PROVE  /\ q \in Seq(Sendable) /\ RowsComeLast(q) /\ q # <<>>
           /\ Sends(q, Upsert([status |-> text, n |-> s.n]))
           /\ \A part \in 1 .. s.parts : Sends(q, Insert(Parts[part], <<part>>))
           /\ s.carries => \/ s.logs <= persisted_log_count
                           \/ \E r : r.table = "agent_logs" /\ Sends(q, r)
<1>0. Parts[1] = "project_requirements" /\ Parts[2] = "project_architectures"
      /\ Parts[3] = "validation_results"
  BY DEF Parts
<1>. PICK u \in Sendable : u = Upsert([status |-> text, n |-> s.n])
  <2>1. [status |-> text, n |-> s.n] \in SessionRows
    BY DEF States, SessionRows
  <2> QED
    BY <2>1, SendableTypes
<1>. PICK a, b, c, d, e : /\ a = <<u>> /\ b = Replace(1, s) /\ c = Replace(2, s)
                          /\ d = Replace(3, s) /\ e = NewEntries(s)
  OBVIOUS
<1>1. Batch(a, {"project_sessions"}) /\ Sends(a, u)
  <2>1. u.table = "project_sessions"
    BY DEF Upsert
  <2> QED
    BY <2>1, OneRequest
<1>2. /\ Batch(b, {Parts[1]}) /\ Batch(c, {Parts[2]}) /\ Batch(d, {Parts[3]})
      /\ 1 <= s.parts => Sends(b, Insert(Parts[1], <<1>>))
      /\ 2 <= s.parts => Sends(c, Insert(Parts[2], <<2>>))
      /\ 3 <= s.parts => Sends(d, Insert(Parts[3], <<3>>))
  <2>1. Batch(b, {Parts[1]}) /\ (1 <= s.parts => Sends(b, Insert(Parts[1], <<1>>)))
    BY ReplaceBatch
  <2>2. Batch(c, {Parts[2]}) /\ (2 <= s.parts => Sends(c, Insert(Parts[2], <<2>>)))
    BY ReplaceBatch
  <2>3. Batch(d, {Parts[3]}) /\ (3 <= s.parts => Sends(d, Insert(Parts[3], <<3>>)))
    BY ReplaceBatch
  <2> QED
    BY <2>1, <2>2, <2>3
<1>3. /\ Batch(e, {"agent_logs"})
      /\ s.carries => \/ s.logs <= persisted_log_count
                      \/ \E r : r.table = "agent_logs" /\ Sends(e, r)
  BY NewEntriesBatch
<1>. PICK ab, abc, abcd : ab = a \o b /\ abc = ab \o c /\ abcd = abc \o d
  OBVIOUS
<1>. PICK T, U, V : /\ T = {"project_sessions"} \cup {Parts[1]}
                   /\ U = T \cup {Parts[2]} /\ V = U \cup {Parts[3]}
  OBVIOUS
<1>4. Batch(ab, T) /\ \A r : Sends(a, r) \/ Sends(b, r) => Sends(ab, r)
  <2>1. {"project_sessions"} \cap {Parts[1]} = {}
    BY <1>0
  <2> QED
    BY <1>1, <1>2, <2>1, BatchConcat
<1>5. Batch(abc, U) /\ \A r : Sends(ab, r) \/ Sends(c, r) => Sends(abc, r)
  <2>1. T \cap {Parts[2]} = {}
    BY <1>0
  <2> QED
    BY <1>2, <1>4, <2>1, BatchConcat
<1>6. Batch(abcd, V) /\ \A r : Sends(abc, r) \/ Sends(d, r) => Sends(abcd, r)
  <2>1. U \cap {Parts[3]} = {}
    BY <1>0
  <2> QED
    BY <1>2, <1>5, <2>1, BatchConcat
<1>7. q = abcd \o e
  BY DEF PersistSnapshot
<1>8. /\ Batch(q, V \cup {"agent_logs"})
      /\ \A r : Sends(abcd, r) \/ Sends(e, r) => Sends(q, r)
  <2>1. V \cap {"agent_logs"} = {}
    BY <1>0
  <2>2. Batch(abcd, V) /\ Batch(e, {"agent_logs"})
    BY <1>3, <1>6
  <2>3. /\ Batch(abcd \o e, V \cup {"agent_logs"})
        /\ \A r : Sends(abcd, r) \/ Sends(e, r) => Sends(abcd \o e, r)
    BY <2>1, <2>2, BatchConcat
  <2> QED
    BY <1>7, <2>3
<1>9. Sends(q, u)
  BY <1>1, <1>4, <1>5, <1>6, <1>8
<1>10. q # <<>>
  BY <1>9 DEF Sends
<1>11. \A part \in 1 .. s.parts : Sends(q, Insert(Parts[part], <<part>>))
  <2> SUFFICES ASSUME NEW part \in 1 .. s.parts
               PROVE  Sends(q, Insert(Parts[part], <<part>>))
    OBVIOUS
  <2>1. s.parts \in 0 .. 3
    BY PartsFacts DEF States
  <2>2. part = 1 \/ part = 2 \/ part = 3
    BY <2>1
  <2>. PICK r : r = Insert(Parts[part], <<part>>)
    OBVIOUS
  <2>3. CASE part = 1
    <3>1. Sends(b, r)
      BY <1>2, <2>1, <2>3
    <3> QED
      BY <1>4, <1>5, <1>6, <1>8, <3>1
  <2>4. CASE part = 2
    <3>1. Sends(c, r)
      BY <1>2, <2>1, <2>4
    <3> QED
      BY <1>5, <1>6, <1>8, <3>1
  <2>5. CASE part = 3
    <3>1. Sends(d, r)
      BY <1>2, <2>1, <2>5
    <3> QED
      BY <1>6, <1>8, <3>1
  <2> QED
    BY <2>2, <2>3, <2>4, <2>5
<1>12. q \in Seq(Sendable) /\ RowsComeLast(q)
  BY <1>8 DEF Batch
<1> QED
  BY <1>3, <1>8, <1>9, <1>10, <1>11, <1>12


LEMMA InitClean == Init => CleanInv
<1> SUFFICES ASSUME Init PROVE CleanInv
  OBVIOUS
<1>1. /\ requests = <<>> /\ outcome = "none" /\ state.n = 0 /\ state.parts = 0
      /\ state.logs = 0
  BY DEF Init
<1> QED
  BY <1>1 DEF CleanInv, RowsComeLast

\* What a snapshot sends repairs the tables, whatever they hold.
LEMMA SnapshotCleanStep ==
    ASSUME IInv, NEW s \in States, NEW text \in Texts, SnapshotTask(s, text),
           run' # "absent"
    PROVE  CleanInv'
<1>. PICK q : q = PersistSnapshot(s, text)
  OBVIOUS
<1>0. /\ state' = s /\ requests' = q /\ outcome' = "sending" /\ persisted_log_count \in Nat
      /\ persisted_log_count' = persisted_log_count /\ tables' = tables
  BY DEF SnapshotTask, IInv, TypeOK
<1>1. /\ RowsComeLast(q) /\ q # <<>>
      /\ Sends(q, Upsert([status |-> text, n |-> s.n]))
      /\ \A part \in 1 .. s.parts : Sends(q, Insert(Parts[part], <<part>>))
      /\ s.carries => \/ s.logs <= persisted_log_count
                      \/ \E r : r.table = "agent_logs" /\ Sends(q, r)
  BY <1>0, SnapshotBatch
<1>2. Awaited("project_sessions", <<[status |-> text, n |-> s.n]>>)'
  BY <1>0, <1>1 DEF Sends, Upsert, Awaited
<1>3. ASSUME NEW part \in 1 .. s.parts PROVE Awaited(Parts[part], <<part>>)'
  <2>. PICK t, rows : t = Parts[part] /\ rows = <<part>>
    OBVIOUS
  <2>1. Sends(q, Insert(t, rows))
    BY <1>1
  <2> QED
    BY <1>0, <2>1 DEF Sends, Insert, Awaited
<1>4. s.carries => \/ s.logs <= persisted_log_count
                   \/ \E i \in 1 .. Len(q) : q[i].table = "agent_logs"
  BY <1>1 DEF Sends
<1>5. Repairing'
  BY <1>0, <1>2, <1>3, <1>4 DEF Repairing
<1> QED
  BY <1>0, <1>1, <1>5 DEF CleanInv, RowsComeLast

LEMMA RunCleanStep ==
    ASSUME IInv, RunNode \/ FinishRun \/ StoreFailure PROVE CleanInv'
<1>. PICK x \in States : x = state
  BY DEF IInv, TypeOK
<1>1. x.n + 1 \in Nat /\ x.parts \in 0 .. 3
  BY PartsFacts DEF States
<1>2. run = "running" /\ run' # "absent"
  BY DEF RunNode, FinishRun, StoreFailure, SnapshotTask
<1>3. CASE RunNode
  <2>. PICK s : /\ SnapshotTask(s, "started")
                /\ \/ s = [x EXCEPT !.n = @ + 1]
                   \/ s = [[x EXCEPT !.n = @ + 1] EXCEPT !.logs = @ + 1]
                   \/ /\ x.parts = 0
                      /\ s = [[x EXCEPT !.n = @ + 1] EXCEPT !.parts = 1, !.logs = @ + 1]
                   \/ /\ x.parts \in {1, 2}
                      /\ s = [[x EXCEPT !.n = @ + 1] EXCEPT !.parts = @ + 1]
    BY <1>3 DEF RunNode
  <2>1. s \in States
    BY StatesAfter
  <2>2. "started" \in Texts
    BY DEF Texts
  <2> QED
    BY <1>2, <2>1, <2>2, SnapshotCleanStep
<1>4. CASE FinishRun
  <2>. PICK st \in {"completed", "failed"} :
            SnapshotTask([x EXCEPT !.n = @ + 1, !.status = st], st)
    BY <1>4 DEF FinishRun
  <2>. PICK s : s = [x EXCEPT !.n = @ + 1, !.status = st]
    OBVIOUS
  <2>1. s \in States
    BY StatesAfter
  <2>2. st \in Texts
    BY DEF Texts
  <2> QED
    BY <1>2, <2>1, <2>2, SnapshotCleanStep
<1>5. CASE StoreFailure
  <2>. PICK s : s = [n |-> x.n + 1, status |-> "failed", parts |-> 0,
                     logs |-> 0, carries |-> FALSE]
    OBVIOUS
  <2>1. s \in States /\ "TaskStatus.FAILED" \in Texts
    BY <1>1, PartsFacts DEF States, Texts
  <2>2. SnapshotTask(s, "TaskStatus.FAILED")
    BY <1>5 DEF StoreFailure
  <2> QED
    BY <1>2, <2>1, <2>2, SnapshotCleanStep
<1> QED
  BY <1>3, <1>4, <1>5

LEMMA CreateCleanStep ==
    ASSUME IInv, CleanInv, CreateTask PROVE CleanInv'
<1>. PICK row : row = [status |-> "started", n |-> 0]
  OBVIOUS
<1>. PICK u \in Sendable : u = Upsert(row)
  <2>1. row \in SessionRows
    BY DEF SessionRows, Texts
  <2> QED
    BY <2>1, SendableTypes
<1>. PICK q : q = <<u>>
  OBVIOUS
<1>0. /\ requests' = q /\ outcome' = "sending" /\ run' = "running" /\ state' = state
      /\ persisted_log_count' = persisted_log_count /\ tables' = tables
  BY DEF CreateTask
<1>1. state.n = 0 /\ state.parts = 0 /\ state.logs = 0 /\ persisted_log_count \in Nat
  BY DEF CreateTask, CleanInv, IInv, TypeOK
<1>2. Batch(q, {u.table}) /\ Sends(q, u)
  BY OneRequest
<1>3. Awaited("project_sessions", <<[status |-> "started", n |-> state.n]>>)'
  BY <1>0, <1>1, <1>2 DEF Sends, Upsert, Awaited
<1>4. Repairing'
  <2>1. "started" \in Texts
    BY DEF Texts
  <2> QED
    BY <1>0, <1>1, <1>3, <2>1 DEF Repairing
<1>5. q # <<>>
  OBVIOUS
<1> QED
  BY <1>0, <1>2, <1>4, <1>5 DEF CleanInv, RowsComeLast, Batch

LEMMA DroppedCleanStep ==
    ASSUME IInv, CleanInv, Refused \/ AnswerLost \/ Restart PROVE CleanInv'
<1>1. /\ requests' = <<>> /\ run' # "absent" /\ state' = state
      /\ outcome' = "failed" \/ (outcome' = outcome /\ tables' = tables /\ requests = <<>>)
  BY DEF Refused, AnswerLost, Restart, IInv, RequestsOK
<1>2. CASE outcome' = "failed"
  BY <1>1, <1>2 DEF CleanInv, RowsComeLast
<1>3. CASE outcome' = outcome /\ tables' = tables /\ requests = <<>>
  BY <1>1, <1>3 DEF CleanInv, RowsComeLast, Complete, Stored
<1> QED
  BY <1>1, <1>2, <1>3

\* What is awaited in a table is still awaited, or there, after the answer to
\* the first request.
LEMMA AwaitedStep ==
    ASSUME IInv, RowsComeLast(requests), Answered,
           NEW t \in Tables \ {"agent_logs"}, NEW rows, Awaited(t, rows)
    PROVE  Awaited(t, rows)'
<1>. PICK q \in Seq(Sendable) : q = requests
  BY DEF IInv, RequestsOK
<1>. PICK r : r = q[1]
  OBVIOUS
<1>. PICK n \in Nat : n = Len(q)
  OBVIOUS
<1>. PICK z : z = requests'
  OBVIOUS
<1>0. /\ n >= 1 /\ Len(z) = n - 1 /\ z \in Seq(Sendable)
      /\ \A i \in 1 .. n - 1 : z[i] = q[i + 1]
      /\ tables' = Applied(r)
  BY DEF Answered
<1>1. /\ r \in Sendable /\ r.table \in Tables /\ DOMAIN tables = Tables
      /\ tables[t] \in Seq(Nat) \/ tables[t] \in Seq(SessionRows)
  BY <1>0, AppliedTables DEF Answered, IInv, TablesOK
<1>2. CASE \E i \in 1 .. n : i > 1 /\ q[i].table = t /\ q[i].op # "delete" /\ q[i].rows = rows
  <2>. PICK i \in 2 .. n : q[i].table = t /\ q[i].op # "delete" /\ q[i].rows = rows
    BY <1>2
  <2>1. i - 1 \in 1 .. n - 1 /\ z[i - 1] = q[i]
    BY <1>0
  <2> QED
    BY <1>0, <2>1 DEF Awaited
<1>3. CASE r.table = t /\ r.op # "delete" /\ r.rows = rows
  <2>1. \A i \in 1 .. n - 1 : z[i].table # t
    <3> SUFFICES ASSUME NEW i \in 1 .. n - 1 PROVE z[i].table # t
      OBVIOUS
    <3>1. i + 1 \in 1 .. n /\ 1 \in 1 .. n /\ 1 < i + 1 /\ z[i] = q[i + 1]
      BY <1>0
    <3> QED
      BY <1>3, <3>1 DEF RowsComeLast
  <2>2. tables'[t] = rows
    <3>1. CASE r.op = "insert"
      <4>1. t \in PartTables
        BY <1>1, <1>3, <3>1, PartsFacts DEF Sendable, Upserts, Deletes, Inserts
      <4>2. tables[t] = <<>>
        <5>1. RequestOK(1) /\ 1 \in 1 .. n
          BY <1>0 DEF IInv, RequestsOK
        <5> QED
          BY <1>3, <3>1, <4>1, <5>1 DEF RequestOK
      <4>3. r.rows \in Seq(Nat)
        BY <1>1, <3>1 DEF Sendable, Upserts, Deletes, Inserts
      <4>4. tables'[t] = tables[t] \o r.rows
        BY <1>0, <1>1, <1>3, <3>1, AppliedIs
      <4> QED
        BY <1>3, <4>2, <4>3, <4>4
    <3>2. CASE r.op # "insert"
      BY <1>0, <1>1, <1>3, <3>2, AppliedIs
    <3> QED
      BY <3>1, <3>2
  <2> QED
    BY <1>0, <2>1, <2>2 DEF Awaited
<1>4. CASE tables[t] = rows /\ \A i \in 1 .. n : q[i].table # t
  <2>1. r.table # t
    BY <1>0, <1>4
  <2>2. tables'[t] = rows
    <3>1. Applied(r)[t] = tables[t]
      BY <1>1, <2>1, AppliedIs
    <3> QED
      BY <1>0, <1>4, <3>1
  <2>3. \A i \in 1 .. n - 1 : z[i].table # t
    BY <1>0, <1>4
  <2> QED
    BY <1>0, <2>2, <2>3 DEF Awaited
<1> QED
  BY <1>2, <1>3, <1>4 DEF Awaited

LEMMA AnsweredCleanStep ==
    ASSUME IInv, CleanInv, Answered PROVE CleanInv'
<1>. PICK q \in Seq(Sendable) : q = requests
  BY DEF IInv, RequestsOK
<1>. PICK r : r = q[1]
  OBVIOUS
<1>. PICK n \in Nat : n = Len(q)
  OBVIOUS
<1>. PICK z : z = requests'
  OBVIOUS
<1>0. /\ n >= 1 /\ Len(z) = n - 1 /\ z \in Seq(Sendable)
      /\ \A i \in 1 .. n - 1 : z[i] = q[i + 1]
      /\ state' = state /\ run' = run
      /\ outcome' = IF n = 1 THEN "stored" ELSE outcome
      /\ persisted_log_count' = IF r.table = "agent_logs" THEN state.logs
                                                          ELSE persisted_log_count
  BY DEF Answered
<1>1. Repairing /\ outcome = "sending" /\ RowsComeLast(q)
  BY <1>0 DEF CleanInv
<1>2. RowsComeLast(z)
  <2> SUFFICES ASSUME NEW i \in 1 .. n - 1, NEW j \in 1 .. n - 1, i < j, z[i].op # "delete"
               PROVE  z[j].table # z[i].table
    BY <1>0 DEF RowsComeLast
  <2>1. /\ i + 1 \in 1 .. n /\ j + 1 \in 1 .. n /\ i + 1 < j + 1
        /\ z[i] = q[i + 1] /\ z[j] = q[j + 1]
    BY <1>0
  <2> QED
    BY <1>1, <2>1 DEF RowsComeLast
<1>3. Repairing'
  <2>. PICK text \in Texts :
            Awaited("project_sessions", <<[status |-> text, n |-> state.n]>>)
    BY <1>1 DEF Repairing
  <2>1. "project_sessions" \in Tables \ {"agent_logs"}
    BY PartsFacts
  <2>2. Awaited("project_sessions", <<[status |-> text, n |-> state.n]>>)'
    <3>. PICK rows : rows = <<[status |-> text, n |-> state.n]>>
      OBVIOUS
    <3>1. Awaited("project_sessions", rows)'
      BY <1>1, <2>1, AwaitedStep
    <3>2. rows = <<[status |-> text, n |-> state'.n]>>
      BY <1>0
    <3> QED
      BY <1>0, <3>1, <3>2 DEF Awaited
  <2>3. ASSUME NEW part \in 1 .. state.parts PROVE Awaited(Parts[part], <<part>>)'
    <3>1. Parts[part] \in Tables \ {"agent_logs"}
      <4>1. state.parts \in 0 .. 3
        BY PartsFacts DEF IInv, TypeOK, States
      <4>2. part \in 1 .. 3
        BY <4>1
      <4> QED
        BY <4>2, PartsFacts DEF PartTables
    <3>2. Awaited(Parts[part], <<part>>)
      BY <1>1 DEF Repairing
    <3> QED
      BY <1>1, <3>1, <3>2, AwaitedStep
  <2>4. state.carries => \/ state.logs <= persisted_log_count'
                         \/ \E i \in 1 .. n - 1 : z[i].table = "agent_logs"
    <3>1. CASE r.table = "agent_logs"
      <4>1. state.logs \in Nat
        BY DEF IInv, TypeOK, States
      <4> QED
        BY <1>0, <3>1, <4>1
    <3>2. CASE r.table # "agent_logs"
      <4>1. CASE \E i \in 1 .. n : q[i].table = "agent_logs"
        <5>. PICK i \in 1 .. n : q[i].table = "agent_logs"
          BY <4>1
        <5>1. i - 1 \in 1 .. n - 1 /\ z[i - 1] = q[i]
          BY <1>0, <3>2
        <5> QED
          BY <5>1
      <4>2. CASE ~ \E i \in 1 .. n : q[i].table = "agent_logs"
        BY <1>0, <1>1, <3>2, <4>2 DEF Repairing
      <4> QED
        BY <4>1, <4>2
    <3> QED
      BY <3>1, <3>2
  <2> QED
    BY <1>0, <2>2, <2>3, <2>4 DEF Repairing
<1>4. ASSUME n = 1 PROVE Complete'
  <2>1. IInv' /\ \A i \in 1 .. Len(requests') : FALSE
    BY <1>0, <1>4, AnsweredStep
  <2>. PICK text \in Texts :
            Awaited("project_sessions", <<[status |-> text, n |-> state.n]>>)'
    BY <1>0, <1>3 DEF Repairing
  <2>2. tables'["project_sessions"] = <<[status |-> text, n |-> state.n]>>
    BY <1>0, <2>1 DEF Awaited
  <2>3. Last(tables'["project_sessions"]).n = state.n
    <3>. PICK row : row = [status |-> text, n |-> state.n]
      OBVIOUS
    <3>1. Last(<<row>>) = row
      BY DEF Last
    <3> QED
      BY <2>2, <3>1
  <2>4. \A part \in 1 .. state.parts : tables'[Parts[part]] = <<part>>
    <3> SUFFICES ASSUME NEW part \in 1 .. state.parts
                 PROVE  tables'[Parts[part]] = <<part>>
      OBVIOUS
    <3>1. Awaited(Parts[part], <<part>>)'
      BY <1>0, <1>3 DEF Repairing
    <3> QED
      BY <2>1, <3>1 DEF Awaited
  <2>5. state.carries => 1 .. state.logs \subseteq Stored'
    <3> SUFFICES ASSUME state.carries PROVE 1 .. state.logs \subseteq Stored'
      OBVIOUS
    <3>1. state.logs <= persisted_log_count'
      BY <1>0, <1>3, <2>1 DEF Repairing
    <3>. PICK k \in 0 .. MaxSnapshots : Stored' = 1 .. k /\ persisted_log_count' <= k
      BY <2>1 DEF IInv, LogOK
    <3>2. state.logs \in Nat /\ persisted_log_count' \in Nat
      BY <2>1 DEF IInv, TypeOK, States
    <3> QED
      BY <3>1, <3>2
  <2> QED
    BY <1>0, <2>3, <2>4, <2>5 DEF Complete
<1>5. z # <<>> <=> n # 1
  BY <1>0
<1>6. run' # "absent"
  BY <1>0 DEF IInv, RequestsOK
<1> QED
  BY <1>0, <1>1, <1>2, <1>3, <1>4, <1>5, <1>6 DEF CleanInv

LEMMA NextClean == IInv /\ CleanInv /\ [Next]_vars => CleanInv'
<1> SUFFICES ASSUME IInv, CleanInv, [Next]_vars PROVE CleanInv'
  OBVIOUS
<1>1. CASE UNCHANGED vars
  <2>1. Repairing' <=> Repairing
    BY <1>1 DEF vars, Repairing, Awaited
  <2>2. Complete' <=> Complete
    BY <1>1 DEF vars, Complete, Stored
  <2>3. RowsComeLast(requests)' <=> RowsComeLast(requests)
    BY <1>1 DEF vars, RowsComeLast
  <2> QED
    BY <1>1, <2>1, <2>2, <2>3 DEF vars, CleanInv
<1> QED
  BY <1>1, RunCleanStep, CreateCleanStep, DroppedCleanStep, AnsweredCleanStep DEF Next

-----------------------------------------------------------------------------
\* Every table, request and counter keeps its type; in particular the counter
\* never leaves the log of the graph.
THEOREM SessionTypeCorrect == Spec => []TypeOK
<1>1. IInv => TypeOK
  BY DEF IInv
<1> QED
  BY <1>1, Invariance, PTL

\* The log in the database is a beginning of the log of the graph, and every
\* entry that is counted is in it.
THEOREM LogIsABeginning == Spec => []LogHasNoHole
<1>1. IInv => LogHasNoHole
  BY DEF IInv, LogOK, StateOK, LogHasNoHole
<1> QED
  BY <1>1, Invariance, PTL

\* No row is repeated without a lost answer, and no part even then.
THEOREM RowsAreSingle == Spec => []RowsAreNotRepeated
<1>1. IInv => RowsAreNotRepeated
  BY DEF IInv, LogOK, TablesOK, RowsAreNotRepeated
<1> QED
  BY <1>1, Invariance, PTL

\* A snapshot that was sent without an error leaves all of it in the tables,
\* whatever the failures of earlier ones left there.
THEOREM CleanSnapshotsAreComplete == Spec => []CleanSnapshotIsComplete
<1>1. Spec => [](IInv /\ CleanInv)
  BY InitIInv, InitClean, NextIInv, NextClean, PTL DEF Spec
<1>2. IInv /\ CleanInv => CleanSnapshotIsComplete
  BY DEF CleanInv, Complete, CleanSnapshotIsComplete
<1> QED
  BY <1>1, <1>2, PTL
=============================================================================
