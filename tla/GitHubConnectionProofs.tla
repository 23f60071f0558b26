----------------------- MODULE GitHubConnectionProofs -----------------------
(***************************************************************************)
(* Theorems about the GitHub connections, for any number of connections,     *)
(* tasks, codes and generations of the service.                              *)
(***************************************************************************)
EXTENDS GitHubConnection, TLAPS

-----------------------------------------------------------------------------
(* The inductive invariant.                                                *)

Granted(t, c) == attempts[t].pc = "granted" /\ attempts[t].connection = c

\* What holds of every record, stored or carried by an exchange: its status
\* says what it holds, its code was issued, only an OAuth connection waits for
\* an exchange, the others have tokens some service offered, and a link is to a
\* task served.
GoodRecord(r, c) ==
    /\ r \in Records
    /\ r.status = "ready" => r.code # NoCode /\ c \in OAuthConnections
    /\ r.code # NoCode => codes[r.code].status # "unissued"
    /\ r.status = "exchanged" => r.token # NoToken /\ r.code = NoCode
    /\ c \in EnvConnections => r.token \in offered \cup {NoToken}
    /\ r.task # NoTask => Granted(r.task, c)

RecordsAreGood ==
    \A g \in Generations, c \in Connections : GoodRecord(records[g][c], c)

\* An exchange carries a record that was ready when it was read, however the
\* stored one changed since.
CopiesAreGood ==
    \A t \in Tasks :
        attempts[t].pc \in {"exchanging", "fetching"} =>
            /\ GoodRecord(attempts[t].copy, attempts[t].connection)
            /\ attempts[t].copy.status = "ready"

FetchersHaveTokens ==
    \A t \in Tasks : attempts[t].pc = "fetching" => attempts[t].token \in Codes

\* The backend's own token, as a service of generation g may hand it out.
EnvToken(token, g) ==
    IF g \in offered THEN token = g ELSE token \in offered /\ backend = "supabase"

EnvTokensAreCurrent ==
    \A t \in Tasks :
        attempts[t].pc = "granted" /\ attempts[t].connection \in EnvConnections
            => EnvToken(attempts[t].token, attempts[t].generation)

\* In memory a connection of the environment is in the store of the service that
\* made it, which offered its token.
EnvRecordsAreOwn ==
    backend = "memory" =>
        \A g \in Generations, c \in EnvConnections :
            records[g][c].token # NoToken => g \in offered

\* A task was launched with a service that is there: what a later one offers
\* does not change what the task may be given.
NothingIsAhead ==
    \A t \in Tasks : attempts[t].generation <= generation

CodesAreOAuth ==
    \A k \in Codes :
        codes[k].status # "unissued" => codes[k].connection \in OAuthConnections

Core ==
    /\ TypeOK
    /\ RecordsAreGood
    /\ CopiesAreGood
    /\ FetchersHaveTokens
    /\ EnvTokensAreCurrent
    /\ CodesAreOAuth

Inv == Core /\ EnvRecordsAreOwn /\ NothingIsAhead

-----------------------------------------------------------------------------
(* Stores and records.                                                     *)

\* Every service has a store.
LEMMA StoreType ==
    ASSUME NEW g \in Generations
    PROVE  StoreOf(g) \in Generations
  BY MaxGenerationAssumption DEF StoreOf, Generations

\* What a service reads is a good record.
LEMMA ReadIsGood ==
    ASSUME Inv, NEW g \in Generations, NEW c \in Connections
    PROVE  RecordOf(g, c) \in Records /\ GoodRecord(RecordOf(g, c), c)
  BY StoreType DEF Inv, Core, RecordsAreGood, RecordOf, TypeOK

\* An update keeps the shape of the stores.
LEMMA UpdatedType ==
    ASSUME Inv, NEW g \in Generations, NEW c \in Connections, NEW r \in Records
    PROVE  Updated(g, c, r) \in [Generations -> [Connections -> Records]]
  BY StoreType DEF Inv, Core, TypeOK, Updated

\* An update changes one record, to what is written, and only one that is
\* there.
LEMMA UpdatedRecord ==
    ASSUME Inv, NEW g \in Generations, NEW c \in Connections, NEW r,
           NEW h \in Generations, NEW d \in Connections
    PROVE  Updated(g, c, r)[h][d] = IF Present(g, c) /\ h = StoreOf(g) /\ d = c
                                    THEN r ELSE records[h][d]
  BY StoreType DEF Inv, Core, TypeOK, Updated

\* The services go on: a new one may come, and what the others offer stays.
LEMMA ServicesStay ==
    ASSUME Inv, [Next]_vars
    PROVE  /\ backend' = backend
           /\ generation' \in Generations /\ generation <= generation'
           /\ offered \subseteq offered' /\ offered' \subseteq 0..generation'
           /\ \A g \in 0..generation : g \in offered' => g \in offered
  <1>1. generation \in 0..MaxGeneration /\ offered \subseteq 0..generation
    BY DEF Inv, Core, TypeOK, Generations
  <1>2. CASE UNCHANGED <<backend, generation, offered>>
    BY <1>1, <1>2, MaxGenerationAssumption DEF Generations
  <1>3. ASSUME NEW offers, NewService(offers), UNCHANGED backend
        PROVE  /\ backend' = backend
               /\ generation' \in Generations /\ generation <= generation'
               /\ offered \subseteq offered' /\ offered' \subseteq 0..generation'
               /\ \A g \in 0..generation : g \in offered' => g \in offered
    <2>1. /\ generation < MaxGeneration /\ generation' = generation + 1
          /\ offered' = offered \/ offered' = offered \cup {generation + 1}
      BY <1>3 DEF NewService
    <2>2. generation' \in Generations /\ generation <= generation'
      BY <1>1, <2>1, MaxGenerationAssumption DEF Generations
    <2>3. offered' \subseteq 0..generation'
      <3> SUFFICES ASSUME NEW g \in offered' PROVE g \in 0..generation'
        OBVIOUS
      <3>1. generation \in Nat
        BY <1>1, MaxGenerationAssumption
      <3>2. g \in 0..generation \/ g = generation + 1
        BY <1>1, <2>1
      <3>3. QED  BY <2>1, <3>1, <3>2
    <2>4. \A g \in 0..generation : g \in offered' => g \in offered
      BY <1>1, <2>1, MaxGenerationAssumption
    <2>5. QED  BY <1>3, <2>1, <2>2, <2>3, <2>4
  <1>4. \/ UNCHANGED <<backend, generation, offered>>
        \/ (\E offers \in BOOLEAN : NewService(offers)) /\ UNCHANGED backend
    <2>1. CASE UNCHANGED vars
      BY <2>1 DEF vars
    <2>2. CASE \E t \in Tasks : Launch(t) \/ Exchange(t)
      BY <2>2 DEF Launch, Exchange, FindExchanged, Refuse, BeginExchange,
                  ExchangeCode, FetchUser
    <2>3. QED
      BY <2>1, <2>2 DEF Next, CreatePendingConnection, Authorise, CompleteCallback,
                        Disconnect, UseEnvToken, Restart
  <1>5. QED  BY <1>2, <1>3, <1>4

\* What a task was given it may still have been given later.
LEMMA EnvTokenStays ==
    ASSUME Inv, [Next]_vars, NEW t \in Tasks,
           EnvToken(attempts[t].token, attempts[t].generation),
           attempts'[t].token = attempts[t].token,
           attempts'[t].generation = attempts[t].generation
    PROVE  EnvToken(attempts[t].token, attempts[t].generation)'
  <1>1. PICK g \in 0..generation : g = attempts[t].generation
    BY DEF Inv, NothingIsAhead, Core, TypeOK, Attempts, Generations
  <1>2. QED  BY <1>1, ServicesStay DEF EnvToken

\* Once served a task stays served.
LEMMA GrantedStays ==
    ASSUME Inv, [Next]_vars, NEW t \in Tasks, NEW c, Granted(t, c)
    PROVE  Granted(t, c)'
  <1>1. ASSUME NEW u \in Tasks, NEW pc, NEW token, Settle(u, pc, token), u # t
        PROVE  attempts'[t] = attempts[t]
    BY <1>1 DEF Settle, Inv, Core, TypeOK
  <1>2. ASSUME NEW u \in Tasks, Launch(u) \/ Exchange(u)
        PROVE  attempts'[t] = attempts[t]
    <2>1. u # t
      BY <1>2 DEF Launch, Exchange, FindExchanged, Refuse, BeginExchange,
                  ExchangeCode, FetchUser, Granted
    <2>2. QED
      BY <1>1, <1>2, <2>1
         DEF Launch, Exchange, FindExchanged, Refuse, BeginExchange,
             ExchangeCode, FetchUser, GiveUp, Inv, Core, TypeOK
  <1>3. ASSUME NEW offers, Restart(offers) PROVE attempts'[t] = attempts[t]
    BY <1>3 DEF Restart, Running, Granted
  <1>4. QED
    BY <1>2, <1>3 DEF Next, vars, Granted, CreatePendingConnection, Authorise,
                      CompleteCallback, Disconnect, UseEnvToken

\* A code that was issued stays so, or is spent.
LEMMA IssuedStays ==
    ASSUME Inv, [Next]_vars, NEW k \in Codes, codes[k].status # "unissued"
    PROVE  codes'[k].status # "unissued"
  BY ZenonT(40) DEF Inv, Core, TypeOK, Next, vars, CreatePendingConnection, Authorise,
         CompleteCallback, Disconnect, UseEnvToken, Launch, Exchange,
         FindExchanged, Refuse, BeginExchange, ExchangeCode, FetchUser, Restart

\* A good record stays good.
LEMMA GoodStays ==
    ASSUME Inv, [Next]_vars, NEW r, NEW c, GoodRecord(r, c)
    PROVE  GoodRecord(r, c)'
  <1>1. r.code # NoCode => codes'[r.code].status # "unissued"
    BY IssuedStays DEF GoodRecord, Records
  <1>2. QED
    BY <1>1, GrantedStays, ServicesStay, NamesAssumption DEF GoodRecord, Records

-----------------------------------------------------------------------------
(* The steps.                                                              *)

\* A step that writes a good record, or none, keeps the records good.
LEMMA WriteKeepsRecords ==
    ASSUME Inv, [Next]_vars, NEW g \in Generations, NEW c \in Connections, NEW r,
           GoodRecord(r, c)', records' = Updated(g, c, r)
    PROVE  RecordsAreGood' /\ records' \in [Generations -> [Connections -> Records]]
  <1>1. r \in Records
    BY DEF GoodRecord
  <1>2. ASSUME NEW h \in Generations, NEW d \in Connections
        PROVE  GoodRecord(records[h][d], d)'
    <2>1. GoodRecord(records[h][d], d)
      BY DEF Inv, Core, RecordsAreGood
    <2>2. PICK old : old = records[h][d]
      OBVIOUS
    <2>3. GoodRecord(old, d)'
      BY <2>1, <2>2, GoodStays
    <2>4. QED  BY <2>2, <2>3, UpdatedRecord
  <1>3. QED  BY <1>1, <1>2, UpdatedType DEF RecordsAreGood

\* A step that leaves the stores alone keeps the records good.
LEMMA NoWriteKeepsRecords ==
    ASSUME Inv, [Next]_vars, records' = records
    PROVE  RecordsAreGood'
  <1> SUFFICES ASSUME NEW h \in Generations, NEW d \in Connections
               PROVE  GoodRecord(records[h][d], d)'
    BY DEF RecordsAreGood
  <1>1. PICK old : old = records[h][d]
    OBVIOUS
  <1>2. GoodRecord(old, d)
    BY <1>1 DEF Inv, Core, RecordsAreGood
  <1>3. QED  BY <1>1, <1>2, GoodStays

\* What an exchange that does not move carries stays good.
LEMMA CopyStays ==
    ASSUME Inv, [Next]_vars, NEW t \in Tasks,
           attempts[t].pc \in {"exchanging", "fetching"},
           attempts'[t].copy = attempts[t].copy,
           attempts'[t].connection = attempts[t].connection
    PROVE  /\ GoodRecord(attempts[t].copy, attempts[t].connection)'
           /\ attempts'[t].copy.status = "ready"
  <1>1. PICK copy, c : copy = attempts[t].copy /\ c = attempts[t].connection
    OBVIOUS
  <1>2. GoodRecord(copy, c) /\ copy.status = "ready"
    BY <1>1 DEF Inv, Core, CopiesAreGood
  <1>3. GoodRecord(copy, c)'
    BY <1>2, GoodStays
  <1>4. QED  BY <1>1, <1>2, <1>3

\* A step that leaves the exchanges alone keeps what holds of them.
LEMMA NoMoveKeepsAttempts ==
    ASSUME Inv, [Next]_vars, attempts' = attempts
    PROVE  CopiesAreGood' /\ FetchersHaveTokens' /\ EnvTokensAreCurrent'
  <1>1. CopiesAreGood'
    BY CopyStays DEF CopiesAreGood
  <1>2. QED
    BY <1>1, EnvTokenStays DEF Inv, Core, FetchersHaveTokens, EnvTokensAreCurrent

\* An exchange that settles keeps what holds of the others, and has the token
\* of its own service if its connection is the environment's.
LEMMA SettleKeepsAttempts ==
    ASSUME Inv, [Next]_vars, NEW t \in Tasks, NEW pc \in {"granted", "refused"},
           NEW token \in Tokens \cup {NoToken}, Settle(t, pc, token),
           pc = "granted" /\ attempts[t].connection \in EnvConnections
               => EnvToken(token, attempts[t].generation)'
    PROVE  /\ attempts' \in [Tasks -> Attempts]
           /\ CopiesAreGood' /\ FetchersHaveTokens' /\ EnvTokensAreCurrent'
  <1>1. Empty("none") \in Records
    BY DEF Empty, Records
  <1>2. attempts' \in [Tasks -> Attempts]
    <2>1. PICK e \in Records : e = Empty("none")
      BY <1>1
    <2>2. attempts[t] \in Attempts /\ attempts \in [Tasks -> Attempts]
      BY DEF Inv, Core, TypeOK
    <2>3. [attempts[t] EXCEPT !.pc = pc, !.token = token, !.copy = e] \in Attempts
      BY <2>2 DEF Attempts
    <2>4. attempts' = [attempts EXCEPT ![t] = [attempts[t] EXCEPT !.pc = pc,
                                               !.token = token, !.copy = e]]
      BY <2>1, <2>2 DEF Settle, Attempts
    <2>5. QED  BY <2>2, <2>3, <2>4
  <1>3. /\ attempts'[t].pc = pc /\ attempts'[t].token = token
        /\ attempts'[t].connection = attempts[t].connection
        /\ attempts'[t].generation = attempts[t].generation
    BY DEF Inv, Core, TypeOK, Settle, Attempts
  <1>4. \A u \in Tasks : u # t => attempts'[u] = attempts[u]
    BY DEF Inv, Core, TypeOK, Settle
  <1>5. CopiesAreGood'
    BY <1>3, <1>4, CopyStays DEF CopiesAreGood
  <1>6. FetchersHaveTokens'
    BY <1>3, <1>4 DEF Inv, Core, FetchersHaveTokens
  <1>7. EnvTokensAreCurrent'
    BY <1>3, <1>4, EnvTokenStays DEF Inv, Core, EnvTokensAreCurrent
  <1>8. QED  BY <1>2, <1>5, <1>6, <1>7

-----------------------------------------------------------------------------
(* The browser's steps.                                                    *)

\* An empty record is a good one.
LEMMA EmptyIsGood ==
    ASSUME Inv, [Next]_vars, NEW c \in Connections,
           NEW status \in {"none", "pending", "deleted"}
    PROVE  GoodRecord(Empty(status), c) /\ GoodRecord(Empty(status), c)'
  BY DEF GoodRecord, Empty, Records

\* Creating, authorising, calling back, disconnecting and the environment's
\* token leave the exchanges alone.
LEMMA BrowserStep ==
    ASSUME Inv, [Next]_vars,
           \/ \E c \in OAuthConnections : CreatePendingConnection(c)
           \/ \E c \in OAuthConnections, k \in Codes : Authorise(c, k)
           \/ \E k \in Codes : CompleteCallback(k)
           \/ \E c \in Connections : Disconnect(c)
           \/ \E c \in EnvConnections, offers, accepted \in BOOLEAN :
                 UseEnvToken(c, offers, accepted)
    PROVE  Core'
  <1>1. attempts' = attempts /\ attempts' \in [Tasks -> Attempts] /\ backend' = backend
    BY ServicesStay DEF Inv, Core, TypeOK, CreatePendingConnection, Authorise,
           CompleteCallback, Disconnect, UseEnvToken
  <1>2. CopiesAreGood' /\ FetchersHaveTokens' /\ EnvTokensAreCurrent'
    BY <1>1, NoMoveKeepsAttempts
  <1>3. /\ generation \in Generations /\ generation' \in Generations
        /\ offered' \subseteq 0..generation'
    BY ServicesStay DEF Inv, Core, TypeOK
  <1>4. ASSUME NEW c \in OAuthConnections, CreatePendingConnection(c) PROVE Core'
    <2>1. PICK r : r = Empty("pending")
      OBVIOUS
    <2>2. c \in Connections
      BY DEF Connections
    <2>3. GoodRecord(r, c)' /\ r \in Records
      BY <2>1, <2>2, EmptyIsGood DEF GoodRecord
    <2>4. records' = [records EXCEPT ![StoreOf(generation)][c] = r]
      BY <1>4, <2>1 DEF CreatePendingConnection
    <2>5. records' \in [Generations -> [Connections -> Records]]
      BY <1>3, <2>2, <2>3, <2>4, StoreType DEF Inv, Core, TypeOK
    <2>6. RecordsAreGood'
      <3> SUFFICES ASSUME NEW h \in Generations, NEW d \in Connections
                   PROVE  GoodRecord(records[h][d], d)'
        BY DEF RecordsAreGood
      <3>1. PICK old : old = records[h][d]
        OBVIOUS
      <3>2. GoodRecord(old, d)'
        BY <3>1, GoodStays DEF Inv, Core, RecordsAreGood
      <3>3. records'[h][d] = IF h = StoreOf(generation) /\ d = c THEN r ELSE old
        BY <1>3, <2>2, <2>4, <3>1, StoreType DEF Inv, Core, TypeOK
      <3>4. QED  BY <2>3, <3>2, <3>3
    <2>7. QED
      BY <1>1, <1>2, <1>3, <1>4, <2>5, <2>6
         DEF Inv, Core, TypeOK, CreatePendingConnection, CodesAreOAuth
  <1>5. ASSUME NEW c \in OAuthConnections, NEW k \in Codes, Authorise(c, k) PROVE Core'
    <2>1. codes' = [codes EXCEPT ![k] = [status |-> "issued", connection |-> c]]
      BY <1>5 DEF Authorise
    <2>2. /\ CodesAreOAuth'
          /\ codes' \in [Codes -> [status : {"unissued", "issued", "spent"},
                                    connection : Connections \cup {NoTask}]]
      BY <2>1 DEF Inv, Core, TypeOK, CodesAreOAuth, Connections
    <2>3. records' = records /\ generation' = generation
      BY <1>5 DEF Authorise
    <2>4. QED
      BY <1>1, <1>2, <1>3, <2>2, <2>3, NoWriteKeepsRecords DEF Inv, Core, TypeOK
  <1>6. ASSUME NEW k \in Codes, CompleteCallback(k) PROVE Core'
    <2>1. PICK c : c = codes[k].connection
      OBVIOUS
    <2>2. c \in OAuthConnections /\ c \in Connections
      BY <1>6, <2>1 DEF CompleteCallback, Inv, Core, CodesAreOAuth, Connections
    <2>3. PICK old : old = RecordOf(generation, c)
      OBVIOUS
    <2>4. GoodRecord(old, c)'
      BY <1>3, <2>2, <2>3, ReadIsGood, GoodStays
    <2>5. PICK r : r = [old EXCEPT !.status = "ready", !.code = k]
      OBVIOUS
    <2>6. GoodRecord(r, c)'
      <3>1. codes'[k].status # "unissued"
        BY <1>6 DEF CompleteCallback
      <3>2. QED
        BY <2>2, <2>4, <2>5, <3>1, NamesAssumption DEF GoodRecord, Records
    <2>7. records' = Updated(generation, c, r)
      BY <1>6, <2>1, <2>3, <2>5 DEF CompleteCallback
    <2>8. QED
      BY <1>1, <1>2, <1>3, <1>6, <2>2, <2>6, <2>7, WriteKeepsRecords
         DEF Inv, Core, TypeOK, CompleteCallback, CodesAreOAuth
  <1>7. ASSUME NEW c \in Connections, Disconnect(c) PROVE Core'
    <2>1. PICK r : r = Empty("deleted")
      OBVIOUS
    <2>2. GoodRecord(r, c)'
      BY <2>1, EmptyIsGood
    <2>3. records' = Updated(generation, c, r)
      BY <1>7, <2>1 DEF Disconnect
    <2>4. QED
      BY <1>1, <1>2, <1>3, <1>7, <2>2, <2>3, WriteKeepsRecords
         DEF Inv, Core, TypeOK, Disconnect, CodesAreOAuth
  <1>8. ASSUME NEW c \in EnvConnections, NEW offers \in BOOLEAN, NEW accepted \in BOOLEAN,
               UseEnvToken(c, offers, accepted)
        PROVE  Core'
    <2>1. PICK g : g = generation'
      OBVIOUS
    <2>2. g \in Generations
      BY <1>3, <2>1
    <2>3. PICK r : r = [status |-> "exchanged", code |-> NoCode, token |-> g,
                        task |-> NoTask]
      OBVIOUS
    <2>4. c \in Connections
      BY DEF Connections
    <2>5. CASE offers /\ accepted
      <3>1. g \in offered'
        BY <1>8, <2>1, <2>5 DEF UseEnvToken, NewService
      <3>2. GoodRecord(r, c)' /\ r \in Records
        BY <2>2, <2>3, <2>4, <3>1, NamesAssumption DEF GoodRecord, Records, Tokens, Generations
      <3>3. records' = [records EXCEPT ![StoreOf(g)'][c] = r]
        BY <1>8, <2>1, <2>3, <2>5 DEF UseEnvToken, StoreOf
      <3>4. PICK s \in Generations : s = StoreOf(g)'
        BY <2>2, MaxGenerationAssumption DEF StoreOf, Generations
      <3>5. records' \in [Generations -> [Connections -> Records]]
        BY <2>4, <3>2, <3>3, <3>4 DEF Inv, Core, TypeOK
      <3>6. ASSUME NEW h \in Generations, NEW d \in Connections
            PROVE  GoodRecord(records[h][d], d)'
        <4>1. PICK old : old = records[h][d]
          OBVIOUS
        <4>2. GoodRecord(old, d)'
          BY <4>1, GoodStays DEF Inv, Core, RecordsAreGood
        <4>3. records'[h][d] = IF h = s /\ d = c THEN r ELSE old
          BY <2>4, <3>3, <3>4, <4>1 DEF Inv, Core, TypeOK
        <4>4. QED  BY <3>2, <4>2, <4>3
      <3>7. QED
        BY <1>1, <1>2, <1>3, <1>8, <3>5, <3>6
           DEF Inv, Core, TypeOK, UseEnvToken, CodesAreOAuth, RecordsAreGood
    <2>6. CASE ~(offers /\ accepted)
      <3>1. records' = records
        BY <1>8, <2>6 DEF UseEnvToken
      <3>2. QED
        BY <1>1, <1>2, <1>3, <1>8, <3>1, NoWriteKeepsRecords
           DEF Inv, Core, TypeOK, UseEnvToken, CodesAreOAuth
    <2>7. QED  BY <2>5, <2>6
  <1>9. QED  BY <1>4, <1>5, <1>6, <1>7, <1>8

-----------------------------------------------------------------------------
(* The exchange.                                                           *)

\* A launched exchange is in no way further than it says.
LEMMA LaunchStep ==
    ASSUME Inv, [Next]_vars, NEW t \in Tasks, Launch(t)
    PROVE  Core'
  <1>1. /\ attempts'[t] = [attempts[t] EXCEPT !.pc = "launched", !.generation = generation]
        /\ \A u \in Tasks : u # t => attempts'[u] = attempts[u]
        /\ attempts[t] \in Attempts
    BY DEF Inv, Core, TypeOK, Launch, Attempts
  <1>2. attempts' \in [Tasks -> Attempts]
    <2>1. [attempts[t] EXCEPT !.pc = "launched", !.generation = generation] \in Attempts
      BY <1>1 DEF Inv, Core, TypeOK, Attempts
    <2>2. QED  BY <1>1, <2>1 DEF Inv, Core, TypeOK, Launch
  <1>3. attempts'[t].pc = "launched"
    BY <1>1 DEF Attempts
  <1>4. CopiesAreGood'
    BY <1>1, <1>3, CopyStays DEF CopiesAreGood
  <1>5. FetchersHaveTokens' /\ EnvTokensAreCurrent'
    BY <1>1, <1>3, EnvTokenStays DEF Inv, Core, FetchersHaveTokens, EnvTokensAreCurrent
  <1>6. QED
    BY <1>2, <1>4, <1>5, NoWriteKeepsRecords, ServicesStay
       DEF Inv, Core, TypeOK, Launch, CodesAreOAuth

\* An exchange that settles and writes a good record, spending a code or not,
\* keeps the invariant.
LEMMA SettledStep ==
    ASSUME Inv, [Next]_vars, NEW t \in Tasks, NEW pc \in {"granted", "refused"},
           NEW token \in Tokens \cup {NoToken}, Settle(t, pc, token),
           pc = "granted" /\ attempts[t].connection \in EnvConnections
               => EnvToken(token, attempts[t].generation)',
           NEW r, GoodRecord(r, attempts[t].connection)',
           records' = Updated(attempts[t].generation, attempts[t].connection, r),
           backend' = backend, generation' = generation,
           \/ codes' = codes
           \/ \E k \in Codes : codes' = [codes EXCEPT ![k].status = "spent"]
                                /\ codes[k].status # "unissued"
    PROVE  Core'
  <1>1. attempts[t].generation \in Generations /\ attempts[t].connection \in Connections
    BY DEF Inv, Core, TypeOK, Attempts
  <1>2. PICK g \in Generations, c \in Connections :
            g = attempts[t].generation /\ c = attempts[t].connection
    BY <1>1
  <1>3. attempts'[t].connection = attempts[t].connection
    BY DEF Inv, Core, TypeOK, Settle, Attempts
  <1>4. GoodRecord(r, c)' /\ records' = Updated(g, c, r)
    BY <1>2, <1>3
  <1>5. RecordsAreGood' /\ records' \in [Generations -> [Connections -> Records]]
    BY <1>4, WriteKeepsRecords
  <1>6. /\ CodesAreOAuth'
        /\ codes' \in [Codes -> [status : {"unissued", "issued", "spent"},
                                  connection : Connections \cup {NoTask}]]
    BY DEF Inv, Core, TypeOK, CodesAreOAuth
  <1>7. QED
    BY <1>5, <1>6, SettleKeepsAttempts, ServicesStay DEF Inv, Core, TypeOK

\* A task that finds the connection exchanged is served from the record.
LEMMA FindExchangedStep ==
    ASSUME Inv, [Next]_vars, NEW t \in Tasks, FindExchanged(t)
    PROVE  Core'
  <1>1. PICK g \in Generations, c \in Connections :
            g = attempts[t].generation /\ c = attempts[t].connection
    BY DEF Inv, Core, TypeOK, Attempts
  <1>2. PICK old : old = RecordOf(g, c)
    OBVIOUS
  <1>3. old \in Records /\ GoodRecord(old, c) /\ GoodRecord(old, c)'
    BY <1>2, ReadIsGood, GoodStays
  <1>4. old.status = "exchanged" /\ old.token # NoToken
    BY <1>1, <1>2 DEF FindExchanged, Usable
  <1>5. PICK r : r = Linked(Refreshed(old, g), t)
    OBVIOUS
  <1>6. /\ Settle(t, "granted", r.token)
        /\ records' = Updated(g, c, r)
    <2>1. Refreshed(old, g).token = r.token
      BY <1>3, <1>5 DEF Linked, Refreshed, Records
    <2>2. QED  BY <1>1, <1>2, <1>5, <2>1 DEF FindExchanged
  <1>7. /\ r = [old EXCEPT !.token = IF g \in offered /\ old.token \in Generations
                                    THEN g ELSE old.token,
                           !.task = t]
        /\ r \in Records
    BY <1>3, <1>5 DEF Linked, Refreshed, Records, Tokens
  <1>8. r.token \in Tokens /\ r.token # NoToken
    BY <1>3, <1>4, <1>7, NamesAssumption DEF Records, Tokens, Generations
  <1>9. ASSUME c \in EnvConnections PROVE EnvToken(r.token, g) /\ r.token \in offered
    <2>1. old.token \in offered /\ offered \subseteq Generations
      BY <1>3, <1>4, <1>9, MaxGenerationAssumption
         DEF GoodRecord, Records, Inv, Core, TypeOK, Generations
    <2>2. r.token = IF g \in offered THEN g ELSE old.token
      BY <1>3, <1>7, <2>1 DEF Records
    <2>3. g \notin offered => backend = "supabase"
      BY <1>2, <1>4, <1>9 DEF Inv, EnvRecordsAreOwn, Core, TypeOK, RecordOf, StoreOf
    <2>4. QED  BY <2>1, <2>2, <2>3 DEF EnvToken
  <1>10. Granted(t, c)'
    BY <1>1, <1>6 DEF Settle, Granted, Inv, Core, TypeOK, Attempts
  <1>11. GoodRecord(r, c)'
    <2>1. offered' = offered /\ codes' = codes
      BY DEF FindExchanged
    <2>2. /\ r.status = "exchanged" /\ r.code = NoCode /\ r.task = t
          /\ c \in EnvConnections => r.token \in offered'
      BY <1>3, <1>4, <1>7, <1>9, <2>1 DEF GoodRecord, Records
    <2>3. QED  BY <1>7, <1>8, <1>10, <2>2 DEF GoodRecord
  <1>12. attempts'[t].connection = c
    BY <1>10 DEF Granted
  <1>13. PICK token : token = r.token
    OBVIOUS
  <1>14. GoodRecord(r, attempts[t].connection)'
    BY <1>11, <1>12
  <1>15. attempts[t].connection \in EnvConnections => EnvToken(token, attempts[t].generation)'
    <2>1. attempts'[t].generation = g
      BY <1>1, <1>6 DEF Settle, Inv, Core, TypeOK, Attempts
    <2>2. UNCHANGED <<backend, offered>>
      BY DEF FindExchanged
    <2>3. QED  BY <1>1, <1>9, <1>13, <2>1, <2>2 DEF EnvToken
  <1>16. QED
    BY <1>1, <1>6, <1>8, <1>13, <1>14, <1>15, SettledStep DEF FindExchanged

\* A good record that is marked failed is good.
LEMMA FailingIsGood ==
    ASSUME Inv, [Next]_vars, NEW r, NEW c, GoodRecord(r, c)
    PROVE  GoodRecord(Failing(r), c)'
  <1>1. GoodRecord(r, c)'
    BY GoodStays
  <1>2. PICK failed : failed = Failing(r)
    OBVIOUS
  <1>3. GoodRecord(failed, c)'
    BY <1>1, <1>2 DEF Failing, GoodRecord, Records
  <1>4. QED  BY <1>2, <1>3 DEF Failing

\* A task that finds nothing to exchange is refused, and the record failed.
LEMMA RefuseStep ==
    ASSUME Inv, [Next]_vars, NEW t \in Tasks, Refuse(t)
    PROVE  Core'
  <1>1. PICK g \in Generations, c \in Connections :
            g = attempts[t].generation /\ c = attempts[t].connection
    BY DEF Inv, Core, TypeOK, Attempts
  <1>2. PICK old : old = RecordOf(g, c)
    OBVIOUS
  <1>3. PICK r : r = Failing(old)
    OBVIOUS
  <1>4. GoodRecord(Failing(old), c)'
    BY <1>2, ReadIsGood, FailingIsGood
  <1>5. GoodRecord(r, c)'
    BY <1>3, <1>4 DEF Failing
  <1>6. Settle(t, "refused", NoToken) /\ records' = Updated(g, c, r)
    BY <1>1, <1>2, <1>3 DEF Refuse
  <1>7. attempts'[t].connection = c
    BY <1>1, <1>6 DEF Inv, Core, TypeOK, Settle, Attempts
  <1>8. GoodRecord(r, attempts[t].connection)'
    BY <1>5, <1>7
  <1>9. QED
    BY <1>1, <1>6, <1>8, SettledStep DEF Refuse

\* An exchange that is under way and moves on keeps what holds of the others;
\* what it carries is good.
LEMMA MoveStep ==
    ASSUME Inv, [Next]_vars, NEW t \in Tasks, NEW a \in Attempts,
           attempts' = [attempts EXCEPT ![t] = a],
           a.pc \in {"exchanging", "fetching"},
           a.connection = attempts[t].connection,
           GoodRecord(a.copy, a.connection), a.copy.status = "ready",
           a.pc = "fetching" => a.token \in Codes
    PROVE  /\ attempts' \in [Tasks -> Attempts]
           /\ CopiesAreGood' /\ FetchersHaveTokens' /\ EnvTokensAreCurrent'
  <1>1. /\ attempts' \in [Tasks -> Attempts]
        /\ attempts'[t] = a
        /\ \A u \in Tasks : u # t => attempts'[u] = attempts[u]
    BY DEF Inv, Core, TypeOK
  <1>2. CopiesAreGood'
    <2> SUFFICES ASSUME NEW u \in Tasks,
                        attempts'[u].pc \in {"exchanging", "fetching"}
                 PROVE  /\ GoodRecord(attempts[u].copy, attempts[u].connection)'
                        /\ attempts'[u].copy.status = "ready"
      BY DEF CopiesAreGood
    <2>1. CASE u = t
      <3>1. PICK copy, c : copy = a.copy /\ c = a.connection
        OBVIOUS
      <3>2. GoodRecord(copy, c)'
        BY <3>1, GoodStays
      <3>3. QED  BY <1>1, <2>1, <3>1, <3>2
    <2>2. CASE u # t
      BY <1>1, <2>2, CopyStays
    <2>3. QED  BY <2>1, <2>2
  <1>3. FetchersHaveTokens' /\ EnvTokensAreCurrent'
    BY <1>1, EnvTokenStays DEF Inv, Core, FetchersHaveTokens, EnvTokensAreCurrent
  <1>4. QED  BY <1>1, <1>2, <1>3

\* The exchange begins with the record it read.
LEMMA BeginExchangeStep ==
    ASSUME Inv, [Next]_vars, NEW t \in Tasks, BeginExchange(t)
    PROVE  Core'
  <1>1. PICK g \in Generations, c \in Connections :
            g = attempts[t].generation /\ c = attempts[t].connection
    BY DEF Inv, Core, TypeOK, Attempts
  <1>2. PICK r : r = RecordOf(g, c)
    OBVIOUS
  <1>3. r \in Records /\ GoodRecord(r, c) /\ r.status = "ready"
    BY <1>1, <1>2, ReadIsGood DEF BeginExchange
  <1>4. PICK a : a = [attempts[t] EXCEPT !.pc = "exchanging", !.copy = r]
    OBVIOUS
  <1>5. /\ a \in Attempts /\ a.pc = "exchanging" /\ a.copy = r /\ a.connection = c
    BY <1>1, <1>3, <1>4 DEF Inv, Core, TypeOK, Attempts
  <1>6. attempts' = [attempts EXCEPT ![t] = a]
    BY <1>1, <1>2, <1>4 DEF BeginExchange, Inv, Core, TypeOK, Attempts
  <1>7. /\ attempts' \in [Tasks -> Attempts]
        /\ CopiesAreGood' /\ FetchersHaveTokens' /\ EnvTokensAreCurrent'
    BY <1>1, <1>3, <1>5, <1>6, MoveStep
  <1>8. QED
    BY <1>7, NoWriteKeepsRecords, ServicesStay
       DEF BeginExchange, Inv, Core, TypeOK, CodesAreOAuth

\* An exchange that gives up fails the record it carries.
LEMMA GiveUpStep ==
    ASSUME Inv, [Next]_vars, NEW t \in Tasks, GiveUp(t),
           attempts[t].pc \in {"exchanging", "fetching"},
           backend' = backend, generation' = generation,
           \/ codes' = codes
           \/ codes' = [codes EXCEPT ![attempts[t].copy.code].status = "spent"]
    PROVE  Core'
  <1>1. PICK g \in Generations, c \in Connections :
            g = attempts[t].generation /\ c = attempts[t].connection
    BY DEF Inv, Core, TypeOK, Attempts
  <1>2. PICK copy : copy = attempts[t].copy
    OBVIOUS
  <1>3. GoodRecord(copy, c) /\ copy.status = "ready"
    BY <1>1, <1>2 DEF Inv, Core, CopiesAreGood
  <1>4. copy.code \in Codes /\ codes[copy.code].status # "unissued"
    BY <1>3 DEF GoodRecord, Records
  <1>5. PICK r : r = Failing(copy)
    OBVIOUS
  <1>6. GoodRecord(Failing(copy), c)'
    BY <1>3, FailingIsGood
  <1>7. GoodRecord(r, c)'
    BY <1>5, <1>6 DEF Failing
  <1>8. Settle(t, "refused", NoToken) /\ records' = Updated(g, c, r)
    BY <1>1, <1>2, <1>5 DEF GiveUp
  <1>9. attempts'[t].connection = c
    BY <1>1, <1>8 DEF Inv, Core, TypeOK, Settle, Attempts
  <1>10. GoodRecord(r, attempts[t].connection)'
    BY <1>7, <1>9
  <1>11. QED
    BY <1>1, <1>2, <1>4, <1>8, <1>10, SettledStep

\* GitHub answers with the token of the code, or the exchange gives up; the
\* code is spent.
LEMMA ExchangeCodeStep ==
    ASSUME Inv, [Next]_vars, NEW t \in Tasks, NEW answered \in BOOLEAN,
           ExchangeCode(t, answered)
    PROVE  Core'
  <1>1. PICK k : k = attempts[t].copy.code
    OBVIOUS
  <1>2. /\ attempts[t].pc = "exchanging"
        /\ codes' = [codes EXCEPT ![k].status = "spent"]
        /\ backend' = backend /\ generation' = generation
    BY <1>1 DEF ExchangeCode
  <1>3. GoodRecord(attempts[t].copy, attempts[t].connection) /\ attempts[t].copy.status = "ready"
    BY <1>2 DEF Inv, Core, CopiesAreGood
  <1>4. k \in Codes /\ codes[k].status # "unissued"
    BY <1>1, <1>3 DEF GoodRecord, Records
  <1>5. CASE answered /\ codes[k].status = "issued"
    <2>1. PICK a : a = [attempts[t] EXCEPT !.pc = "fetching", !.token = k]
      OBVIOUS
    <2>2. attempts[t] \in Attempts
      BY DEF Inv, Core, TypeOK
    <2>3. /\ a \in Attempts /\ a.pc = "fetching" /\ a.token = k
          /\ a.copy = attempts[t].copy /\ a.connection = attempts[t].connection
      BY <1>4, <2>1, <2>2 DEF Attempts, Tokens
    <2>4. attempts' = [attempts EXCEPT ![t] = a] /\ records' = records
      BY <1>1, <1>5, <2>1, <2>2 DEF ExchangeCode, Attempts
    <2>5. /\ attempts' \in [Tasks -> Attempts]
          /\ CopiesAreGood' /\ FetchersHaveTokens' /\ EnvTokensAreCurrent'
      BY <1>3, <1>4, <2>3, <2>4, MoveStep
    <2>6. /\ CodesAreOAuth'
          /\ codes' \in [Codes -> [status : {"unissued", "issued", "spent"},
                                    connection : Connections \cup {NoTask}]]
      BY <1>2, <1>4 DEF Inv, Core, TypeOK, CodesAreOAuth
    <2>7. QED
      BY <1>2, <2>4, <2>5, <2>6, NoWriteKeepsRecords, ServicesStay DEF Inv, Core, TypeOK
  <1>6. CASE ~(answered /\ codes[k].status = "issued")
    BY <1>1, <1>2, <1>6, GiveUpStep DEF ExchangeCode
  <1>7. QED  BY <1>5, <1>6

\* With the user known, the record is written with the new token and the task
\* served; otherwise the exchange gives up.
LEMMA FetchUserStep ==
    ASSUME Inv, [Next]_vars, NEW t \in Tasks, NEW known \in BOOLEAN,
           FetchUser(t, known)
    PROVE  Core'
  <1>1. PICK g \in Generations, c \in Connections :
            g = attempts[t].generation /\ c = attempts[t].connection
    BY DEF Inv, Core, TypeOK, Attempts
  <1>2. attempts[t].pc = "fetching" /\ UNCHANGED <<backend, generation, codes>>
    BY DEF FetchUser
  <1>3. CASE known /\ UpdateAccepted(g, c)
    <2>1. PICK copy, token : copy = attempts[t].copy /\ token = attempts[t].token
      OBVIOUS
    <2>2. GoodRecord(copy, c) /\ copy.status = "ready" /\ token \in Codes
      BY <1>1, <1>2, <2>1 DEF Inv, Core, CopiesAreGood, FetchersHaveTokens
    <2>3. c \notin EnvConnections
      BY <2>2, NamesAssumption DEF GoodRecord
    <2>4. PICK r : r = Linked([copy EXCEPT !.status = "exchanged", !.code = NoCode,
                                           !.token = token], t)
      OBVIOUS
    <2>5. Settle(t, "granted", token) /\ records' = Updated(g, c, r)
      BY <1>1, <1>3, <2>1, <2>4 DEF FetchUser
    <2>6. Granted(t, c)'
      BY <1>1, <2>5 DEF Settle, Granted, Inv, Core, TypeOK, Attempts
    <2>7. r = [copy EXCEPT !.status = "exchanged", !.code = NoCode,
                           !.token = token, !.task = t]
      BY <2>2, <2>4 DEF Linked, GoodRecord, Records
    <2>8. GoodRecord(r, c)'
      BY <2>2, <2>3, <2>6, <2>7, NamesAssumption DEF GoodRecord, Records, Tokens
    <2>9. attempts'[t].connection = c
      BY <2>6 DEF Granted
    <2>10. GoodRecord(r, attempts[t].connection)'
      BY <2>8, <2>9
    <2>11. QED
      BY <1>1, <1>2, <2>2, <2>3, <2>5, <2>10, SettledStep DEF Tokens
  <1>4. CASE ~(known /\ UpdateAccepted(g, c))
    BY <1>1, <1>2, <1>4, GiveUpStep DEF FetchUser
  <1>5. QED  BY <1>3, <1>4

\* What was running when the process stops carries nothing on.
LEMMA RestartStep ==
    ASSUME Inv, [Next]_vars, NEW offers, Restart(offers)
    PROVE  Core'
  <1>1. ASSUME NEW t \in Tasks
        PROVE  /\ attempts'[t] \in Attempts
               /\ attempts'[t].pc \notin {"exchanging", "fetching"}
               /\ attempts'[t].pc = "granted" => attempts'[t] = attempts[t]
    BY DEF Restart, Running, Inv, Core, TypeOK, Attempts
  <1>2. attempts' \in [Tasks -> Attempts]
    BY <1>1 DEF Restart
  <1>3. CopiesAreGood' /\ FetchersHaveTokens' /\ EnvTokensAreCurrent'
    BY <1>1, EnvTokenStays
       DEF CopiesAreGood, FetchersHaveTokens, EnvTokensAreCurrent, Inv, Core
  <1>4. QED
    BY <1>2, <1>3, NoWriteKeepsRecords, ServicesStay
       DEF Restart, Inv, Core, TypeOK, CodesAreOAuth

-----------------------------------------------------------------------------
(* The theorems.                                                           *)

\* The service starts with nothing stored and nothing under way.
LEMMA InitInv ==
    ASSUME Init
    PROVE  Inv
  <1>1. Empty("none") \in Records
    BY DEF Empty, Records
  <1>2. 0 \in Generations
    BY MaxGenerationAssumption DEF Generations
  <1>3. TypeOK
    <2>1. records \in [Generations -> [Connections -> Records]]
      BY <1>1 DEF Init
    <2>2. attempts \in [Tasks -> Attempts]
      BY <1>1, <1>2 DEF Init, Attempts
    <2>3. QED
      BY <1>2, <2>1, <2>2 DEF Init, TypeOK
  <1>4. \A g \in Generations, c \in Connections : records[g][c] = Empty("none")
    BY DEF Init
  <1>5. \A t \in Tasks : attempts[t].pc = "idle"
    BY DEF Init
  <1>6. RecordsAreGood
    BY <1>1, <1>4 DEF RecordsAreGood, GoodRecord, Empty
  <1>7. EnvRecordsAreOwn
    BY <1>4 DEF EnvRecordsAreOwn, Empty, Connections
  <1>8. NothingIsAhead
    BY DEF NothingIsAhead, Init
  <1>9. QED
    BY <1>3, <1>5, <1>6, <1>7, <1>8
       DEF Init, Inv, Core, CopiesAreGood, FetchersHaveTokens, EnvTokensAreCurrent,
           CodesAreOAuth

\* Every step keeps what holds of the records and of the exchanges.
LEMMA CoreStep ==
    ASSUME Inv, [Next]_vars
    PROVE  Core'
  <1>1. CASE UNCHANGED vars
    <2>1. CopiesAreGood' /\ FetchersHaveTokens' /\ EnvTokensAreCurrent'
      BY <1>1, NoMoveKeepsAttempts DEF vars
    <2>2. QED
      BY <1>1, <2>1, NoWriteKeepsRecords, ServicesStay
         DEF vars, Inv, Core, TypeOK, CodesAreOAuth
  <1>2. ASSUME NEW t \in Tasks, Exchange(t) PROVE Core'
    BY <1>2, FindExchangedStep, RefuseStep, BeginExchangeStep, ExchangeCodeStep,
       FetchUserStep DEF Exchange
  <1>3. QED
    BY <1>1, <1>2, BrowserStep, LaunchStep, RestartStep DEF Next

\* An update of a record of the environment that is there, or none, adds no
\* token.
LEMMA UpdateAddsNoToken ==
    ASSUME Inv, [Next]_vars, NEW g \in Generations, NEW c \in Connections, NEW r,
           records' = Updated(g, c, r),
           c \in EnvConnections /\ r.token # NoToken => RecordOf(g, c).token # NoToken
    PROVE  EnvRecordsAreOwn'
  <1> SUFFICES ASSUME backend' = "memory", NEW h \in Generations, NEW d \in EnvConnections,
                      records'[h][d].token # NoToken
               PROVE  h \in offered'
    BY DEF EnvRecordsAreOwn
  <1>1. records[h][d].token # NoToken
    BY UpdatedRecord DEF RecordOf, Connections
  <1>2. QED  BY <1>1, ServicesStay DEF Inv, EnvRecordsAreOwn

\* A step that leaves the stores alone adds no token.
LEMMA NoWriteAddsNoToken ==
    ASSUME Inv, [Next]_vars, records' = records
    PROVE  EnvRecordsAreOwn'
  BY ServicesStay DEF Inv, EnvRecordsAreOwn

\* What an exchange writes of a connection of the environment has a token only
\* if it was found exchanged.
LEMMA ExchangeAddsNoToken ==
    ASSUME Inv, [Next]_vars, NEW t \in Tasks, Exchange(t)
    PROVE  EnvRecordsAreOwn'
  <1>1. PICK g \in Generations, c \in Connections :
            g = attempts[t].generation /\ c = attempts[t].connection
    BY DEF Inv, Core, TypeOK, Attempts
  <1>2. PICK old : old = RecordOf(g, c)
    OBVIOUS
  <1>3. CASE FindExchanged(t)
    <2>1. old.token # NoToken
      BY <1>1, <1>2, <1>3 DEF FindExchanged, Usable
    <2>2. PICK r : r = Linked(Refreshed(old, g), t)
      OBVIOUS
    <2>3. records' = Updated(g, c, r)
      BY <1>1, <1>2, <1>3, <2>2 DEF FindExchanged
    <2>4. QED  BY <1>2, <2>1, <2>3, UpdateAddsNoToken
  <1>4. CASE Refuse(t)
    <2>1. PICK r : r = Failing(old)
      OBVIOUS
    <2>2. r.token = old.token
      BY <1>2, <2>1, ReadIsGood DEF Failing, Records
    <2>3. records' = Updated(g, c, r)
      BY <1>1, <1>2, <1>4, <2>1 DEF Refuse
    <2>4. QED  BY <1>2, <2>2, <2>3, UpdateAddsNoToken
  <1>5. ASSUME attempts[t].pc \in {"exchanging", "fetching"}
        PROVE  c \notin EnvConnections
    BY <1>1, <1>5, NamesAssumption DEF Inv, Core, CopiesAreGood, GoodRecord
  <1>6. ASSUME \/ \E answered \in BOOLEAN : ExchangeCode(t, answered)
               \/ \E known \in BOOLEAN : FetchUser(t, known)
        PROVE  EnvRecordsAreOwn'
    <2>1. c \notin EnvConnections
      BY <1>5, <1>6 DEF ExchangeCode, FetchUser
    <2>2. records' = records \/ \E r : records' = Updated(g, c, r)
      BY <1>1, <1>6 DEF ExchangeCode, FetchUser, GiveUp
    <2>3. QED  BY <2>1, <2>2, UpdateAddsNoToken, NoWriteAddsNoToken
  <1>7. CASE BeginExchange(t)
    BY <1>7, NoWriteAddsNoToken DEF BeginExchange
  <1>8. QED  BY <1>3, <1>4, <1>6, <1>7 DEF Exchange

\* In memory only the service that offers its token makes a record with it.
LEMMA EnvRecordsStay ==
    ASSUME Inv, [Next]_vars
    PROVE  EnvRecordsAreOwn'
  <1>1. generation \in Generations
    BY DEF Inv, Core, TypeOK
  <1>2. ASSUME NEW c \in OAuthConnections, CreatePendingConnection(c)
        PROVE  EnvRecordsAreOwn'
    <2>1. \A h \in Generations, d \in EnvConnections : records'[h][d] = records[h][d]
      BY <1>1, <1>2, StoreType, NamesAssumption
         DEF CreatePendingConnection, Inv, Core, TypeOK, Connections
    <2>2. QED  BY <2>1, ServicesStay DEF Inv, EnvRecordsAreOwn
  <1>3. ASSUME NEW k \in Codes, CompleteCallback(k)
        PROVE  EnvRecordsAreOwn'
    <2>1. PICK c \in OAuthConnections : c = codes[k].connection
      BY <1>3 DEF CompleteCallback, Inv, Core, CodesAreOAuth
    <2>2. c \in Connections /\ c \notin EnvConnections
      BY NamesAssumption DEF Connections
    <2>3. QED  BY <1>1, <1>3, <2>1, <2>2, UpdateAddsNoToken DEF CompleteCallback
  <1>4. ASSUME NEW c \in Connections, Disconnect(c)
        PROVE  EnvRecordsAreOwn'
    BY <1>1, <1>4, UpdateAddsNoToken DEF Disconnect, Empty
  <1>5. ASSUME NEW c \in EnvConnections, NEW offers \in BOOLEAN, NEW accepted \in BOOLEAN,
               UseEnvToken(c, offers, accepted)
        PROVE  EnvRecordsAreOwn'
    <2>1. CASE offers /\ accepted
      <3> SUFFICES ASSUME backend = "memory", NEW h \in Generations,
                          NEW d \in EnvConnections, records'[h][d].token # NoToken
                   PROVE  h \in offered'
        BY ServicesStay DEF EnvRecordsAreOwn
      <3>1. PICK g \in Generations : g = generation' /\ g \in offered'
        BY <1>5, <2>1, ServicesStay DEF UseEnvToken, NewService
      <3>2. PICK r : records' = [records EXCEPT ![g][c] = r]
        BY <1>5, <2>1, <3>1, ServicesStay DEF UseEnvToken, StoreOf
      <3>3. h = g \/ records'[h][d] = records[h][d]
        BY <3>2 DEF Inv, Core, TypeOK
      <3>4. QED  BY <3>1, <3>3, ServicesStay DEF Inv, EnvRecordsAreOwn
    <2>2. CASE ~(offers /\ accepted)
      BY <1>5, <2>2, NoWriteAddsNoToken DEF UseEnvToken
    <2>3. QED  BY <2>1, <2>2
  <1>6. QED
    BY <1>2, <1>3, <1>4, <1>5, ExchangeAddsNoToken, NoWriteAddsNoToken
       DEF Next, vars, Authorise, Launch, Restart

\* A task is launched with the service of the moment.
LEMMA AheadStays ==
    ASSUME Inv, [Next]_vars
    PROVE  NothingIsAhead'
  <1> SUFFICES ASSUME NEW t \in Tasks
               PROVE  attempts'[t].generation <= generation'
    BY DEF NothingIsAhead
  <1>1. /\ attempts[t].generation \in Nat /\ generation \in Nat /\ generation' \in Nat
        /\ attempts[t].generation <= generation /\ generation <= generation'
    BY ServicesStay, MaxGenerationAssumption
       DEF Inv, NothingIsAhead, Core, TypeOK, Attempts, Generations
  <1>2. attempts'[t].generation \in {attempts[t].generation, generation}
    <2>1. ASSUME NEW u \in Tasks, Launch(u)
          PROVE  attempts'[t].generation \in {attempts[t].generation, generation}
      BY <2>1 DEF Launch, Inv, Core, TypeOK, Attempts
    <2>2. ASSUME NEW u \in Tasks, NEW pc, NEW token, Settle(u, pc, token)
          PROVE  attempts'[t].generation = attempts[t].generation
      BY <2>2 DEF Settle, Inv, Core, TypeOK, Attempts
    <2>3. ASSUME NEW u \in Tasks, BeginExchange(u)
          PROVE  attempts'[t].generation = attempts[t].generation
      BY <2>3 DEF BeginExchange, Inv, Core, TypeOK, Attempts
    <2>4. ASSUME NEW u \in Tasks, NEW answered \in BOOLEAN, ExchangeCode(u, answered)
          PROVE  attempts'[t].generation = attempts[t].generation
      <3>1. CASE GiveUp(u)
        BY <2>2, <3>1 DEF GiveUp
      <3>2. CASE \E k : attempts' = [attempts EXCEPT ![u].pc = "fetching", ![u].token = k]
        <4>1. attempts \in [Tasks -> Attempts]
          BY DEF Inv, Core, TypeOK
        <4>2. PICK k : attempts' = [attempts EXCEPT ![u].pc = "fetching", ![u].token = k]
          BY <3>2
        <4>3. QED  BY ONLY <4>1, <4>2, t \in Tasks, u \in Tasks DEF Attempts
      <3>3. QED  BY <2>4, <3>1, <3>2 DEF ExchangeCode
    <2>5. ASSUME NEW u \in Tasks, Exchange(u)
          PROVE  attempts'[t].generation = attempts[t].generation
      BY <2>2, <2>3, <2>4, <2>5 DEF Exchange, FindExchanged, Refuse, FetchUser, GiveUp
    <2>6. ASSUME NEW offers, Restart(offers)
          PROVE  attempts'[t].generation = attempts[t].generation
      BY <2>6 DEF Restart, Inv, Core, TypeOK, Attempts
    <2>7. QED
      BY <2>1, <2>5, <2>6 DEF Next, vars, CreatePendingConnection, Authorise,
                              CompleteCallback, Disconnect, UseEnvToken
  <1>3. QED  BY <1>1, <1>2

\* Every step keeps the invariant.
LEMMA StepInv ==
    ASSUME Inv, [Next]_vars
    PROVE  Inv'
  BY CoreStep, EnvRecordsStay, AheadStays DEF Inv

\* In every reachable state of the connection service, with any number of
\* reloads, the records and what the exchanges carry satisfy the invariant.
THEOREM ConnectionInvariant == Spec => []Inv
  <1>1. Init => Inv
    BY InitInv
  <1>2. Inv /\ [Next]_vars => Inv'
    BY StepInv
  <1>3. QED  BY <1>1, <1>2, PTL DEF Spec

\* The records, the exchanges and the codes have the values the service gives
\* them.
THEOREM ConnectionTypeCorrect == Spec => []TypeOK
  <1>1. Inv => TypeOK
    BY DEF Inv, Core
  <1>2. QED  BY <1>1, ConnectionInvariant, PTL

\* A record shown as connected holds what the next exchange needs, in every
\* store and whichever exchange or callback wrote it last.
THEOREM ConnectedHasCredentialAlways == Spec => []ConnectedHasCredential
  <1>1. Inv => ConnectedHasCredential
    BY DEF Inv, Core, RecordsAreGood, GoodRecord, ConnectedHasCredential
  <1>2. QED  BY <1>1, ConnectionInvariant, PTL

\* A record is linked only to a task served with that connection, and a task
\* that uses the backend's own token has the one of its own service, unless that
\* offers none and the record was left by an earlier one.
THEOREM CredentialsAreTheirsAlways == Spec => []CredentialsAreTheirs
  <1>1. Inv => CredentialsAreTheirs
    BY DEF Inv, Core, RecordsAreGood, GoodRecord, Granted, EnvTokensAreCurrent,
           EnvToken, CredentialsAreTheirs
  <1>2. QED  BY <1>1, ConnectionInvariant, PTL

\* An update does not touch a record that was disconnected.
LEMMA UpdateSparesDeleted ==
    ASSUME Inv, NEW g \in Generations, NEW c \in Connections, NEW r,
           records' = Updated(g, c, r),
           NEW h \in Generations, NEW d \in Connections,
           records[h][d].status = "deleted"
    PROVE  records'[h][d] = records[h][d]
  BY UpdatedRecord DEF Present, RecordOf

\* No step touches a record that was disconnected.
LEMMA DeletedStays ==
    ASSUME Inv, [Next]_vars, NEW h \in Generations, NEW d \in Connections,
           records[h][d].status = "deleted"
    PROVE  records'[h][d] = records[h][d]
  <1>1. generation \in Generations
    BY DEF Inv, Core, TypeOK
  <1>2. ASSUME NEW c \in OAuthConnections, CreatePendingConnection(c)
        PROVE  records'[h][d] = records[h][d]
    <2>1. records[StoreOf(generation)][c].status = "none"
      BY <1>1, <1>2 DEF CreatePendingConnection, RecordOf
    <2>2. QED
      BY <1>1, <1>2, <2>1, StoreType DEF CreatePendingConnection, Inv, Core, TypeOK
  <1>3. ASSUME NEW k \in Codes, CompleteCallback(k)
        PROVE  records'[h][d] = records[h][d]
    <2>1. codes[k].connection \in Connections
      BY <1>3 DEF CompleteCallback, Inv, Core, CodesAreOAuth, Connections
    <2>2. QED  BY <1>1, <1>3, <2>1, UpdateSparesDeleted DEF CompleteCallback
  <1>4. ASSUME NEW c \in Connections, Disconnect(c)
        PROVE  records'[h][d] = records[h][d]
    BY <1>1, <1>4, UpdateSparesDeleted DEF Disconnect
  <1>5. ASSUME NEW c \in EnvConnections, NEW offers \in BOOLEAN, NEW accepted \in BOOLEAN,
               UseEnvToken(c, offers, accepted)
        PROVE  records'[h][d] = records[h][d]
    <2>1. PICK g \in Generations : g = generation'
      BY ServicesStay
    <2>2. PICK s \in Generations : s = StoreOf(g)
      BY StoreType
    <2>3. records[s][c].status = "none"
      BY <1>5, <2>2 DEF UseEnvToken, RecordOf
    <2>4. \/ records' = records
          \/ \E r : records' = [records EXCEPT ![s][c] = r]
      BY <1>5, <2>1, <2>2 DEF UseEnvToken, StoreOf
    <2>5. QED  BY <2>3, <2>4 DEF Inv, Core, TypeOK
  <1>6. ASSUME NEW t \in Tasks, Exchange(t)
        PROVE  records'[h][d] = records[h][d]
    <2>1. attempts[t].generation \in Generations /\ attempts[t].connection \in Connections
      BY DEF Inv, Core, TypeOK, Attempts
    <2>2. \/ records' = records
          \/ \E r : records' = Updated(attempts[t].generation, attempts[t].connection, r)
      BY <1>6 DEF Exchange, FindExchanged, Refuse, BeginExchange, ExchangeCode,
                  FetchUser, GiveUp
    <2>3. QED  BY <2>1, <2>2, UpdateSparesDeleted
  <1>7. QED
    BY <1>2, <1>3, <1>4, <1>5, <1>6 DEF Next, vars, Authorise, Launch, Restart

\* With the records in memory, a task is served only while its connection is
\* there.
LEMMA ServedWhilePresent ==
    ASSUME Inv, [Next]_vars, backend = "memory", NEW t \in Tasks,
           attempts[t].pc # "granted", attempts'[t].pc = "granted"
    PROVE  Present(attempts[t].generation, attempts[t].connection)
  <1>1. ASSUME NEW u \in Tasks, Launch(u) \/ Exchange(u)
        PROVE  FindExchanged(t) \/ \E known \in BOOLEAN :
                   /\ FetchUser(t, known)
                   /\ UpdateAccepted(attempts[t].generation, attempts[t].connection)
    <2>1. ASSUME NEW pc, NEW token, Settle(u, pc, token)
          PROVE  u = t /\ pc = "granted"
      <3>1. u = t
        BY <2>1 DEF Settle, Inv, Core, TypeOK
      <3>2. attempts'[t].pc = pc
        BY <2>1, <3>1 DEF Settle, Inv, Core, TypeOK, Attempts
      <3>3. QED  BY <3>1, <3>2
    <2>2. ~GiveUp(u)
      BY <2>1 DEF GiveUp
    <2>3. ~Launch(u) /\ ~BeginExchange(u)
      BY ZenonT(40) DEF Launch, BeginExchange, Inv, Core, TypeOK, Attempts
    <2>4. ~Refuse(u)
      BY <2>1 DEF Refuse
    <2>5. ASSUME NEW answered \in BOOLEAN, ExchangeCode(u, answered)
          PROVE  FALSE
      <3>1. PICK k : attempts' = [attempts EXCEPT ![u].pc = "fetching", ![u].token = k]
        BY <2>2, <2>5 DEF ExchangeCode
      <3>2. attempts \in [Tasks -> Attempts]
        BY DEF Inv, Core, TypeOK
      <3>3. attempts'[t] = attempts[t] \/ attempts'[t].pc = "fetching"
        BY ONLY <3>1, <3>2, t \in Tasks, u \in Tasks DEF Attempts
      <3>4. QED  BY <3>3
    <2>6. CASE FindExchanged(u)
      BY <2>1, <2>6 DEF FindExchanged
    <2>7. ASSUME NEW known \in BOOLEAN, FetchUser(u, known)
          PROVE  /\ u = t
                 /\ UpdateAccepted(attempts[t].generation, attempts[t].connection)
      <3>1. Settle(u, "granted", attempts[u].token)
            /\ UpdateAccepted(attempts[u].generation, attempts[u].connection)
        BY <2>2, <2>7 DEF FetchUser
      <3>2. QED  BY <2>1, <3>1
    <2>8. QED  BY <1>1, <2>3, <2>4, <2>5, <2>6, <2>7 DEF Exchange
  <1>2. FindExchanged(t) \/ UpdateAccepted(attempts[t].generation, attempts[t].connection)
    <2>1. \A offers : ~Restart(offers)
      BY DEF Restart, Running, Inv, Core, TypeOK, Attempts
    <2>2. QED
      BY <1>1, <2>1 DEF Next, vars, CreatePendingConnection, Authorise,
                        CompleteCallback, Disconnect, UseEnvToken
  <1>3. QED
    BY <1>2 DEF FindExchanged, Usable, UpdateAccepted, Present

\* No exchange and no callback brings back a connection that was disconnected,
\* and in memory none is served after it.
THEOREM DisconnectIsFinalAlways == Spec => DisconnectIsFinal
  <1>1. Inv /\ [Next]_vars =>
          [/\ \A g \in Generations, c \in Connections :
                 records[g][c].status = "deleted" => records'[g][c] = records[g][c]
           /\ \A t \in Tasks :
                 backend = "memory" /\ attempts[t].pc # "granted" /\ attempts'[t].pc = "granted"
                     => Present(attempts[t].generation, attempts[t].connection)]_vars
    BY DeletedStays, ServedWhilePresent
  <1>2. QED  BY <1>1, ConnectionInvariant, PTL DEF Spec, DisconnectIsFinal
=============================================================================
