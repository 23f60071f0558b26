-------------------------- MODULE GitHubConnection --------------------------
(***************************************************************************)
(* The GitHub connections of the backend (agent/github_oauth.py) and the    *)
(* routes that use them (agent/routers/github.py).  A browser connects, and  *)
(* later each build task, or upload, exchanges the code GitHub sent back for *)
(* a token: one HTTP call for the token and one for the user, with the other *)
(* coroutines of the process running during each.  The exchange keeps the    *)
(* record it read first, and every write replaces the whole record.         *)
(*                                                                         *)
(* Records live in memory or in Supabase.  A reload of the settings puts a   *)
(* new service, and in memory a new empty store, in front of the API; what   *)
(* was launched before it goes on with the old service.  The store of a      *)
(* service is found by the service's generation.                            *)
(*                                                                         *)
(* The settings of a service say whether it offers the backend's own token:  *)
(* the fallback is enabled and a token with an owner is configured.  That    *)
(* may change with every reload.  Where the records live, the OAuth          *)
(* application and the key that encrypts are taken to be configured, and the *)
(* same, in all of them.                                                    *)
(*                                                                         *)
(* GitHub is external: it exchanges a code once.  Encryption, scopes and     *)
(* the texts of errors are left out; a token is named by the code it was     *)
(* issued for, or by the generation whose environment configures it.        *)
(***************************************************************************)
EXTENDS Naturals

CONSTANTS
    OAuthConnections,   \* connections made through the OAuth application
    EnvConnections,     \* connections that use the backend's own token
    Tasks,              \* what exchanges a connection: build tasks, uploads
    Codes,              \* the codes GitHub issues
    NoCode, NoToken, NoTask,
    MaxGeneration       \* bound on reloads and restarts

ASSUME MaxGenerationAssumption == MaxGeneration \in Nat
ASSUME NamesAssumption ==
    /\ NoCode \notin Codes /\ NoToken \notin Codes /\ NoTask \notin Tasks
    /\ NoToken \notin 0..MaxGeneration
    /\ OAuthConnections \cap EnvConnections = {}

VARIABLES
    backend,      \* "memory" or "supabase"
    generation,   \* of the service the API answers with
    offered,      \* the generations that offer the backend's own token
    records,      \* the stores: by generation, then by connection
    attempts,     \* the exchanges: by task
    codes         \* GitHub's side: by code

vars == <<backend, generation, offered, records, attempts, codes>>

Connections == OAuthConnections \cup EnvConnections
Generations == 0..MaxGeneration
Tokens      == Codes \cup Generations

\* "none": never created; "deleted": disconnected.
Records == [status : {"none", "pending", "ready", "exchanged", "failed", "deleted"},
            code : Codes \cup {NoCode},
            token : Tokens \cup {NoToken},
            task : Tasks \cup {NoTask}]

Empty(status) == [status |-> status, code |-> NoCode, token |-> NoToken, task |-> NoTask]

\* copy is the record read when the exchange began.
Attempts == [pc : {"idle", "launched", "exchanging", "fetching",
                   "granted", "refused", "lost"},
             generation : Generations,
             connection : Connections,
             copy : Records,
             token : Tokens \cup {NoToken}]

Running(t) == attempts[t].pc \in {"launched", "exchanging", "fetching"}

-----------------------------------------------------------------------------
(* The stores.                                                             *)

\* All the services share the table in Supabase.
StoreOf(g) == IF backend = "memory" THEN g ELSE 0

RecordOf(g, c) == records[StoreOf(g)][c]
Present(g, c)  == RecordOf(g, c).status \notin {"none", "deleted"}

\* update: in memory a missing record is an error, in Supabase the update of a
\* missing row does nothing.
UpdateAccepted(g, c) == Present(g, c) \/ backend = "supabase"

MutantUpdated(g, c, r) == [records EXCEPT ![StoreOf(g)][c] = r]

Updated(g, c, r) ==
    IF Present(g, c) THEN [records EXCEPT ![StoreOf(g)][c] = r] ELSE records

Failing(r) == [r EXCEPT !.status = "failed"]

\* The connection is linked to the last task it served.
Linked(r, t) == [r EXCEPT !.task = t]

Init ==
    /\ backend \in {"memory", "supabase"}
    /\ generation = 0
    /\ offered \in SUBSET {0}
    /\ records = [g \in Generations |-> [c \in Connections |-> Empty("none")]]
    /\ attempts \in [Tasks -> {[pc |-> "idle", generation |-> 0, connection |-> c,
                                copy |-> Empty("none"), token |-> NoToken] :
                               c \in Connections}]
    /\ codes = [k \in Codes |-> [status |-> "unissued", connection |-> NoTask]]

-----------------------------------------------------------------------------
(* The browser.                                                            *)

CreatePendingConnection(c) ==
    /\ \A g \in Generations : RecordOf(g, c).status = "none"
    /\ records' = [records EXCEPT ![StoreOf(generation)][c] = Empty("pending")]
    /\ UNCHANGED <<backend, generation, offered, attempts, codes>>

\* GitHub issues a code to a browser that carries the state of the connection:
\* again, if the user authorises again from the same page.
Authorise(c, k) ==
    /\ codes[k].status = "unissued"
    /\ \E g \in Generations : RecordOf(g, c).status # "none"
    /\ codes' = [codes EXCEPT ![k] = [status |-> "issued", connection |-> c]]
    /\ UNCHANGED <<backend, generation, offered, records, attempts>>

MutantCompleteCallback(k) ==
    LET c == codes[k].connection
    IN  /\ codes[k].status # "unissued"
        /\ Present(generation, c)
        /\ records' = Updated(generation, c,
                              [RecordOf(generation, c) EXCEPT !.status = "ready"])
        /\ UNCHANGED <<backend, generation, offered, attempts, codes>>

\* The state is not consumed: a second callback, or the first one reloaded,
\* makes the record ready again, whatever it was.
CompleteCallback(k) ==
    LET c == codes[k].connection
    IN  /\ codes[k].status # "unissued"
        /\ Present(generation, c)
        /\ records' = Updated(generation, c,
                              [RecordOf(generation, c) EXCEPT !.status = "ready",
                                                              !.code   = k])
        /\ UNCHANGED <<backend, generation, offered, attempts, codes>>

Disconnect(c) ==
    /\ Present(generation, c)
    /\ records' = Updated(generation, c, Empty("deleted"))
    /\ UNCHANGED <<backend, generation, offered, attempts, codes>>

\* A new service, with the settings it finds.
NewService(offers) ==
    /\ generation < MaxGeneration
    /\ generation' = generation + 1
    /\ offered' = IF offers THEN offered \cup {generation + 1} ELSE offered

\* POST /api/auth/github/use-env-token: the settings are read again, then the
\* token in them, if they offer one, is tried and, if GitHub accepts it, stored
\* as exchanged.
UseEnvToken(c, offers, accepted) ==
    /\ NewService(offers)
    /\ \A g \in Generations : RecordOf(g, c).status = "none"
    /\ records' = IF offers /\ accepted
                  THEN [records EXCEPT ![StoreOf(generation')][c] =
                          [status |-> "exchanged", code |-> NoCode,
                           token |-> generation', task |-> NoTask]]
                  ELSE records
    /\ UNCHANGED <<backend, attempts, codes>>

-----------------------------------------------------------------------------
(* exchange_for_workflow.                                                  *)

\* A task keeps the service it was launched with.
Launch(t) ==
    /\ attempts[t].pc = "idle"
    /\ attempts' = [attempts EXCEPT ![t].pc = "launched", ![t].generation = generation]
    /\ UNCHANGED <<backend, generation, offered, records, codes>>

Usable(r) == r.status = "exchanged" /\ r.token # NoToken

\* _refresh_env_token_from_settings: a connection of the backend's own token
\* takes the one this service offers, and keeps the one it has if it offers none.
Refreshed(r, g) ==
    IF g \in offered /\ r.token \in Generations THEN [r EXCEPT !.token = g] ELSE r

Settle(t, pc, token) ==
    attempts' = [attempts EXCEPT ![t].pc = pc, ![t].token = token,
                                 ![t].copy = Empty("none")]

\* Up to its first await the exchange runs alone.
FindExchanged(t) ==
    LET g == attempts[t].generation
        c == attempts[t].connection
        r == Refreshed(RecordOf(g, c), g)
    IN  /\ attempts[t].pc = "launched"
        /\ Usable(RecordOf(g, c))
        /\ records' = Updated(g, c, Linked(r, t))
        /\ Settle(t, "granted", r.token)
        /\ UNCHANGED <<backend, generation, offered, codes>>

Refuse(t) ==
    LET g == attempts[t].generation
        c == attempts[t].connection
        r == RecordOf(g, c)
    IN  /\ attempts[t].pc = "launched"
        /\ ~Usable(r)
        /\ ~Present(g, c) \/ r.status # "ready" \/ r.code = NoCode
        /\ records' = Updated(g, c, Failing(r))
        /\ Settle(t, "refused", NoToken)
        /\ UNCHANGED <<backend, generation, offered, codes>>

MutantBeginExchange(t) ==
    LET g == attempts[t].generation
        c == attempts[t].connection
        r == Linked(RecordOf(g, c), t)
    IN  /\ attempts[t].pc = "launched"
        /\ r.status = "ready" /\ r.code # NoCode
        /\ records' = Updated(g, c, r)
        /\ attempts' = [attempts EXCEPT ![t].pc = "exchanging", ![t].copy = r]
        /\ UNCHANGED <<backend, generation, offered, codes>>

BeginExchange(t) ==
    LET r == RecordOf(attempts[t].generation, attempts[t].connection)
    IN  /\ attempts[t].pc = "launched"
        /\ r.status = "ready" /\ r.code # NoCode
        /\ attempts' = [attempts EXCEPT ![t].pc = "exchanging", ![t].copy = r]
        /\ UNCHANGED <<backend, generation, offered, records, codes>>

\* _mark_failed writes the copy the exchange began with.
GiveUp(t) ==
    /\ records' = Updated(attempts[t].generation, attempts[t].connection,
                          Failing(attempts[t].copy))
    /\ Settle(t, "refused", NoToken)

\* GitHub exchanges a code once; it may have done so although the answer does
\* not arrive.
ExchangeCode(t, answered) ==
    LET k == attempts[t].copy.code
    IN  /\ attempts[t].pc = "exchanging"
        /\ codes' = [codes EXCEPT ![k].status = "spent"]
        /\ IF answered /\ codes[k].status = "issued"
           THEN /\ attempts' = [attempts EXCEPT ![t].pc = "fetching", ![t].token = k]
                /\ UNCHANGED records
           ELSE GiveUp(t)
        /\ UNCHANGED <<backend, generation, offered>>

MutantFetchUser(t, known) ==
    LET g == attempts[t].generation
        c == attempts[t].connection
    IN  /\ attempts[t].pc = "fetching"
        /\ known
        /\ UpdateAccepted(g, c)
        /\ records' = Updated(g, c,
                          Linked([attempts[t].copy EXCEPT !.status = "exchanged",
                                                          !.code   = NoCode,
                                                          !.token  = attempts[t].token],
                                 t))
        /\ Settle(t, "granted", attempts[t].token)
        /\ UNCHANGED <<backend, generation, offered, codes>>

\* The record is written, and the task has its credentials, unless the lookup
\* of the user failed or the store refuses the write.
FetchUser(t, known) ==
    LET g == attempts[t].generation
        c == attempts[t].connection
    IN  /\ attempts[t].pc = "fetching"
        /\ IF known /\ UpdateAccepted(g, c)
           THEN /\ records' = Updated(g, c,
                                Linked([attempts[t].copy EXCEPT !.status = "exchanged",
                                                                !.code   = NoCode,
                                                                !.token  = attempts[t].token],
                                       t))
                /\ Settle(t, "granted", attempts[t].token)
           ELSE GiveUp(t)
        /\ UNCHANGED <<backend, generation, offered, codes>>

\* The process stops and starts again: what was running is lost, and so is a
\* store in memory.
Restart(offers) ==
    /\ NewService(offers)
    /\ attempts' = [t \in Tasks |-> IF Running(t) THEN [attempts[t] EXCEPT !.pc = "lost"]
                                                  ELSE attempts[t]]
    /\ UNCHANGED <<backend, records, codes>>

Exchange(t) ==
    \/ FindExchanged(t) \/ Refuse(t) \/ BeginExchange(t)
    \/ \E answered \in BOOLEAN : ExchangeCode(t, answered)
    \/ \E known \in BOOLEAN : FetchUser(t, known)

Next ==
    \/ \E c \in OAuthConnections : CreatePendingConnection(c)
    \/ \E c \in OAuthConnections, k \in Codes : Authorise(c, k)
    \/ \E k \in Codes : CompleteCallback(k)
    \/ \E c \in Connections : Disconnect(c)
    \/ \E c \in EnvConnections, offers, accepted \in BOOLEAN : UseEnvToken(c, offers, accepted)
    \/ \E t \in Tasks : Launch(t) \/ Exchange(t)
    \/ \E offers \in BOOLEAN : Restart(offers)

\* The event loop runs a coroutine that can go on.  Each wait of an HTTP call
\* has a timeout, and GitHub does not keep a call going for ever.
Fairness == \A t \in Tasks : WF_vars(Exchange(t))

Spec == Init /\ [][Next]_vars /\ Fairness

-----------------------------------------------------------------------------
(* Properties.                                                             *)

\* Records, exchanges and codes have the values the service gives them.
TypeOK ==
    /\ backend \in {"memory", "supabase"}
    /\ generation \in Generations
    /\ offered \subseteq 0..generation
    /\ records \in [Generations -> [Connections -> Records]]
    /\ attempts \in [Tasks -> Attempts]
    /\ codes \in [Codes -> [status : {"unissued", "issued", "spent"},
                            connection : Connections \cup {NoTask}]]

\* A record that the dashboard shows as connected, ready or exchanged, holds
\* what the next exchange needs, whichever of the overlapping exchanges and
\* callbacks wrote it last.
ConnectedHasCredential ==
    \A g \in Generations, c \in Connections :
        LET r == records[g][c]
        IN  /\ r.status = "ready" => r.code # NoCode
            /\ r.status = "exchanged" => r.token # NoToken /\ r.code = NoCode

\* Credentials reach the task they are meant for: the task a record is linked
\* to has those of that connection, so no exchange that overlapped with its own
\* leaves a link to a task that was refused.  A task that uses the backend's own
\* token uses the one its service offers, although services of other
\* generations refresh the same record; only where its service offers none, and
\* the record is in Supabase from an earlier one, does it use that one's.
CredentialsAreTheirs ==
    /\ \A g \in Generations, c \in Connections :
          LET t == records[g][c].task
          IN  t # NoTask => attempts[t].pc = "granted" /\ attempts[t].connection = c
    /\ \A t \in Tasks :
          LET a == attempts[t]
          IN  a.pc = "granted" /\ a.connection \in EnvConnections =>
                 IF a.generation \in offered
                 THEN a.token = a.generation
                 ELSE a.token \in offered /\ backend = "supabase"

\* A connection that was disconnected is never brought back, whatever the
\* exchanges and the callbacks that were under way write; and with the records
\* in memory, a disconnect during an exchange keeps it from handing out
\* credentials.
DisconnectIsFinal ==
    [][/\ \A g \in Generations, c \in Connections :
             records[g][c].status = "deleted" => records'[g][c] = records[g][c]
       /\ \A t \in Tasks :
             backend = "memory" /\ attempts[t].pc # "granted" /\ attempts'[t].pc = "granted"
                 => Present(attempts[t].generation, attempts[t].connection)]_vars

\* A task that reached the exchange gets its credentials, or an answer that it
\* will not.
ExchangesSettle ==
    \A t \in Tasks :
        attempts[t].pc = "launched" ~> attempts[t].pc \in {"granted", "refused", "lost"}

\* What the plan of the OAuth flow says of a successful exchange: it stores the
\* token.  A connection that served a task and is still there has a token.
GrantedConnectionKeepsToken ==
    \A t \in Tasks :
        LET g == attempts[t].generation
            c == attempts[t].connection
        IN  attempts[t].pc = "granted" /\ Present(g, c) => RecordOf(g, c).token # NoToken
=============================================================================
