----------------------------- MODULE Retrieval -----------------------------
(***************************************************************************)
(* The retrieval store (agent/rag) and who writes and reads it.  Build      *)
(* tasks index the pages of their intake and then search, both in the node   *)
(* retrieve_context; POST /rag/ingest reads the configured pages, the        *)
(* documents and the logs, POST /rag/reindex-logs the logs alone.  All of    *)
(* them replace, in one table, the chunks of the sources they read.          *)
(*                                                                         *)
(* They are coroutines of one process, with the others running while a page  *)
(* is fetched or a text embedded.  The Supabase client blocks: the delete    *)
(* and the insert of a replacement come with nothing of this process between *)
(* them, but the second may fail, and the process may stop before it.        *)
(*                                                                         *)
(* The content of a source is abstracted to a version, and to the types of   *)
(* the chunks it is cut into; which chunks a query matches is left open.     *)
(***************************************************************************)
EXTENDS Naturals, Sequences, FiniteSets

CONSTANTS
    Tasks,
    Files, Logs,        \* what the ingester reads from disk
    Configured,         \* RAG_SCRAPE_URLS and the pages they link to
    Submitted,          \* per task: its source_urls and the pages they link to
    Sections,           \* per source and version: the types of its chunks
    MaxVersion,         \* bound: how often a source changes
    TopK                \* of the searches

Pages   == Configured \cup UNION {Submitted[t] : t \in Tasks}
Corpus  == Files \cup Logs \cup Configured
Sources == Corpus \cup Pages

Requests == {"ingest", "reindex-logs"}
Actors   == Tasks \cup Requests
Versions == 1 .. MaxVersion

ASSUME TasksAssumption == Tasks \cap Requests = {}
ASSUME PagesAssumption == Pages \cap (Files \cup Logs) = {}
ASSUME BoundsAssumption == MaxVersion \in Nat \ {0} /\ TopK \in Nat \ {0}
ASSUME SectionsAssumption ==
    \A s \in Sources : Sections[s] \in [Versions -> Seq(STRING)]

VARIABLES
    versions,   \* of the sources, outside
    rag_chunks, \* the table
    pc,         \* "idle", "loading", "embedding", "indexed", "done",
                \* "failed" or "gone"
    todo,       \* pages an actor has yet to fetch
    documents,  \* the version it read of each source; 0: not read
    evidence    \* what the search of a task returned

vars == <<versions, rag_chunks, pc, todo, documents, evidence>>

-----------------------------------------------------------------------------
\* BUILD_CONTEXT_DOC_TYPES: logs and notes are no evidence for a build.
BuildContextDocTypes ==
    {"required_deliverables", "allowed_tools_apis", "repository_format",
     "demo_format", "tech_stack", "security_constraints", "agent_boundaries",
     "scope_warning", "hackathon_rules", "nvidia_docs", "nvidia_model_docs",
     "nvidia_model_usage", "agent_architecture", "implementation_constraints",
     "generated_project_doc"}

\* chunk_document; a text without a paragraph gives no chunk.
ChunksOf(s, v) ==
    {[source |-> s, version |-> v, index |-> i, doc_type |-> Sections[s][v][i]] :
        i \in DOMAIN Sections[s][v]}

Chunks == UNION {ChunksOf(s, v) : s \in Sources, v \in Versions}

NothingRead == [s \in Sources |-> 0]

Read(i) == {s \in Sources : documents[i][s] # 0}

Init ==
    /\ versions = [s \in Sources |-> 1]
    /\ rag_chunks = {}
    /\ pc = [i \in Actors |-> "idle"]
    /\ todo = [i \in Actors |-> {}]
    /\ documents = [i \in Actors |-> NothingRead]
    /\ evidence = [t \in Tasks |-> {}]

\* A page, or a file, changes.
Change(s) ==
    /\ versions[s] < MaxVersion
    /\ versions' = [versions EXCEPT ![s] = @ + 1]
    /\ UNCHANGED <<rag_chunks, pc, todo, documents, evidence>>

-----------------------------------------------------------------------------
(* Loading the documents.                                                  *)

PagesOf(i) == CASE i \in Tasks    -> Submitted[i]
                [] i = "ingest"   -> Configured
                [] OTHER          -> {}

\* A task does this once; a request can be sent again.
Begin(i) ==
    /\ pc[i] = "idle" \/ (i \in Requests /\ pc[i] \in {"done", "failed", "gone"})
    /\ pc' = [pc EXCEPT ![i] = "loading"]
    /\ todo' = [todo EXCEPT ![i] = PagesOf(i)]
    /\ UNCHANGED <<versions, rag_chunks, documents, evidence>>

\* A page that cannot be fetched, or has too little text, is passed over.
FetchHtml(i, s) ==
    /\ pc[i] = "loading"
    /\ s \in todo[i]
    /\ todo' = [todo EXCEPT ![i] = @ \ {s}]
    /\ \E v \in {0, versions[s]} : documents' = [documents EXCEPT ![i][s] = v]
    /\ UNCHANGED <<versions, rag_chunks, pc, evidence>>

FilesOf(i) == CASE i = "ingest"       -> Files \cup Logs
                [] i = "reindex-logs" -> Logs
                [] OTHER              -> {}

\* The files are read behind the last page, without a pause.
LoadDocuments(i) ==
    /\ pc[i] = "loading" /\ todo[i] = {}
    /\ pc' = [pc EXCEPT ![i] = IF i \in Tasks /\ Read(i) = {} THEN "indexed"
                                                             ELSE "embedding"]
    /\ documents' = [documents EXCEPT ![i] =
                        [s \in Sources |-> IF s \in FilesOf(i) THEN versions[s] ELSE @[s]]]
    /\ UNCHANGED <<versions, rag_chunks, todo, evidence>>

-----------------------------------------------------------------------------
(* Embedding and storing them.                                             *)

\* What it read goes with it.
Ended(i, how) ==
    /\ pc' = [pc EXCEPT ![i] = how]
    /\ todo' = [todo EXCEPT ![i] = {}]
    /\ documents' = [documents EXCEPT ![i] = NothingRead]

\* A link that is no URL, a file that is not UTF-8, a store without settings.
LoadFails(i) ==
    /\ pc[i] = "loading"
    /\ Ended(i, "failed")
    /\ UNCHANGED <<versions, rag_chunks, evidence>>

Succeeded(i) == Ended(i, IF i \in Tasks THEN "indexed" ELSE "done")


Inserted(i) == UNION {ChunksOf(s, documents[i][s]) : s \in Read(i)}

\* A delete by chunk_id.
MutantDeleted(i) == rag_chunks \ Inserted(i)

\* The delete names the sources, not the chunks.
Deleted(i) == {c \in rag_chunks : c.source \notin Read(i)}

EmbedFails(i) ==
    /\ pc[i] = "embedding"
    /\ Inserted(i) # {}
    /\ Ended(i, "failed")
    /\ UNCHANGED <<versions, rag_chunks, evidence>>

ReplaceChunks(i) ==
    /\ pc[i] = "embedding"
    /\ rag_chunks' = Deleted(i) \cup Inserted(i)
    /\ Succeeded(i)
    /\ UNCHANGED <<versions, evidence>>

MutantReplaceFails(i) ==
    /\ pc[i] = "embedding"
    /\ Read(i) # {}
    /\ rag_chunks' \in {rag_chunks, Deleted(i), Deleted(i) \cup Inserted(i)}
    /\ IF rag_chunks' = rag_chunks THEN Ended(i, "failed") ELSE Succeeded(i)
    /\ UNCHANGED <<versions, evidence>>

\* The delete is refused; or it is done, and the insert refused or not sent;
\* or both are done, and the answer is lost.
ReplaceFails(i) ==
    /\ pc[i] = "embedding"
    /\ Read(i) # {}
    /\ rag_chunks' \in {rag_chunks, Deleted(i), Deleted(i) \cup Inserted(i)}
    /\ Ended(i, "failed")
    /\ UNCHANGED <<versions, evidence>>

-----------------------------------------------------------------------------
(* The search of a task.                                                   *)

Eligible == {c \in rag_chunks : c.doc_type \in BuildContextDocTypes}

\* rerank_chunks: in any order, and the service may drop some; when it fails,
\* the order is the one of the vectors.
Ranked == SUBSET Eligible

\* search_rag: the store gives more candidates than asked for, and the first
\* TopK of those ranked are kept.
SearchRag(t) ==
    /\ pc[t] = "indexed"
    /\ \E ranked \in Ranked :
         /\ Cardinality(ranked) <= TopK
         /\ evidence' = [evidence EXCEPT ![t] = ranked]
    /\ Ended(t, "done")
    /\ UNCHANGED <<versions, rag_chunks>>

\* The query could not be embedded, or the store did not answer.
SearchFails(t) ==
    /\ pc[t] = "indexed"
    /\ Ended(t, "failed")
    /\ UNCHANGED <<versions, rag_chunks, evidence>>

\* The process stops, maybe between the delete and the insert of an actor.
Restart ==
    /\ pc' = [i \in Actors |-> IF pc[i] \in {"loading", "embedding", "indexed"}
                               THEN "gone" ELSE pc[i]]
    /\ rag_chunks' \in {rag_chunks} \cup {Deleted(i) : i \in {j \in Actors : pc[j] = "embedding"}}
    /\ todo' = [i \in Actors |-> {}]
    /\ documents' = [i \in Actors |-> NothingRead]
    /\ UNCHANGED <<versions, evidence>>

-----------------------------------------------------------------------------
Next ==
    \/ \E s \in Sources : Change(s)
    \/ \E i \in Actors : \/ Begin(i) \/ LoadDocuments(i) \/ LoadFails(i)
                         \/ EmbedFails(i) \/ ReplaceChunks(i) \/ ReplaceFails(i)
                         \/ \E s \in Pages : FetchHtml(i, s)
    \/ \E t \in Tasks : SearchRag(t) \/ SearchFails(t)
    \/ Restart

Spec == Init /\ [][Next]_vars

-----------------------------------------------------------------------------
(* Properties.                                                             *)

TypeOK ==
    /\ versions \in [Sources -> Versions]
    /\ rag_chunks \subseteq Chunks
    /\ pc \in [Actors -> {"idle", "loading", "embedding", "indexed", "done",
                          "failed", "gone"}]
    /\ todo \in [Actors -> SUBSET Pages]
    /\ documents \in [Actors -> [Sources -> 0 .. MaxVersion]]
    /\ evidence \in [Tasks -> SUBSET Chunks]

RowsOf(s) == {c \in rag_chunks : c.source = s}

\* A search never sees half a document, or a mixture of two readings of it:
\* the chunks of a source are those of one version, all of them, whatever
\* ingests of the same source overlapped, failed or stopped (replace_chunks).
OneReadingPerSource ==
    \A s \in Sources :
        RowsOf(s) = {} \/ \E v \in Versions : RowsOf(s) = ChunksOf(s, v)

\* A source that was indexed does not drop out of the store in silence: when
\* its chunks go, it was read and had no text any more, or the ingest that
\* removed them reports a failure or ended with the process (replace_chunks
\* and the errors of its callers).
LossIsReported ==
    [][\A s \in Sources :
          RowsOf(s) # {} /\ RowsOf(s)' = {} =>
              \E i \in Actors :
                  /\ s \in Read(i)
                  /\ \/ ChunksOf(s, documents[i][s]) = {}
                     \/ pc'[i] \in {"failed", "gone"} /\ pc[i] = "embedding"]_vars

\* What the plan of the build context says of the pages a user submits: they
\* are the context of that task alone, and not written into the global store.
\* The evidence of a task comes from the corpus or from its own pages.
EvidenceIsOwn ==
    \A t \in Tasks : \A c \in evidence[t] : c.source \in Corpus \cup Submitted[t]

=============================================================================
