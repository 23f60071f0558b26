-------------------------- MODULE RetrievalProofs --------------------------
(***************************************************************************)
(* Theorems about the retrieval store, for any number of tasks, sources and  *)
(* versions: its state keeps its shape, it never holds a mixture of two      *)
(* readings of a source, and it loses none in silence.                       *)
(***************************************************************************)
EXTENDS Retrieval, TLAPS

-----------------------------------------------------------------------------
(* Chunks and readings.                                                    *)

\* The chunks of a reading carry the name of its source.
LEMMA ChunkSource ==
    ASSUME NEW s, NEW v, NEW c \in ChunksOf(s, v)
    PROVE  c.source = s
  BY DEF ChunksOf

\* The chunks of a reading are chunks.
LEMMA ChunksOfType ==
    ASSUME NEW s \in Sources, NEW v \in Versions
    PROVE  ChunksOf(s, v) \subseteq Chunks
  BY DEF Chunks

\* A source that was read was read in one of its versions.
LEMMA ReadVersion ==
    ASSUME TypeOK, NEW i \in Actors, NEW s \in Read(i)
    PROVE  s \in Sources /\ documents[i][s] \in Versions
  BY BoundsAssumption DEF TypeOK, Read, Versions

\* What an actor inserts are chunks.
LEMMA InsertedType ==
    ASSUME TypeOK, NEW i \in Actors
    PROVE  Inserted(i) \subseteq Chunks
  BY ReadVersion, ChunksOfType DEF Inserted

\* The pages an actor is given to fetch are pages.
LEMMA PagesOfType ==
    ASSUME NEW i \in Actors
    PROVE  PagesOf(i) \subseteq Pages
  BY DEF PagesOf, Pages, Actors, Requests

-----------------------------------------------------------------------------
(* Type correctness.                                                       *)

\* An actor that ends leaves its part of the state in shape.
LEMMA EndedType ==
    ASSUME TypeOK, NEW i \in Actors,
           NEW how \in {"idle", "loading", "embedding", "indexed", "done",
                        "failed", "gone"},
           Ended(i, how)
    PROVE  /\ pc' \in [Actors -> {"idle", "loading", "embedding", "indexed",
                                  "done", "failed", "gone"}]
           /\ todo' \in [Actors -> SUBSET Pages]
           /\ documents' \in [Actors -> [Sources -> 0 .. MaxVersion]]
  <1>1. NothingRead \in [Sources -> 0 .. MaxVersion]
    BY BoundsAssumption DEF NothingRead
  <1>2. QED  BY <1>1 DEF TypeOK, Ended

\* The state keeps the shape its declaration says, under every interleaving,
\* failure and restart.
THEOREM RetrievalTypeCorrect == Spec => []TypeOK
  <1>1. Init => TypeOK
    BY BoundsAssumption DEF Init, TypeOK, Versions, NothingRead
  <1>2. TypeOK /\ [Next]_vars => TypeOK'
    <2> SUFFICES ASSUME TypeOK, [Next]_vars PROVE TypeOK'
      OBVIOUS
    <2>1. CASE UNCHANGED vars
      BY <2>1 DEF vars, TypeOK
    <2>2. ASSUME NEW s \in Sources, Change(s) PROVE TypeOK'
      <3>1. versions[s] + 1 \in Versions
        BY <2>2, BoundsAssumption DEF TypeOK, Change, Versions
      <3>2. QED  BY <2>2, <3>1 DEF TypeOK, Change
    <2>3. ASSUME NEW i \in Actors, Begin(i) PROVE TypeOK'
      BY <2>3, PagesOfType DEF TypeOK, Begin
    <2>4. ASSUME NEW i \in Actors, LoadDocuments(i) PROVE TypeOK'
      <3>1. versions \in [Sources -> 0 .. MaxVersion]
        BY BoundsAssumption DEF TypeOK, Versions
      <3>2. documents' \in [Actors -> [Sources -> 0 .. MaxVersion]]
        BY <2>4, <3>1 DEF TypeOK, LoadDocuments
      <3>3. QED  BY <2>4, <3>2 DEF TypeOK, LoadDocuments
    <2>5. ASSUME NEW i \in Actors, LoadFails(i) PROVE TypeOK'
      BY <2>5, EndedType DEF TypeOK, LoadFails
    <2>6. ASSUME NEW i \in Actors, EmbedFails(i) PROVE TypeOK'
      BY <2>6, EndedType DEF TypeOK, EmbedFails
    <2>7. ASSUME NEW i \in Actors, ReplaceChunks(i) PROVE TypeOK'
      <3>1. rag_chunks' \subseteq Chunks
        BY <2>7, InsertedType DEF TypeOK, ReplaceChunks, Deleted
      <3>2. QED  BY <2>7, <3>1, EndedType DEF TypeOK, ReplaceChunks, Succeeded
    <2>8. ASSUME NEW i \in Actors, ReplaceFails(i) PROVE TypeOK'
      <3>1. rag_chunks' \subseteq Chunks
        BY <2>8, InsertedType DEF TypeOK, ReplaceFails, Deleted
      <3>2. QED  BY <2>8, <3>1, EndedType DEF TypeOK, ReplaceFails
    <2>9. ASSUME NEW i \in Actors, NEW s \in Pages, FetchHtml(i, s) PROVE TypeOK'
      <3>1. s \in Sources
        BY DEF Sources
      <3>2. PICK v \in {0, versions[s]} :
                documents' = [documents EXCEPT ![i][s] = v]
        BY <2>9 DEF FetchHtml
      <3>3. v \in 0 .. MaxVersion
        BY <3>1, BoundsAssumption DEF TypeOK, Versions
      <3>4. documents' \in [Actors -> [Sources -> 0 .. MaxVersion]]
        BY <3>1, <3>2, <3>3 DEF TypeOK
      <3>5. QED  BY <2>9, <3>4 DEF TypeOK, FetchHtml
    <2>10. ASSUME NEW t \in Tasks, SearchRag(t) PROVE TypeOK'
      <3>1. PICK ranked \in Ranked : evidence' = [evidence EXCEPT ![t] = ranked]
        BY <2>10 DEF SearchRag
      <3>2. ranked \subseteq Chunks
        BY <3>1 DEF Ranked, Eligible, TypeOK
      <3>3. t \in Actors
        BY DEF Actors
      <3>4. QED  BY <2>10, <3>1, <3>2, <3>3, EndedType DEF TypeOK, SearchRag
    <2>11. ASSUME NEW t \in Tasks, SearchFails(t) PROVE TypeOK'
      BY <2>11, EndedType DEF TypeOK, SearchFails, Actors
    <2>12. CASE Restart
      <3>1. rag_chunks' \subseteq Chunks
        BY <2>12 DEF TypeOK, Restart, Deleted
      <3>2. documents' \in [Actors -> [Sources -> 0 .. MaxVersion]]
        BY <2>12, BoundsAssumption DEF Restart, NothingRead
      <3>3. QED  BY <2>12, <3>1, <3>2 DEF TypeOK, Restart
    <2>13. QED
      BY <2>1, <2>2, <2>3, <2>4, <2>5, <2>6, <2>7, <2>8, <2>9, <2>10, <2>11,
         <2>12 DEF Next
  <1>3. QED  BY <1>1, <1>2, PTL DEF Spec

-----------------------------------------------------------------------------
(* One reading.                                                            *)

\* After a replacement the rows of a source that was read are those of that
\* reading; the rows of the others are as before.
LEMMA RowsReplaced ==
    ASSUME NEW i \in Actors, NEW s \in Sources,
           rag_chunks' = Deleted(i) \cup Inserted(i)
    PROVE  RowsOf(s)' = IF s \in Read(i) THEN ChunksOf(s, documents[i][s])
                                         ELSE RowsOf(s)
  <1>1. \A c \in Inserted(i) : \E r \in Read(i) :
            c \in ChunksOf(r, documents[i][r]) /\ c.source = r
    BY ChunkSource DEF Inserted
  <1>2. CASE s \in Read(i)
    <2>1. \A c \in ChunksOf(s, documents[i][s]) : c \in Inserted(i) /\ c.source = s
      BY <1>2, ChunkSource DEF Inserted
    <2>2. QED  BY <1>1, <1>2, <2>1 DEF RowsOf, Deleted
  <1>3. CASE s \notin Read(i)
    BY <1>1, <1>3 DEF RowsOf, Deleted
  <1>4. QED  BY <1>2, <1>3

\* After a delete alone the sources that were read have no rows.
LEMMA RowsDeleted ==
    ASSUME NEW i \in Actors, NEW s \in Sources, rag_chunks' = Deleted(i)
    PROVE  RowsOf(s)' = IF s \in Read(i) THEN {} ELSE RowsOf(s)
  BY DEF RowsOf, Deleted

\* What a step may do to the table: nothing, or a delete or a replacement by an
\* actor that was embedding, and what that actor says when it did.
LEMMA TableSteps ==
    ASSUME TypeOK, [Next]_vars
    PROVE  \/ rag_chunks' = rag_chunks
           \/ \E i \in Actors :
                 /\ pc[i] = "embedding"
                 /\ \/ rag_chunks' = Deleted(i) \cup Inserted(i)
                    \/ rag_chunks' = Deleted(i) /\ pc'[i] \in {"failed", "gone"}
  <1>1. ASSUME NEW i \in Actors, ReplaceFails(i)
        PROVE  pc[i] = "embedding" /\ pc'[i] = "failed"
    BY <1>1 DEF ReplaceFails, Ended, TypeOK
  <1>2. ASSUME NEW i \in Actors, ReplaceFails(i)
        PROVE  \/ rag_chunks' = rag_chunks
               \/ rag_chunks' = Deleted(i)
               \/ rag_chunks' = Deleted(i) \cup Inserted(i)
    BY <1>2 DEF ReplaceFails
  <1>3. ASSUME NEW i \in Actors, ReplaceChunks(i)
        PROVE  pc[i] = "embedding" /\ rag_chunks' = Deleted(i) \cup Inserted(i)
    BY <1>3 DEF ReplaceChunks
  <1>4. ASSUME Restart
        PROVE  \/ rag_chunks' = rag_chunks
               \/ \E i \in Actors : /\ pc[i] = "embedding"
                                    /\ rag_chunks' = Deleted(i)
                                    /\ pc'[i] = "gone"
    BY <1>4 DEF Restart
  <1>5. QED
    BY <1>1, <1>2, <1>3, <1>4
       DEF Next, vars, Change, Begin, LoadDocuments, LoadFails, EmbedFails,
           FetchHtml, SearchRag, SearchFails

\* A search never sees half a document, or a mixture of two readings of it.
THEOREM OneReadingAlways == Spec => []OneReadingPerSource
  <1>1. Init => OneReadingPerSource
    BY DEF Init, OneReadingPerSource, RowsOf
  <1>2. TypeOK /\ OneReadingPerSource /\ [Next]_vars => OneReadingPerSource'
    <2> SUFFICES ASSUME TypeOK, OneReadingPerSource, [Next]_vars, NEW s \in Sources
                 PROVE  \/ RowsOf(s)' = {}
                        \/ \E v \in Versions : RowsOf(s)' = ChunksOf(s, v)
      BY DEF OneReadingPerSource, ChunksOf
    <2>1. CASE rag_chunks' = rag_chunks
      BY <2>1 DEF OneReadingPerSource, RowsOf
    <2>2. ASSUME NEW i \in Actors, rag_chunks' = Deleted(i) \cup Inserted(i)
          PROVE  \/ RowsOf(s)' = {}
                 \/ \E v \in Versions : RowsOf(s)' = ChunksOf(s, v)
      <3>1. CASE s \in Read(i)
        BY <2>2, <3>1, RowsReplaced, ReadVersion
      <3>2. CASE s \notin Read(i)
        BY <2>2, <3>2, RowsReplaced DEF OneReadingPerSource
      <3>3. QED  BY <3>1, <3>2
    <2>3. ASSUME NEW i \in Actors, rag_chunks' = Deleted(i)
          PROVE  \/ RowsOf(s)' = {}
                 \/ \E v \in Versions : RowsOf(s)' = ChunksOf(s, v)
      BY <2>3, RowsDeleted DEF OneReadingPerSource
    <2>4. QED  BY <2>1, <2>2, <2>3, TableSteps
  <1>3. QED  BY <1>1, <1>2, RetrievalTypeCorrect, PTL DEF Spec

\* A source that was indexed does not drop out of the store in silence.
THEOREM LossReportedAlways == Spec => LossIsReported
  <1> DEFINE Reported ==
        \A s \in Sources :
            RowsOf(s) # {} /\ RowsOf(s)' = {} =>
                \E i \in Actors :
                    /\ s \in Read(i)
                    /\ \/ ChunksOf(s, documents[i][s]) = {}
                       \/ pc'[i] \in {"failed", "gone"} /\ pc[i] = "embedding"
  <1>1. TypeOK /\ [Next]_vars => Reported
    <2> SUFFICES ASSUME TypeOK, [Next]_vars, NEW s \in Sources,
                        RowsOf(s) # {}, RowsOf(s)' = {}
                 PROVE  \E i \in Actors :
                            /\ s \in Read(i)
                            /\ \/ ChunksOf(s, documents[i][s]) = {}
                               \/ pc'[i] \in {"failed", "gone"} /\ pc[i] = "embedding"
      OBVIOUS
    <2>1. rag_chunks' # rag_chunks
      BY DEF RowsOf
    <2>2. PICK i \in Actors :
              /\ pc[i] = "embedding"
              /\ \/ rag_chunks' = Deleted(i) \cup Inserted(i)
                 \/ rag_chunks' = Deleted(i) /\ pc'[i] \in {"failed", "gone"}
      BY <2>1, TableSteps
    <2>3. CASE rag_chunks' = Deleted(i) \cup Inserted(i)
      BY <2>3, RowsReplaced
    <2>4. CASE rag_chunks' = Deleted(i) /\ pc'[i] \in {"failed", "gone"}
      BY <2>2, <2>4, RowsDeleted
    <2>5. QED  BY <2>2, <2>3, <2>4
  <1>2. TypeOK /\ [Next]_vars => [Reported]_vars
    BY <1>1
  <1>3. QED  BY <1>2, RetrievalTypeCorrect, PTL DEF Spec, LossIsReported
=============================================================================
