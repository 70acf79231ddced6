------------------------------- MODULE RagIndex -------------------------------
(***************************************************************************)
(* The knowledge base of RAGService: the FAISS index it builds in memory   *)
(* when it starts, POST /ingest that adds to it, the retrieval step of     *)
(* POST /query, and the gauge behind the RAGIndexEmpty alert. Handlers run *)
(* in worker threads and nothing locks the index.                          *)
(*                                                                         *)
(* LangChain's FAISS wrapper keeps the vectors and the chunks apart: the   *)
(* index knows positions, a dictionary maps a position to its chunk. One   *)
(* ingest adds one chunk here.                                             *)
(***************************************************************************)
EXTENDS Naturals, Sequences, FiniteSets

CONSTANTS
    Chunks,     \* chunks that clients ingest
    Runbooks,   \* what the runbook directory gives when it is mounted
    Seed,       \* what the built-in documents give when it is not
    NoChunk,
    Ingesters,  \* worker threads that serve /ingest
    Queriers,   \* worker threads that serve /query
    MaxVectors  \* bound on the size of the index

Knowledge == {Runbooks, Seed}
Stored == Chunks \cup Knowledge
Handlers == Ingesters \cup Queriers
Positions == 1 .. MaxVectors

ASSUME RagIndexAssumption ==
    /\ {NoChunk, "created", "error"} \cap Stored = {}
    /\ Ingesters \cap Queriers = {} /\ IsFiniteSet(Ingesters)
    /\ MaxVectors \in Nat \ {0}

VARIABLES
    up,      \* the process is serving
    source,  \* KNOWLEDGE_BASE_SOURCE
    vectors, \* the FAISS index: the chunk whose embedding is at each position
    chunkAt, \* index_to_docstore_id and the docstore: position to chunk
    gauge,   \* vector_store_documents_total
    at,      \* per thread: "idle", or the next step of the handler
    chunk,   \* per ingester: the chunk it adds
    number,  \* per thread: the position or count it has just read
    reply,   \* per thread: what its last request was answered with
    overlap  \* history: two ingests have overlapped since the process started

indexVars == <<up, source, vectors, chunkAt, gauge, at, chunk, number, reply, overlap>>

IndexTypeOK ==
    /\ up \in BOOLEAN
    /\ source \in {"none", "runbooks", "seed"}
    /\ vectors \in Seq(Stored) /\ Len(vectors) <= MaxVectors
    /\ chunkAt \in [Positions -> Stored \cup {NoChunk}]
    /\ gauge \in 0 .. MaxVectors
    /\ at \in [Handlers -> {"idle", "add", "base", "map", "total", "set", "search", "lookup"}]
    /\ chunk \in [Ingesters -> Chunks \cup {NoChunk}]
    /\ number \in [Handlers -> 0 .. MaxVectors]
    /\ reply \in [Handlers -> Stored \cup {NoChunk, "created", "error"}]
    /\ overlap \in BOOLEAN

IndexInit ==
    /\ up = FALSE /\ source = "none"
    /\ vectors = <<>> /\ chunkAt = [p \in Positions |-> NoChunk] /\ gauge = 0
    /\ at = [t \in Handlers |-> "idle"]
    /\ chunk = [t \in Ingesters |-> NoChunk]
    /\ number = [t \in Handlers |-> 0]
    /\ reply = [t \in Handlers |-> NoChunk]
    /\ overlap = FALSE

-----------------------------------------------------------------------------
Ingesting == \E t \in Ingesters : at[t] # "idle"

(* len(index_to_docstore_id) *)
Mapped == Cardinality({p \in Positions : chunkAt[p] # NoChunk})

Goto(t, label) == at' = [at EXCEPT ![t] = label]
Answer(t, what) == Goto(t, "idle") /\ reply' = [reply EXCEPT ![t] = what]

LoadIndex(kb) ==
    /\ vectors' = <<kb>>
    /\ chunkAt' = [p \in Positions |-> IF p = 1 THEN kb ELSE NoChunk]
    /\ gauge' = 1

(* The process starts: lifespan reads the runbooks, or falls back to the
   built-in documents, ingests them and sets the gauge before it serves. *)
Start ==
    /\ ~up /\ up' = TRUE
    /\ \E kb \in Knowledge :
        /\ LoadIndex(kb)
        /\ source' = IF kb = Runbooks THEN "runbooks" ELSE "seed"
    /\ overlap' = FALSE
    /\ UNCHANGED <<at, chunk, number, reply>>

(* The container dies, OOM killed for instance, with all it had in memory. *)
Die ==
    /\ up /\ up' = FALSE
    /\ source' = "none"
    /\ vectors' = <<>> /\ chunkAt' = [p \in Positions |-> NoChunk] /\ gauge' = 0
    /\ at' = [t \in Handlers |-> "idle"]
    /\ UNCHANGED <<chunk, number, reply, overlap>>

-----------------------------------------------------------------------------
(* POST /ingest: validated, split and embedded; any of these may raise. *)
Ingest(t) ==
    /\ up /\ at[t] = "idle"
    /\ Len(vectors) + Cardinality(Ingesters) <= MaxVectors
    /\ \/ /\ \E c \in Chunks : chunk' = [chunk EXCEPT ![t] = c]
          /\ Goto(t, "add")
          /\ overlap' = (overlap \/ Ingesting)
          /\ UNCHANGED reply
       \/ Answer(t, "error") /\ UNCHANGED <<chunk, overlap>>
    /\ UNCHANGED <<up, source, vectors, chunkAt, gauge, number>>

(* FAISS.add_documents: the vector first, *)
AddVector(t) ==
    /\ at[t] = "add"
    /\ vectors' = Append(vectors, chunk[t])
    /\ Goto(t, "base")
    /\ UNCHANGED <<up, source, chunkAt, gauge, chunk, number, reply, overlap>>

(* then the number of positions that are mapped, *)
ReadBase(t) ==
    /\ at[t] = "base"
    /\ number' = [number EXCEPT ![t] = Mapped]
    /\ Goto(t, "map")
    /\ UNCHANGED <<up, source, vectors, chunkAt, gauge, chunk, reply, overlap>>

(* and the chunk goes to the position after them. *)
Last(t) == number[t]
NextPosition(t) == number[t] + 1
MapChunk(t) ==
    /\ at[t] = "map"
    /\ chunkAt' = [chunkAt EXCEPT ![NextPosition(t)] = chunk[t]]
    /\ Goto(t, "total")
    /\ UNCHANGED <<up, source, vectors, gauge, chunk, number, reply, overlap>>

(* _sync_document_gauge reads index.ntotal, *)
CountOfThisIngest == 1
CountFromOne == Len(vectors) + 1
Total == Len(vectors)
ReadTotal(t) ==
    /\ at[t] = "total"
    /\ number' = [number EXCEPT ![t] = Total]
    /\ Goto(t, "set")
    /\ UNCHANGED <<up, source, vectors, chunkAt, gauge, chunk, reply, overlap>>

(* and sets the gauge to it. *)
SetGauge(t) ==
    /\ at[t] = "set"
    /\ gauge' = number[t]
    /\ Answer(t, "created")
    /\ UNCHANGED <<up, source, vectors, chunkAt, chunk, number, overlap>>

-----------------------------------------------------------------------------
(* POST /query *)
Retrieve(q) ==
    /\ up /\ at[q] = "idle"
    /\ Goto(q, "search")
    /\ UNCHANGED <<up, source, vectors, chunkAt, gauge, chunk, number, reply, overlap>>

(* similarity_search: the index finds the position of the nearest vector, *)
Search(q) ==
    /\ at[q] = "search"
    /\ \E p \in 1 .. Len(vectors) : number' = [number EXCEPT ![q] = p]
    /\ Goto(q, "lookup")
    /\ UNCHANGED <<up, source, vectors, chunkAt, gauge, chunk, reply, overlap>>

(* and the wrapper looks its chunk up. A position that is not mapped raises,
   and /query answers 500. Otherwise the LLM is asked (RagBreaker). *)
Lookup(q) ==
    /\ at[q] = "lookup"
    /\ Answer(q, IF chunkAt[number[q]] = NoChunk THEN "error" ELSE chunkAt[number[q]])
    /\ UNCHANGED <<up, source, vectors, chunkAt, gauge, chunk, number, overlap>>

Handle(t) ==
    \/ AddVector(t) \/ ReadBase(t) \/ MapChunk(t) \/ ReadTotal(t) \/ SetGauge(t)
    \/ Search(t) \/ Lookup(t)

IndexNext ==
    \/ Start \/ Die
    \/ \E t \in Ingesters : Ingest(t)
    \/ \E q \in Queriers : Retrieve(q)
    \/ \E t \in Handlers : Handle(t)

IndexSpec == IndexInit /\ [][IndexNext]_indexVars

-----------------------------------------------------------------------------
(* RAGService never serves with an empty index, so a restart does not leave the
   "zombie" that RAGIndexEmpty looks for. And as long as ingests come one at a
   time, the index, the map of its chunks and the gauge agree whenever none is
   under way: no vector is without its chunk, on which the queries that find it
   would fail until the next restart, and the gauge tells what /health tells
   (_sync_document_gauge). *)
IndexAgrees ==
    up =>
        /\ Len(vectors) > 0 /\ gauge > 0 /\ source # "none"
        /\ ~Ingesting /\ ~overlap =>
               /\ gauge = Len(vectors)
               /\ \A p \in 1 .. Len(vectors) : chunkAt[p] = vectors[p]

(* As long as ingests come one at a time, a query is answered from the chunk
   whose vector was found (rag_pipeline.py, _retrieve), or not at all. *)
AnsweredFromTheNearestChunk ==
    [][\A q \in Queriers : at[q] = "lookup" /\ reply'[q] # reply[q] /\ reply'[q] \in Stored /\ ~overlap =>
          reply'[q] = vectors[number[q]]]_indexVars
=============================================================================
