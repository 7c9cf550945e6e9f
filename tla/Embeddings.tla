----------------------------- MODULE Embeddings -----------------------------
(***************************************************************************)
(* The vectors of one embedding model over an upgraded store:               *)
(* crates/kitt-memory-sqlite/src/vector.rs and the two triggers of schema   *)
(* 10.  Embedders outside the daemon ask for memories without a vector      *)
(* (vector.pending), compute, and store what they computed (vector.upsert)  *)
(* while every writer of MemoryStore goes on.                               *)
(*                                                                          *)
(* Contents that differ have different hashes here (a change of kind alone  *)
(* is left out).  A vector is the content it was computed from and the      *)
(* hash it is tagged with; its numbers, dimensions and buckets decide only  *)
(* which of the searchable rows a query ranks, and are left out.            *)
(***************************************************************************)
EXTENDS Migration

CONSTANTS
  Embedders,   \* the processes that compute vectors
  Limit,       \* rows in an answer of vector.pending
  MaxFaults,   \* bound on lost batches and clears
  NoVector

VARIABLES
  embeddings,  \* memory_embeddings of the model: id -> vector or NoVector
  batches,     \* embedder -> the rows it was handed and has not answered
  faults

embedding == <<embeddings, batches, faults>>

Vector == [hash: Contents,  \* memory_embeddings.content_hash
           of: Contents]    \* history: the text it was computed from
Task   == [id: Ids, content: Contents]

ASSUME EmbeddingAssumption == /\ Limit \in Nat \ {0}
                              /\ MaxFaults \in Nat
                              /\ NoVector \notin Vector

EmbeddingInit ==
  /\ MigrationInit
  /\ embeddings = [i \in Ids |-> NoVector]
  /\ batches = [e \in Embedders |-> {}]
  /\ faults = 0

\* Fault: a deleted memory leaves its vector behind.
WithoutCascade ==
  [i \in Ids |->
     IF /\ Stored(i)
        /\ memories'[i] # NoMemory
        /\ memories'[i].content # memories[i].content
     THEN NoVector ELSE embeddings[i]]

\* memory_embeddings_delete and memory_embeddings_stale, after any statement.
Invalidated ==
  [i \in Ids |->
     IF \/ memories'[i] = NoMemory
        \/ Stored(i) /\ memories'[i].content # memories[i].content
     THEN NoVector ELSE embeddings[i]]

-----------------------------------------------------------------------------
(* Operations                                                               *)

\* The rows of a workspace that lack a vector of their present content.
Missing(ws) ==
  {i \in Ids : /\ Active(i)
               /\ memories[i].place = <<ws, NoKey>>
               /\ ws # Global
               /\ memories[i].rank \notin {3, Ephemeral}
               /\ \/ embeddings[i] = NoVector
                  \/ embeddings[i].hash # memories[i].content}

\* Fault: the limit is applied before the rows that are done are left out.
LimitedFirst(ws) ==
  LET newest == {CHOOSE i \in Ids : TRUE}
  IN  {newest \cap Missing(ws)} \ {{}}

\* The answers that LIMIT leaves, whatever the order of updated_at.
PendingEmbeddings(ws) ==
  {rows \in SUBSET Missing(ws) :
     /\ rows # {}
     /\ Cardinality(rows) = Lower(Limit, Cardinality(Missing(ws)))}

TakeBatch(e, ws) ==
  /\ batches[e] = {}
  /\ \E rows \in PendingEmbeddings(ws) :
       batches' = [batches EXCEPT ![e] =
         {[id |-> i, content |-> memories[i].content] : i \in rows}]
  /\ UNCHANGED <<store, embeddings, faults>>

\* Fault: the row is not asked whether it still has the content.
AcceptsAnyContent(t) == Active(t.id) /\ memories[t.id].rank # Ephemeral

\* WHERE m.id=? AND m.content_hash=? AND m.status='ACTIVE' AND m.sensitivity...
AcceptsVector(t) == /\ Active(t.id)
                    /\ memories[t.id].content = t.content
                    /\ memories[t.id].rank # Ephemeral

\* The vector is tagged with the hash of the row, not with the caller's.
UpsertEmbedding(e, t) ==
  /\ t \in batches[e]
  /\ embeddings' =
       IF AcceptsVector(t)
       THEN [embeddings EXCEPT ![t.id] =
               [hash |-> memories[t.id].content, of |-> t.content]]
       ELSE embeddings
  /\ batches' = [batches EXCEPT ![e] = @ \ {t}]
  /\ UNCHANGED <<store, faults>>

\* The embedder dies, or its model is down: nothing remembers the batch.
LoseBatch(e) ==
  /\ faults < MaxFaults
  /\ batches[e] # {}
  /\ batches' = [batches EXCEPT ![e] = {}]
  /\ faults' = faults + 1
  /\ UNCHANGED <<store, embeddings>>

ClearEmbeddings ==
  /\ Opened
  /\ faults < MaxFaults
  /\ embeddings' = [i \in Ids |-> NoVector]
  /\ faults' = faults + 1
  /\ UNCHANGED <<store, batches>>

EmbeddingNext ==
  \/ MigrationNext /\ embeddings' = Invalidated /\ UNCHANGED <<batches, faults>>
  \/ \E e \in Embedders, ws \in Workspaces : TakeBatch(e, ws)
  \/ \E e \in Embedders : \E t \in batches[e] : UpsertEmbedding(e, t)
  \/ \E e \in Embedders : LoseBatch(e)
  \/ ClearEmbeddings

(* Some embedder keeps asking and storing what it computed: an assumption   *)
(* about the clients of the daemon, without which no vector is ever made.   *)
EmbeddingFairness ==
  \A e \in Embedders :
    /\ WF_<<store, embedding>>(\E ws \in Workspaces : TakeBatch(e, ws))
    /\ WF_<<store, embedding>>(\E t \in batches[e] : UpsertEmbedding(e, t))

EmbeddingSpec ==
  /\ EmbeddingInit
  /\ [][EmbeddingNext]_<<store, embedding>>
  /\ EmbeddingFairness

-----------------------------------------------------------------------------
(* Properties                                                               *)

(* Types; a vector belongs to a stored row; a batch has one task per row.   *)
EmbeddingTypeOK ==
  /\ MigrationTypeOK
  /\ embeddings \in [Ids -> Vector \cup {NoVector}]
  /\ \A i \in Ids : embeddings[i] # NoVector => Stored(i)
  /\ \A e \in Embedders : batches[e] \subseteq Task
  /\ \A e \in Embedders : Cardinality(batches[e]) <= Limit
  /\ faults \in 0..MaxFaults

\* vector_candidates, before the caller's permissions and the ranking.
VectorCandidates(q, at) ==
  {i \in Readable(q, at) : /\ embeddings[i] # NoVector
                           /\ embeddings[i].hash = memories[i].content}

(* "Stale content hashes ... never match" (vector.rs): whatever a reader    *)
(* may match by its vector has the very text that the vector was computed   *)
(* from, however long the embedder took and whatever happened to the row    *)
(* under its feet: rewritten and rewritten back, forgotten and stored again *)
(* under its id, retired and merged.                                        *)
MatchesAreCurrent ==
  \A q \in Places, at \in Instants :
    \A i \in VectorCandidates(q, at) : embeddings[i].of = memories[i].content

(* CHANGELOG.md, "incomplete tasks remain discoverable after crashes and    *)
(* model outages": a memory that lacks its vector gets it, or ceases to     *)
(* need it, although answers are limited, batches are lost and vectors are  *)
(* cleared; the durable table is the only queue.                            *)
MissingVectorsAreMade ==
  \A i \in Ids, ws \in Workspaces : i \in Missing(ws) ~> i \notin Missing(ws)
=============================================================================
