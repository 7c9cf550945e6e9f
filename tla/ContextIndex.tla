---------------------------- MODULE ContextIndex ----------------------------
(***************************************************************************)
(* What the semantic layer keeps beside the memories                        *)
(* (crates/kitt-memory-sqlite/src/semantic.rs): context nodes and how fresh *)
(* they are, the links of memories to nodes, and the sources of memories.   *)
(*                                                                          *)
(* Summaries are made outside: a summarizer reads a node and what is below  *)
(* it, has a model write a summary, and upserts the node, while others mark *)
(* the node dirty.  A node is its (namespace, workspace, path), a source    *)
(* its (kind, id, relationship, revision); texts and times are left out.    *)
(***************************************************************************)
EXTENDS Integers, FiniteSetsExt

CONSTANTS
  Memories,     \* ids of memories
  Paths,        \* identities of context nodes
  Summarizers,  \* processes that summarise nodes
  NodeRanks,    \* restriction ranks that they use
  Origins,      \* identities of sources
  Digests,      \* what a source may say
  Deltas,       \* child deltas of a mark
  MaxDirty,     \* 2^63 - 1 in the code
  Nothing       \* no row, no summary

VARIABLES
  stored,         \* memories that are in the table
  nodes,          \* context_nodes: path -> row or Nothing
  summaries,      \* summarizer -> the summary under way or Nothing
  context_links,  \* memory_context_links
  sources         \* memory_sources: <<memory, origin>> -> digest or Nothing

index == <<stored, nodes, summaries, context_links, sources>>

\* History: marked is the total of all marks, covered what that total was
\* when the present summary was begun, raced whether it grew until the upsert.
Node == [dirty: 0..MaxDirty, rank: NodeRanks,
         marked: Nat, covered: Nat, raced: BOOLEAN]

Summary == [path: Paths, seen: Nat]

ASSUME IndexAssumption == /\ NodeRanks \subseteq 0..4 /\ NodeRanks # {}
                          /\ Deltas \subseteq Nat
                          /\ MaxDirty \in Nat
                          /\ Nothing \notin Node \cup Summary \cup Digests

\* Nothing but a node of the lowest rank, as a first upsert leaves it.
IndexInit ==
  /\ stored = Memories
  /\ nodes \in [Paths -> {Nothing,
                         [dirty |-> 0, rank |-> Min(NodeRanks), marked |-> 0,
                          covered |-> 0, raced |-> FALSE]}]
  /\ summaries = [s \in Summarizers |-> Nothing]
  /\ context_links = {}
  /\ sources = [k \in Memories \X Origins |-> Nothing]

-----------------------------------------------------------------------------
(* Context nodes                                                            *)

Marked(p) == IF nodes[p] = Nothing THEN 0 ELSE nodes[p].marked

\* context_node and whatever else the summarizer reads.
BeginSummary(s, p) ==
  /\ summaries[s] = Nothing
  /\ summaries' = [summaries EXCEPT ![s] = [path |-> p, seen |-> Marked(p)]]
  /\ UNCHANGED <<stored, nodes, context_links, sources>>

\* The summarizer dies.
AbandonSummary(s) ==
  /\ summaries[s] # Nothing
  /\ summaries' = [summaries EXCEPT ![s] = Nothing]
  /\ UNCHANGED <<stored, nodes, context_links, sources>>

StricterRank(p, rank) ==
  IF nodes[p] = Nothing THEN rank ELSE Max({nodes[p].rank, rank})

UpsertContextNode(s, rank) ==
  LET p    == summaries[s].path
      seen == summaries[s].seen
  IN  /\ summaries[s] # Nothing
      /\ nodes' = [nodes EXCEPT ![p] =
           [dirty |-> 0, rank |-> StricterRank(p, rank),
            marked |-> Marked(p), covered |-> seen,
            raced |-> seen # Marked(p)]]
      /\ summaries' = [summaries EXCEPT ![s] = Nothing]
      /\ UNCHANGED <<stored, context_links, sources>>

\* Fault: the delta takes the place of what was counted before.
OnlyTheLast(dirty, delta) == Min({MaxDirty, delta})

Saturated(dirty, delta) == Min({MaxDirty, dirty + delta})

MarkContextDirty(p, delta) ==
  /\ nodes[p] # Nothing
  /\ nodes' = [nodes EXCEPT ![p].dirty = Saturated(@, delta),
                            ![p].marked = @ + delta]
  /\ UNCHANGED <<stored, summaries, context_links, sources>>

-----------------------------------------------------------------------------
(* What is kept of a memory                                                 *)

\* INSERT OR IGNORE; the foreign keys abort it for rows that do not exist.
LinkMemoryContext(m, p) ==
  /\ m \in stored
  /\ nodes[p] # Nothing
  /\ context_links' = context_links \cup {<<m, p>>}
  /\ UNCHANGED <<stored, nodes, summaries, sources>>

\* INSERT ... ON CONFLICT DO UPDATE: one row for each identity.
RecordSource(m, origin, digest) ==
  /\ m \in stored
  /\ sources' = [sources EXCEPT ![<<m, origin>>] = digest]
  /\ UNCHANGED <<stored, nodes, summaries, context_links>>

\* Fault: the sources of a deleted memory stay.
SourcesWithoutCascade(m) == sources

SourcesWithout(m) ==
  [k \in DOMAIN sources |-> IF k[1] = m THEN Nothing ELSE sources[k]]

\* A memory is erased (forget, prune_expired), and its rows here with it.
EraseMemory(m) ==
  /\ m \in stored
  /\ stored' = stored \ {m}
  /\ context_links' = {l \in context_links : l[1] # m}
  /\ sources' = SourcesWithout(m)
  /\ UNCHANGED <<nodes, summaries>>

-----------------------------------------------------------------------------
(* A node shows how much was marked since its summary was begun, up to      *)
(* saturation, unless marks came while the summary was made: those are lost *)
(* with the reset of the counter, and raced says so.                        *)
DirtyCountsAreExact ==
  \A p \in Paths :
    nodes[p] # Nothing =>
      LET missed == nodes[p].marked - nodes[p].covered
      IN  /\ missed >= 0
          /\ ~nodes[p].raced => nodes[p].dirty = Min({MaxDirty, missed})
          /\ nodes[p].dirty <= missed
=============================================================================
