--------------------------- MODULE SemanticLayer ---------------------------
(***************************************************************************)
(* The semantic layer as its clients see it: concepts (Knowledge) and the   *)
(* context index (ContextIndex) written side by side while a reader walks   *)
(* the concepts, over a store that was in use before.                       *)
(***************************************************************************)
EXTENDS Knowledge, ContextIndex

CONSTANTS
  Graphs,     \* sets of links between the concepts known at the start
  MaxWrites,  \* bound on the writes
  MaxReaders  \* bound on the walks and summaries under way

VARIABLE writes

vars == <<knowledge, index, writes>>

ASSUME LayerAssumption ==
  /\ Claims \subseteq [rank: 0..4, sources: SUBSET Memories]
  /\ {MaxWrites, MaxReaders} \subseteq Nat
  /\ \A graph \in Graphs : \A l \in graph :
       /\ l \in Concepts \X Concepts
       /\ l[1] # l[2] /\ ScopeOf[l[1]] = ScopeOf[l[2]]

\* A reopened store: every end of a link is a concept, some nodes are fresh.
Init ==
  /\ IndexInit
  /\ links \in Graphs
  /\ concepts = [c \in Concepts |->
       IF \E l \in links : c \in {l[1], l[2]}
       THEN [rank |-> 1, sources |-> {}] ELSE NoConcept]
  /\ walk = NoWalk
  /\ writes = 0

KnowledgeWrite ==
  \/ \E c \in Concepts, claim \in Claims : UpsertConcept(c, claim)
  \/ \E c, d \in Concepts : LinkConcepts(ScopeOf[c], c, d)

IndexWrite ==
  \/ \E s \in Summarizers, rank \in NodeRanks : UpsertContextNode(s, rank)
  \/ \E p \in Paths, delta \in Deltas : MarkContextDirty(p, delta)
  \/ \E m \in Memories, p \in Paths : LinkMemoryContext(m, p)
  \/ \E m \in Memories, o \in Origins, d \in Digests : RecordSource(m, o, d)
  \/ \E m \in Memories : EraseMemory(m)

Readers == Cardinality({s \in Summarizers : summaries[s] # Nothing}) +
           (IF walk = NoWalk THEN 0 ELSE 1)

KnowledgeRead ==
  \/ /\ Readers < MaxReaders
     /\ \E c \in Concepts, seeds \in Seeds, hops \in Hops,
          limit \in Limits : StartWalk(ScopeOf[c], seeds, hops, limit)
  \/ LoadFrontier
  \/ ReadLinks
  \/ Answer

IndexRead ==
  \/ /\ Readers < MaxReaders
     /\ \E s \in Summarizers, p \in Paths : BeginSummary(s, p)
  \/ \E s \in Summarizers : AbandonSummary(s)

Next ==
  \/ /\ writes < MaxWrites /\ writes' = writes + 1
     /\ \/ KnowledgeWrite /\ UNCHANGED index
        \/ IndexWrite /\ UNCHANGED knowledge
  \/ KnowledgeRead /\ UNCHANGED <<index, writes>>
  \/ IndexRead /\ UNCHANGED <<knowledge, writes>>

Spec == Init /\ [][Next]_vars

-----------------------------------------------------------------------------
(* Types; a link joins two different known concepts of one scope; what is   *)
(* kept of a memory is kept of a stored one, and a linked node exists.      *)
TypeOK ==
  /\ concepts \in [Concepts -> Concept \cup {NoConcept}]
  /\ \A l \in links : /\ l \in Known \X Known
                      /\ l[1] # l[2]
                      /\ ScopeOf[l[1]] = ScopeOf[l[2]]
  /\ walk.stage \in {"none", "load", "edges", "answered"}
  /\ nodes \in [Paths -> Node \cup {Nothing}]
  /\ summaries \in [Summarizers -> Summary \cup {Nothing}]
  /\ stored \subseteq Memories
  /\ context_links \subseteq {l \in stored \X Paths : nodes[l[2]] # Nothing}
  /\ sources \in [Memories \X Origins -> Digests \cup {Nothing}]
  /\ \A k \in DOMAIN sources : sources[k] # Nothing => k[1] \in stored

\* A step that lowers no rank and drops nothing.
KeepsProvenance ==
  /\ \A c \in Known : /\ concepts'[c].rank >= concepts[c].rank
                      /\ concepts[c].sources \subseteq concepts'[c].sources
  /\ links \subseteq links'
  /\ \A p \in Paths : nodes[p] # Nothing => nodes'[p].rank >= nodes[p].rank
  /\ \A l \in context_links : l \in context_links' \/ l[1] \notin stored'
  /\ \A k \in DOMAIN sources :
       sources[k] # Nothing /\ k[1] \in stored' => sources'[k] # Nothing

(* Sensitivity and provenance are kept: no write lowers the rank of a       *)
(* concept or of a node or drops a source that a concept names, whether or  *)
(* not the memory still exists; links of concepts stay; and the sources and *)
(* the context of a memory go only with it.                                 *)
ProvenanceIsKept == [][KeepsProvenance]_vars
=============================================================================
