----------------------------- MODULE Knowledge -----------------------------
(***************************************************************************)
(* Concepts, their links, and the bounded walk over them: upsert_concept,   *)
(* link_concepts and expand_concepts of crates/kitt-memory-sqlite/src/lib.rs *)
(* with the callers in core/src/knowledge.rs and manage.rs.                 *)
(*                                                                          *)
(* A writer is one section under the writer mutex, so one action.  The walk *)
(* holds no transaction: each of its SELECTs sees a snapshot of its own, and *)
(* writers come in between.                                                 *)
(*                                                                          *)
(* A concept is its identity (namespace, workspace, name); ids are drawn at *)
(* random, which leaves the order of a frontier open.  Relation, weight,    *)
(* labels, definition and confidence are left out: no step depends on them. *)
(***************************************************************************)
EXTENDS Integers, FiniteSets, FiniteSetsExt, Sequences, SequencesExt

CONSTANTS
  Concepts,   \* identities of concepts
  ScopeOf,    \* concept -> its (namespace, workspace)
  Claims,     \* the ranks and source memories that callers send
  Seeds,      \* the sets of seeds that callers start from
  Hops,       \* numbers of hops that they ask for, 0..4 in the code
  Limits,     \* limits that they ask for, 1..100 in the code
  NoConcept

VARIABLES
  concepts,   \* concept -> its row, or NoConcept
  links,      \* concept_links: pairs <<source, target>>
  walk        \* the reader that expands concepts

knowledge == <<concepts, links, walk>>

Concept == [rank: 0..4, sources: SUBSET UNION {claim.sources : claim \in Claims}]

ASSUME KnowledgeAssumption ==
  /\ IsFiniteSet(Concepts)
  /\ \A claim \in Claims : claim.rank \in 0..4
  /\ Seeds \subseteq (SUBSET Concepts) \ {{}}
  /\ Hops \subseteq Nat
  /\ Limits \subseteq Nat \ {0}
  /\ NoConcept \notin Concept

\* search_concept_neighborhood, the caller, starts from the best of a search,
\* so no seed is blank and the take(16) of expand_concepts drops none.
MaxSeeds == 8

ASSUME SeedsAssumption ==
  \A seeds \in Seeds : IsFiniteSet(seeds) /\ Cardinality(seeds) <= MaxSeeds

NoWalk == [stage |-> "none"]

Known == {c \in Concepts : concepts[c] # NoConcept}

KnowledgeInit ==
  /\ concepts = [c \in Concepts |-> NoConcept]
  /\ links = {}
  /\ walk = NoWalk

-----------------------------------------------------------------------------
(* Writers                                                                  *)

\* Fault: the row is replaced by what the caller sent.
Overwritten(row, claim) == claim

\* most_restrictive and merged_strings.
Merged(row, claim) == [rank    |-> Max({row.rank, claim.rank}),
                       sources |-> row.sources \cup claim.sources]

UpsertConcept(c, claim) ==
  /\ concepts' = [concepts EXCEPT ![c] =
       IF @ = NoConcept THEN claim ELSE Merged(@, claim)]
  /\ UNCHANGED <<links, walk>>

\* The endpoints are counted in the scope of the caller.
LinkConcepts(scope, c, d) ==
  /\ c # d
  /\ {c, d} \subseteq {e \in Known : ScopeOf[e] = scope}
  /\ links' = links \cup {<<c, d>>}
  /\ UNCHANGED <<concepts, walk>>

-----------------------------------------------------------------------------
(* expand_concepts                                                          *)

\* links and concepts of the start are history.
StartWalk(scope, seeds, hops, limit) ==
  /\ walk.stage = "none"
  /\ walk' = [stage |-> "load", scope |-> scope, limit |-> limit,
              hops |-> hops, seeds |-> seeds, round |-> 0,
              frontier |-> seeds, visited |-> {}, answer |-> <<>>,
              known |-> Known, links |-> links]
  /\ UNCHANGED <<concepts, links>>

\* frontier.retain: what no earlier round visited.
Fresh == walk.frontier \ walk.visited

\* Fault: 0..max_hops.
LastRoundExcluded == walk.round >= walk.hops

\* 0..=max_hops.
LastRoundDone == walk.round > walk.hops

Ended == LastRoundDone \/ Fresh = {} \/ Len(walk.answer) >= walk.limit

\* SELECT ... FROM concepts: the rows of the scope, as many as are wanted.
LoadFrontier ==
  /\ walk.stage = "load"
  /\ IF Ended
     THEN walk' = [walk EXCEPT !.stage = "answered"]
     ELSE LET rows   == {c \in Fresh \cap Known : ScopeOf[c] = walk.scope}
              wanted == walk.limit - Len(walk.answer)
          IN  \E taken \in kSubset(Min({wanted, Cardinality(rows)}), rows) :
                walk' = [walk EXCEPT
                  !.visited = @ \cup Fresh,
                  !.frontier = Fresh,
                  !.answer = @ \o SetToSeq(taken),
                  !.stage = IF Cardinality(taken) = wanted
                            THEN "answered" ELSE "edges"]
  /\ UNCHANGED <<concepts, links>>

\* Links are followed both ways.
NeighboursOf(nodes, edges) ==
  {e[2] : e \in {f \in edges : f[1] \in nodes}} \cup
  {e[1] : e \in {f \in edges : f[2] \in nodes}}

\* The links of a scope; both ends of a link are in it.
LinksIn(scope, edges) == {e \in edges : ScopeOf[e[1]] = scope}

\* SELECT ... FROM concept_links.
ReadLinks ==
  /\ walk.stage = "edges"
  /\ walk' = [walk EXCEPT
       !.stage = "load",
       !.round = @ + 1,
       !.frontier = NeighboursOf(@, LinksIn(walk.scope, links))
                      \ walk.visited]
  /\ UNCHANGED <<concepts, links>>

Answer ==
  /\ walk.stage = "answered"
  /\ walk' = NoWalk
  /\ UNCHANGED <<concepts, links>>

WalkStep == LoadFrontier \/ ReadLinks \/ Answer

-----------------------------------------------------------------------------
(* What an expansion promises                                               *)

\* The concepts within k links of the seeds, by plain breadth-first search.
Ball(seeds, edges, k) ==
  LET ball[n \in 0..k] ==
        IF n = 0 THEN seeds
        ELSE ball[n - 1] \cup
             {c \in Concepts : \E b \in ball[n - 1] :
                                 <<b, c>> \in edges \/ <<c, b>> \in edges}
  IN  ball[k]

(* Although it reads a graph that grows under it, an answered walk names    *)
(* each concept once, at most limit of them, and none but those of the      *)
(* scope that are within its hops now; unless the limit cut it short it has *)
(* all that were within its hops when it began; and it prefers near ones:   *)
(* none is named before every concept that was nearer at the beginning.     *)
ExpansionsAreExact ==
  walk.stage = "answered" =>
    LET Then(k) == Ball({c \in walk.seeds \cap walk.known :
                           ScopeOf[c] = walk.scope}, walk.links, k)
        Now(k)  == Ball({c \in walk.seeds \cap Known :
                           ScopeOf[c] = walk.scope}, links, k)
        named   == ToSet(walk.answer)
    IN  /\ IsInjective(walk.answer)
        /\ Len(walk.answer) <= walk.limit
        /\ named \subseteq Now(walk.hops)
        /\ Len(walk.answer) < walk.limit => Then(walk.hops) \subseteq named
        /\ \A k \in 0..walk.hops - 1 :
             named \subseteq Now(k) \/ Then(k) \subseteq named
=============================================================================
