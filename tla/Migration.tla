------------------------------ MODULE Migration ------------------------------
(***************************************************************************)
(* The opening of a store that an older version left behind: migrate        *)
(* (crates/kitt-memory-sqlite/src/lib.rs), one IMMEDIATE transaction that   *)
(* commits as a whole or leaves the older store as it was, followed by the  *)
(* operations of MemoryStore.                                               *)
(*                                                                          *)
(* legacy is the table memories under the older schema, memories the table  *)
(* from schema 10 on; a transaction moves the rows from one to the other.   *)
(* The place of a legacy row is the one that version 4 gives it: a global   *)
(* row belonged to any workspace before, and only its scope tells.  Its     *)
(* content is the hash under the older normalization, which version 9       *)
(* computes again, so that two old contents may become one.                 *)
(* DDL, FTS tables and gists are left out.                                  *)
(***************************************************************************)
EXTENDS MemoryStore, FiniteSets

CONSTANTS
  LegacyContents, \* (kind, content hash) pairs under the older normalization
  Rehash,         \* the content that version 9 makes of an older one
  Versions,       \* versions of the stores that are opened
  LegacyTables,   \* their tables
  LegacyRevisions \* the counters of those that have them, since version 9

VARIABLES
  version,        \* schema_info.version
  legacy          \* the table before the upgrade: id -> row or NoMemory

store == <<memories, baseline_revisions, now, version, legacy>>

SchemaVersion == 10

LegacyMemory == [place: Places, content: LegacyContents, status: Statuses,
                 rank: 0..Ephemeral, pinned: BOOLEAN,
                 from: Instants, until: 0..Forever]

ASSUME LegacyAssumption ==
  /\ Versions \subseteq 1..SchemaVersion - 1
  /\ Rehash \in [LegacyContents -> Contents]
  /\ LegacyTables \subseteq [Ids -> LegacyMemory \cup {NoMemory}]
  /\ LegacyRevisions \subseteq [Places -> Nat]
  /\ IsFiniteSet(Ids)
  /\ NoMemory \notin LegacyMemory

Opened == version = SchemaVersion

-----------------------------------------------------------------------------
(* The steps of the transaction that rewrite rows                           *)

Present(table)    == {i \in Ids : table[i] # NoMemory}
ActiveIn(table)   == {i \in Present(table) : table[i].status = "ACTIVE"}
Group(table, i)   == {j \in ActiveIn(table) :
                        /\ table[j].place = table[i].place
                        /\ table[j].content = table[i].content}

\* The order of importance, updated_at and id is some total order of the rows.
Orders == {f \in [Ids -> 1..Cardinality(Ids)] :
             \A i, j \in Ids : f[i] = f[j] => i = j}

\* FIRST_VALUE ... ORDER BY pinned DESC, then that order.
Keeper(table, i, order) ==
  CHOOSE k \in Group(table, i) : \A j \in Group(table, i) \ {k} :
    \/ table[k].pinned /\ ~table[j].pinned
    \/ table[k].pinned = table[j].pinned /\ order[k] < order[j]

Losers(table, order) ==
  {i \in ActiveIn(table) : Keeper(table, i, order) # i}

\* Version 4: one active row of each global content stays, as it is.
GlobalsMerged(table, order) ==
  [i \in Ids |->
     IF i \in Losers(table, order) /\ table[i].place = <<Global, NoKey>>
     THEN Retired(table[i], "SUPERSEDED", now) ELSE table[i]]

\* Version 9: hashes are computed again from the text.
Rehashed(table) ==
  [i \in Ids |-> IF table[i] = NoMemory THEN NoMemory
                 ELSE [table[i] EXCEPT !.content = Rehash[@]]]

\* Fault: the row that stays keeps its own sensitivity, as in version 4.
IdentitiesMergedAsTheyAre(table, order) ==
  [i \in Ids |-> IF i \in Losers(table, order)
                 THEN Retired(table[i], "SUPERSEDED", now) ELSE table[i]]

\* Version 9: one active row of each identity stays, under the highest rank.
IdentitiesMerged(table, order) ==
  [i \in Ids |->
     IF i \in Losers(table, order) THEN Retired(table[i], "SUPERSEDED", now)
     ELSE IF i \in ActiveIn(table)
          THEN [table[i] EXCEPT !.rank = CHOOSE r \in 0..Ephemeral :
                  /\ \E j \in Group(table, i) : table[j].rank = r
                  /\ \A j \in Group(table, i) : table[j].rank <= r]
          ELSE table[i]]

\* The rehash updates every row, so memories_validate_update sees every row.
Valid(table) == \A i \in Present(table) : IntervalOK(table[i])

(* An older store has the unique index since version 4, and the hashes of   *)
(* today, valid intervals and counters of its places since version 9.       *)
MigrationInit ==
  /\ memories = [i \in Ids |-> NoMemory]
  /\ now = 0
  /\ version \in Versions
  /\ legacy \in LegacyTables
  /\ baseline_revisions \in
       IF version >= 9 THEN LegacyRevisions ELSE {[p \in Places |-> 0]}
  /\ version >= 4 => UniqueIn(legacy)
  /\ version >= 9 => /\ legacy = Rehashed(legacy) /\ Valid(legacy)
                     /\ \A i \in Present(legacy) :
                          baseline_revisions[legacy[i].place] > 0

-----------------------------------------------------------------------------
(* migrate.  A row that would end before it starts, or an identity that is  *)
(* still double when the index is created, aborts the transaction: then     *)
(* open fails, and nothing has changed.                                     *)
Open(order) ==
  LET first  == IF version < 4 THEN GlobalsMerged(legacy, order) ELSE legacy
      second == IF version < 9 THEN IdentitiesMerged(Rehashed(first), order)
                               ELSE Rehashed(first)
  IN  /\ ~Opened
      /\ UniqueIn(first)
      /\ version < 9 => Valid(first) /\ Valid(second)
      /\ memories' = second
      /\ baseline_revisions' =
           IF version < 9
           THEN [p \in Places |->
                   IF \E i \in Present(second) : second[i].place = p THEN 1 ELSE 0]
           ELSE baseline_revisions
      /\ version' = SchemaVersion
      /\ legacy' = [i \in Ids |-> NoMemory]
      /\ UNCHANGED now

\* The clock does not wait for the store to open.
MigrationNext ==
  \/ \E order \in Orders : Open(order)
  \/ Opened /\ Next /\ UNCHANGED <<version, legacy>>
  \/ ~Opened /\ Tick /\ UNCHANGED <<version, legacy>>

-----------------------------------------------------------------------------
(* Properties                                                               *)

MigrationTypeOK ==
  /\ TypeOK
  /\ version \in Versions \cup {SchemaVersion}
  /\ legacy \in [Ids -> LegacyMemory \cup {NoMemory}]

(* COMPATIBILITY.md, "resolves any newly colliding active identities        *)
(* without deleting historical rows. Duplicate resolution preserves the     *)
(* most restrictive sensitivity": the upgrade keeps every row; each row     *)
(* that was active is afterwards told by exactly one active row, which is   *)
(* no less restricted; and no row ends before it starts.  The global rows   *)
(* of a store older than version 4 are the exception for the sensitivity:   *)
(* that version merges them without looking at it.                          *)
UpgradeMergesDuplicates ==
  [][version' # version =>
       /\ Present(memories') = Present(legacy)
       /\ \A i \in ActiveIn(legacy) :
            LET heirs == {k \in ActiveIn(memories') :
                            /\ memories'[k].place = legacy[i].place
                            /\ memories'[k].content = Rehash[legacy[i].content]}
            IN  /\ Cardinality(heirs) = 1
                /\ \A k \in heirs : \/ memories'[k].rank >= legacy[i].rank
                                    \/ /\ version < 4
                                       /\ legacy[i].place = <<Global, NoKey>>
       /\ \A i \in Present(memories') :
            memories'[i].from <= memories'[i].until]_store
=============================================================================
