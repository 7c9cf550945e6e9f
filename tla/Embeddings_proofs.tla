-------------------------- MODULE Embeddings_proofs --------------------------
(* What Migration and Embeddings promise, for any older table and version,  *)
(* any order of the rows, any number of embedders and any limit.            *)
EXTENDS Embeddings, MemoryStore_proofs, FiniteSetTheorems,
        WellFoundedInduction

-----------------------------------------------------------------------------
(* The tables that the transaction goes through                             *)

Row  == [place: Places, content: LegacyContents \cup Contents, status: Statuses,
         rank: 0..Ephemeral, pinned: BOOLEAN,
         from: Instants, until: 0..Forever]

Tables == [Ids -> Row \cup {NoMemory}]

(* A set of numbers that is not empty has a least one.                      *)
LEMMA LeastNumber ==
  ASSUME NEW S \in SUBSET Nat, S # {}
  PROVE  \E x \in S : \A y \in S : x <= y
<1> DEFINE R == OpToRel(<, Nat)
<1>1. IsWellFoundedOn(R, Nat)
  BY NatLessThanWellFounded
<1>2. \A x, y \in Nat : <<y, x>> \in R <=> y < x
  BY DEF OpToRel
<1> HIDE DEF R
<1>3. PICK x \in S : \A y \in S : ~(<<y, x>> \in R)
  BY <1>1, WFMin
<1>4. \A y \in S : ~(y < x)
  BY <1>2, <1>3
<1>5. \A y \in S : x \in Nat /\ y \in Nat
  OBVIOUS
<1> QED
  BY <1>4, <1>5

(* A set of restriction ranks that is not empty has a highest one.          *)
LEMMA HighestRank ==
  ASSUME NEW S \in SUBSET (0..Ephemeral), S # {}
  PROVE  \E r \in 0..Ephemeral : r \in S /\ \A y \in S : y <= r
<1>0. \A y \in S : y \in {0, 1, 2, 3, 4}
  BY DEF Ephemeral
<1>1. CASE 4 \in S
  BY <1>0, <1>1 DEF Ephemeral
<1>2. CASE 4 \notin S /\ 3 \in S
  BY <1>0, <1>2 DEF Ephemeral
<1>3. CASE 4 \notin S /\ 3 \notin S /\ 2 \in S
  BY <1>0, <1>3 DEF Ephemeral
<1>4. CASE 4 \notin S /\ 3 \notin S /\ 2 \notin S /\ 1 \in S
  BY <1>0, <1>4 DEF Ephemeral
<1>5. CASE \A y \in S : y = 0
  <2>1. 0 \in S
    BY <1>5
  <2>2. 0 \in 0..Ephemeral /\ \A y \in S : y <= 0
    BY <1>5 DEF Ephemeral
  <2> QED
    BY <2>1, <2>2
<1> QED
  BY <1>0, <1>1, <1>2, <1>3, <1>4, <1>5

(* Every active row has a keeper among the active rows of its identity, and *)
(* all of them have the same.                                               *)
LEMMA KeeperFacts ==
  ASSUME NEW table \in Tables, NEW order \in Orders, NEW i \in ActiveIn(table)
  PROVE  /\ Keeper(table, i, order) \in Group(table, i)
         /\ \A j \in Group(table, i) :
              Keeper(table, j, order) = Keeper(table, i, order)
<1> DEFINE G == Group(table, i)
           P == IF \E k \in G : table[k].pinned
                THEN {k \in G : table[k].pinned} ELSE G
<1>1. i \in G /\ G \subseteq Ids /\ G \subseteq ActiveIn(table)
  BY DEF Group, ActiveIn, Present
<1>2. P # {} /\ P \subseteq G
  BY <1>1
<1>3. \A k \in Ids : order[k] \in Nat
  <2>1. Cardinality(Ids) \in Nat
    BY LegacyAssumption, FS_CardinalityType
  <2> QED
    BY <2>1 DEF Orders
<1>4. PICK k \in P : \A j \in P : order[k] <= order[j]
  <2> DEFINE S == {order[k] : k \in P}
  <2>1. S \in SUBSET Nat /\ S # {}
    BY <1>1, <1>2, <1>3
  <2>2. PICK x \in S : \A y \in S : x <= y
    <3> HIDE DEF S
    <3> QED
      BY <2>1, LeastNumber
  <2> QED
    BY <2>2
<1>5. \A j \in G \ {k} : order[k] # order[j]
  BY <1>1, <1>2 DEF Orders
<1>6. ASSUME NEW j \in G \ {k}
      PROVE  \/ table[k].pinned /\ ~table[j].pinned
             \/ table[k].pinned = table[j].pinned /\ order[k] < order[j]
  <2>1. CASE j \in P
    <3>1. order[k] < order[j]
      BY <1>1, <1>2, <1>3, <1>4, <1>5, <2>1
    <3>2. table[k].pinned = table[j].pinned
      <4>1. table[k].pinned \in BOOLEAN /\ table[j].pinned \in BOOLEAN
        BY <1>1, <1>2 DEF Tables, Row, ActiveIn, Present
      <4> QED
        BY <1>2, <2>1, <4>1
    <3> QED
      BY <3>1, <3>2
  <2>2. CASE j \notin P
    BY <1>2, <2>2
  <2> QED
    BY <2>1, <2>2
<1>7. Keeper(table, i, order) \in G
  BY <1>2, <1>6 DEF Keeper
<1>8. ASSUME NEW j \in G
      PROVE  Keeper(table, j, order) = Keeper(table, i, order)
  <2>1. Group(table, j) = G
    BY <1>1 DEF Group
  <2> QED
    BY <2>1 DEF Keeper
<1> QED
  BY <1>7, <1>8

(* What a rewrite of a table keeps: which rows there are, their places, and *)
(* that no row becomes active.                                              *)
Rewrites(table, new) ==
  /\ new \in Tables
  /\ Present(new) = Present(table)
  /\ ActiveIn(new) \subseteq ActiveIn(table)
  /\ \A i \in Present(table) : new[i].place = table[i].place

(* A row is of the older schema or of today's, and is never the mark of a   *)
(* missing one.                                                             *)
LEMMA RowsAreRows == Row = LegacyMemory \cup Memory /\ NoMemory \notin Row
<1>1. Row = LegacyMemory \cup Memory
  BY DEF Row, LegacyMemory, Memory
<1> QED
  BY <1>1, LegacyAssumption, NamesAssumption

(* A retired row is a row, superseded, in its place.                        *)
LEMMA RetiredRow ==
  ASSUME now \in Instants, NEW r \in Row
  PROVE  /\ Retired(r, "SUPERSEDED", now) \in Row
         /\ Retired(r, "SUPERSEDED", now).status = "SUPERSEDED"
         /\ Retired(r, "SUPERSEDED", now).place = r.place
         /\ Retired(r, "SUPERSEDED", now).content = r.content
<1>1. now \in 0..Forever
  BY BoundsAssumption DEF Instants, Forever
<1>2. Lower(r.until, now) \in 0..Forever
  BY <1>1 DEF Lower, Row
<1> QED
  BY <1>2 DEF Retired, Row, Statuses

(* Version 4 leaves an active row of each identity, as restricted as those  *)
(* it stands for unless they are global.                                    *)
LEMMA GlobalsMergedFacts ==
  ASSUME now \in Instants, NEW table \in Tables, NEW order \in Orders
  PROVE  LET new == GlobalsMerged(table, order)
         IN  /\ Rewrites(table, new)
             /\ \A i \in Present(new) : new[i].content = table[i].content
             /\ \A i \in ActiveIn(table) : \E h \in ActiveIn(new) :
                  /\ new[h].place = table[i].place
                  /\ new[h].content = table[i].content
                  /\ \/ new[h].rank >= table[i].rank
                     \/ table[i].place = <<Global, NoKey>>
<1> DEFINE new == GlobalsMerged(table, order)
           L == {i \in Losers(table, order) :
                   table[i].place = <<Global, NoKey>>}
<1>0. L \subseteq ActiveIn(table) /\ ActiveIn(table) \subseteq Ids
  BY DEF Losers, ActiveIn, Present
<1>1. \A i \in Ids : i \in L => new[i] = Retired(table[i], "SUPERSEDED", now)
  BY DEF GlobalsMerged
<1>2. \A i \in Ids : i \notin L => new[i] = table[i]
  BY DEF GlobalsMerged
<1>3. \A i \in L : table[i] \in Row
  BY <1>0 DEF Tables, ActiveIn, Present
<1>4. \A i \in Ids : i \in L =>
        /\ new[i] \in Row
        /\ new[i].status = "SUPERSEDED"
        /\ new[i].place = table[i].place
        /\ new[i].content = table[i].content
  <2> HIDE DEF new, L
  <2> QED
    BY <1>1, <1>3, RetiredRow
<1>5. new \in Tables
  <2>1. new = [i \in Ids |-> new[i]]
    BY DEF GlobalsMerged
  <2>2. \A i \in Ids : new[i] \in Row \cup {NoMemory}
    BY <1>2, <1>4 DEF Tables
  <2> HIDE DEF new
  <2> QED
    BY <2>1, <2>2 DEF Tables
<1> HIDE DEF new, L
<1>6. Present(new) = Present(table)
  BY <1>0, <1>2, <1>4, RowsAreRows DEF Present, ActiveIn
<1>7. Rewrites(table, new)
  <2>1. ActiveIn(new) \subseteq ActiveIn(table)
    BY <1>2, <1>4, <1>6 DEF ActiveIn, Present
  <2>2. \A i \in Present(table) : new[i].place = table[i].place
    BY <1>2, <1>4 DEF Present
  <2> QED
    BY <1>5, <1>6, <2>1, <2>2 DEF Rewrites
<1>8. \A i \in Present(new) : new[i].content = table[i].content
  BY <1>2, <1>4 DEF Present
<1>9. ASSUME NEW i \in ActiveIn(table)
      PROVE  \E h \in ActiveIn(new) :
                  /\ new[h].place = table[i].place
                  /\ new[h].content = table[i].content
                  /\ \/ new[h].rank >= table[i].rank
                     \/ table[i].place = <<Global, NoKey>>
  <2>1. CASE i \notin L
    <3>1. new[i] = table[i] /\ i \in ActiveIn(new)
      BY <1>0, <1>2, <2>1 DEF ActiveIn, Present
    <3>2. table[i].rank \in Int
      BY DEF Tables, Row, ActiveIn, Present, Ephemeral
    <3> QED
      BY <3>1, <3>2
  <2>2. CASE i \in L
    <3> DEFINE k == Keeper(table, i, order)
    <3>1. k \in Group(table, i) /\ Keeper(table, k, order) = k
      BY KeeperFacts
    <3>2. k \in ActiveIn(table) /\ k \notin L
      BY <3>1 DEF Group, Losers, L
    <3>3. new[k] = table[k] /\ k \in ActiveIn(new)
      BY <1>0, <1>2, <3>2 DEF ActiveIn, Present
    <3>4. table[i].place = <<Global, NoKey>>
      BY <2>2 DEF L
    <3> QED
      BY <3>1, <3>3, <3>4 DEF Group
  <2> QED
    BY <2>1, <2>2
<1> QED
  BY <1>7, <1>8, <1>9 DEF new

(* Rows keep their rank and their status under the new hashes.              *)
LEMMA RehashedFacts ==
  ASSUME NEW table \in [Ids -> LegacyMemory \cup {NoMemory}]
  PROVE  LET new == Rehashed(table)
         IN  /\ Rewrites(table, new)
             /\ ActiveIn(new) = ActiveIn(table)
             /\ \A i \in Present(table) :
                  /\ new[i].content = Rehash[table[i].content]
                  /\ new[i].rank = table[i].rank
<1> DEFINE new == Rehashed(table)
<1>1. ASSUME NEW i \in Ids, table[i] # NoMemory
      PROVE  /\ new[i] \in Row
             /\ new[i].content = Rehash[table[i].content]
             /\ new[i].rank = table[i].rank
             /\ new[i].place = table[i].place
             /\ new[i].status = table[i].status
  <2>1. table[i] \in LegacyMemory
    BY <1>1
  <2>2. new[i] = [table[i] EXCEPT !.content = Rehash[@]]
    BY <1>1 DEF Rehashed
  <2>3. Rehash[table[i].content] \in Contents
    BY <2>1, LegacyAssumption DEF LegacyMemory
  <2> HIDE DEF new
  <2> QED
    BY <2>1, <2>2, <2>3 DEF LegacyMemory, Row
<1>2. \A i \in Ids : table[i] = NoMemory => new[i] = NoMemory
  BY DEF Rehashed
<1>3. new = [i \in Ids |-> new[i]]
  BY DEF Rehashed
<1> HIDE DEF new
<1>4. new \in Tables
  BY <1>1, <1>2, <1>3 DEF Tables
<1>5. Present(new) = Present(table)
  BY <1>1, <1>2, RowsAreRows DEF Present
<1>6. ActiveIn(new) = ActiveIn(table)
  BY <1>1, <1>5 DEF ActiveIn, Present
<1>7. \A i \in Present(table) : new[i].place = table[i].place
  BY <1>1 DEF Present
<1>8. Rewrites(table, new)
  BY <1>4, <1>5, <1>6, <1>7 DEF Rewrites
<1> QED
  BY <1>1, <1>6, <1>8 DEF Present, new

(* Version 9 leaves exactly one active row of each identity, at least as    *)
(* restricted as any of them.                                               *)
LEMMA IdentitiesMergedFacts ==
  ASSUME now \in Instants, NEW table \in Tables, NEW order \in Orders
  PROVE  LET new == IdentitiesMerged(table, order)
         IN  /\ Rewrites(table, new)
             /\ \A i \in Present(new) : new[i].content = table[i].content
             /\ \A i \in ActiveIn(table) : \E h \in ActiveIn(new) :
                  /\ {k \in ActiveIn(new) :
                        /\ new[k].place = table[i].place
                        /\ new[k].content = table[i].content} = {h}
                  /\ new[h].rank >= table[i].rank
<1> DEFINE new == IdentitiesMerged(table, order)
           L == Losers(table, order)
           A == ActiveIn(table)
           rank(i) == CHOOSE r \in 0..Ephemeral :
                        /\ \E j \in Group(table, i) : table[j].rank = r
                        /\ \A j \in Group(table, i) : table[j].rank <= r
<1>0. L \subseteq A /\ A \subseteq Ids /\ \A i \in A : table[i] \in Row
  BY DEF Losers, ActiveIn, Present, Tables
<1>1. \A i \in Ids : i \in L => new[i] = Retired(table[i], "SUPERSEDED", now)
  BY DEF IdentitiesMerged
<1>2. \A i \in Ids : i \in A \ L => new[i] = [table[i] EXCEPT !.rank = rank(i)]
  BY DEF IdentitiesMerged
<1>3. \A i \in Ids : i \notin A => new[i] = table[i]
  BY <1>0 DEF IdentitiesMerged
<1>4. ASSUME NEW i \in A
      PROVE  /\ rank(i) \in 0..Ephemeral
             /\ \A j \in Group(table, i) : table[j].rank <= rank(i)
  <2> DEFINE S == {table[j].rank : j \in Group(table, i)}
  <2>1. S \in SUBSET (0..Ephemeral) /\ S # {}
    BY <1>0 DEF Group, Row
  <2>2. PICK r \in 0..Ephemeral : r \in S /\ \A y \in S : y <= r
    <3> HIDE DEF S
    <3> QED
      BY <2>1, HighestRank
  <2>3. \E j \in Group(table, i) : table[j].rank = r
    BY <2>2
  <2>4. \A j \in Group(table, i) : table[j].rank <= r
    BY <2>2
  <2> QED
    BY <2>3, <2>4
<1>5. \A i \in L : /\ new[i] \in Row
                   /\ new[i].status = "SUPERSEDED"
                   /\ new[i].place = table[i].place
                   /\ new[i].content = table[i].content
  <2> HIDE DEF new, L, rank
  <2>1. \A i \in L : /\ table[i] \in Row
                     /\ new[i] = Retired(table[i], "SUPERSEDED", now)
    BY <1>0, <1>1
  <2> HIDE <1>0, <1>1
  <2> QED
    BY <2>1, RetiredRow
<1>6. ASSUME NEW i \in A \ L
      PROVE  /\ new[i] \in Row
             /\ new[i].status = table[i].status
             /\ new[i].place = table[i].place
             /\ new[i].content = table[i].content
             /\ new[i].rank = rank(i)
  <2>1. new[i] = [table[i] EXCEPT !.rank = rank(i)] /\ table[i] \in Row
    BY <1>0, <1>2
  <2>2. rank(i) \in 0..Ephemeral
    BY <1>4
  <2> HIDE DEF new, rank
  <2> QED
    BY <2>1, <2>2 DEF Row
<1>7. new = [i \in Ids |-> new[i]]
  BY DEF IdentitiesMerged
<1> HIDE DEF new, L, rank
<1>8. new \in Tables
  BY <1>3, <1>5, <1>6, <1>7 DEF Tables
<1>9. Present(new) = Present(table)
  BY <1>0, <1>3, <1>5, <1>6, RowsAreRows DEF Present, ActiveIn
<1>10. ActiveIn(new) = A \ L
  BY <1>0, <1>3, <1>5, <1>6, <1>9 DEF ActiveIn, Present
<1>11. \A i \in Present(table) : new[i].place = table[i].place
  BY <1>3, <1>5, <1>6 DEF Present
<1>12. Rewrites(table, new)
  BY <1>8, <1>9, <1>10, <1>11 DEF Rewrites
<1>13. ASSUME NEW i \in A
       PROVE  \E h \in ActiveIn(new) :
                  /\ {k \in ActiveIn(new) :
                        /\ new[k].place = table[i].place
                        /\ new[k].content = table[i].content} = {h}
                  /\ new[h].rank >= table[i].rank
  <2> DEFINE h == Keeper(table, i, order)
  <2>1. /\ h \in Group(table, i)
        /\ \A j \in Group(table, i) : Keeper(table, j, order) = h
    BY KeeperFacts
  <2> HIDE DEF h
  <2>2. h \in A \ L /\ Group(table, h) = Group(table, i)
    BY <2>1 DEF Group, L, Losers
  <2>3. \A k \in A \ L : Keeper(table, k, order) = k
    BY DEF L, Losers
  <2>4. {k \in ActiveIn(new) : /\ new[k].place = table[i].place
                              /\ new[k].content = table[i].content} = {h}
    BY <1>6, <1>10, <2>1, <2>2, <2>3 DEF Group
  <2>5. i \in Group(table, h)
    BY <2>2 DEF Group
  <2>6. new[h].rank >= table[i].rank
    BY <1>0, <1>4, <1>6, <2>2, <2>5 DEF Ephemeral, Row
  <2> QED
    BY <1>10, <2>2, <2>4, <2>6
<1>14. \A i \in Present(new) : new[i].content = table[i].content
  BY <1>3, <1>5, <1>6 DEF Present
<1> QED
  BY <1>12, <1>13, <1>14 DEF new

-----------------------------------------------------------------------------
(* The upgrade                                                              *)

(* What is known of a store that is not opened yet.                         *)
LegacyOK ==
  ~Opened => /\ now \in Instants
             /\ version \in Versions
             /\ legacy \in [Ids -> LegacyMemory \cup {NoMemory}]
             /\ version >= 9 => legacy = Rehashed(legacy) /\ Valid(legacy)

(* Versions are numbers.                                                    *)
LEMMA VersionNumbers == \A v \in Versions : v \in Int
<1> Versions \subseteq 1..9
  BY LegacyAssumption DEF SchemaVersion
<1> QED
  OBVIOUS

(* An older store is as its version left it.                                *)
LEMMA LegacyOKInit == EmbeddingInit => LegacyOK
BY LegacyAssumption, BoundsAssumption
   DEF EmbeddingInit, MigrationInit, LegacyOK, Instants

(* Only the clock moves before the store is opened.                         *)
LEMMA LegacyOKNext ==
  LegacyOK /\ [EmbeddingNext]_<<store, embedding>> => LegacyOK'
<1> SUFFICES ASSUME LegacyOK, [EmbeddingNext]_<<store, embedding>>
             PROVE  LegacyOK'
  OBVIOUS
<1>1. CASE UNCHANGED store
  <2>1. Opened' = Opened
    BY <1>1 DEF Opened, store
  <2> QED
    BY <1>1, <2>1 DEF LegacyOK, store, Rehashed, Valid, Present, IntervalOK
<1>2. CASE MigrationNext
  <2>1. CASE Opened /\ version' = version
    BY <2>1 DEF Opened, LegacyOK
  <2>2. CASE \E order \in Orders : Open(order)
    BY <2>2 DEF Open, Opened, LegacyOK
  <2>3. CASE ~Opened /\ Tick /\ UNCHANGED <<version, legacy>>
    <3>1. now' \in Instants
      BY <2>3, BoundsAssumption DEF Tick, Instants, LegacyOK
    <3>2. UNCHANGED <<version, legacy>> /\ Rehashed(legacy)' = Rehashed(legacy)
          /\ Valid(legacy)' = Valid(legacy)
      BY <2>3 DEF Rehashed, Valid, Present, IntervalOK
    <3> QED
      BY <2>3, <3>1, <3>2 DEF LegacyOK, Opened
  <2> QED
    BY <1>2, <2>1, <2>2, <2>3 DEF MigrationNext
<1>3. EmbeddingNext => MigrationNext \/ UNCHANGED store
  BY DEF EmbeddingNext, TakeBatch, UpsertEmbedding, LoseBatch, ClearEmbeddings
<1> QED
  BY <1>1, <1>2, <1>3 DEF store

(* What one opening promises: the body of UpgradeMergesDuplicates.          *)
Merges ==
  /\ Present(memories') = Present(legacy)
  /\ \A i \in ActiveIn(legacy) :
       LET heirs == {k \in ActiveIn(memories') :
                       /\ memories'[k].place = legacy[i].place
                       /\ memories'[k].content = Rehash[legacy[i].content]}
       IN  /\ Cardinality(heirs) = 1
           /\ \A k \in heirs : \/ memories'[k].rank >= legacy[i].rank
                              \/ /\ version < 4
                                 /\ legacy[i].place = <<Global, NoKey>>
  /\ \A i \in Present(memories') :
       memories'[i].from <= memories'[i].until

(* The table it leaves: rows of today's schema, one active row of each      *)
(* identity.                                                                *)
Sound == /\ memories' \in [Ids -> Memory \cup {NoMemory}]
         /\ Valid(memories')
         /\ UniqueIn(memories')

(* It is enough to name the one heir of each row.                           *)
LEMMA MergesByHeirs ==
  ASSUME Present(memories') = Present(legacy),
         Valid(memories'),
         \A i \in ActiveIn(legacy) : \E h :
           /\ {k \in ActiveIn(memories') :
                 /\ memories'[k].place = legacy[i].place
                 /\ memories'[k].content = Rehash[legacy[i].content]} = {h}
           /\ \/ memories'[h].rank >= legacy[i].rank
              \/ version < 4 /\ legacy[i].place = <<Global, NoKey>>
  PROVE  Merges
<1>1. \A h : Cardinality({h}) = 1
  BY FS_Singleton
<1> QED
  BY <1>1 DEF Merges, Valid, IntervalOK

(* A store of before version 9.                                             *)
LEMMA OldStoresMerge ==
  ASSUME LegacyOK, ~Opened, version < 9, NEW order \in Orders, Open(order)
  PROVE  Merges /\ Sound
<1> DEFINE first  == IF version < 4 THEN GlobalsMerged(legacy, order) ELSE legacy
           third  == Rehashed(first)
           second == IdentitiesMerged(third, order)
<1>1. /\ memories' = second
      /\ Valid(second)
  BY DEF Open
<1>2. legacy \in Tables /\ now \in Instants /\ version \in Int
      /\ legacy \in [Ids -> LegacyMemory \cup {NoMemory}]
  BY RowsAreRows, VersionNumbers DEF LegacyOK, Tables
<1>3. /\ Present(first) = Present(legacy)
      /\ first \in [Ids -> LegacyMemory \cup {NoMemory}]
      /\ \A i \in ActiveIn(legacy) : \E h \in ActiveIn(first) :
           /\ first[h].place = legacy[i].place
           /\ first[h].content = legacy[i].content
           /\ \/ first[h].rank >= legacy[i].rank
              \/ version < 4 /\ legacy[i].place = <<Global, NoKey>>
  <2>1. CASE version < 4
    <3> DEFINE merged == GlobalsMerged(legacy, order)
    <3>1. first = merged
      BY <2>1
    <3>2. /\ Rewrites(legacy, merged)
          /\ \A i \in Present(merged) : merged[i].content = legacy[i].content
          /\ \A i \in ActiveIn(legacy) : \E h \in ActiveIn(merged) :
                  /\ merged[h].place = legacy[i].place
                  /\ merged[h].content = legacy[i].content
                  /\ \/ merged[h].rank >= legacy[i].rank
                     \/ legacy[i].place = <<Global, NoKey>>
      BY <1>2, GlobalsMergedFacts
    <3> HIDE DEF merged
    <3>3. merged \in [Ids -> LegacyMemory \cup {NoMemory}]
      <4>1. \A i \in Ids : merged[i] # NoMemory => merged[i].content \in LegacyContents
        BY <1>2, <3>2 DEF Present, Rewrites, LegacyMemory
      <4>2. \A r \in Row : r.content \in LegacyContents => r \in LegacyMemory
        BY DEF Row, LegacyMemory
      <4> QED
        BY <3>2, <4>1, <4>2 DEF Rewrites, Tables
    <3> QED
      BY <2>1, <3>1, <3>2, <3>3 DEF Rewrites
  <2>2. CASE ~(version < 4)
    <3>1. first = legacy
      BY <2>2
    <3>2. \A i \in ActiveIn(legacy) : legacy[i].rank \in Int
      BY <1>2 DEF ActiveIn, Present, Tables, Row, Ephemeral
    <3> HIDE DEF first
    <3> QED
      BY <1>2, <3>1, <3>2
  <2> QED
    BY <2>1, <2>2
<1> HIDE DEF first
<1>4. /\ Rewrites(first, third)
      /\ ActiveIn(third) = ActiveIn(first)
      /\ \A i \in Present(first) : /\ third[i].content = Rehash[first[i].content]
                                   /\ third[i].rank = first[i].rank
  BY <1>3, RehashedFacts
<1> HIDE DEF third
<1>5. /\ Rewrites(third, second)
      /\ \A i \in Present(second) : second[i].content = third[i].content
      /\ \A i \in ActiveIn(third) : \E h \in ActiveIn(second) :
                  /\ {k \in ActiveIn(second) :
                        /\ second[k].place = third[i].place
                        /\ second[k].content = third[i].content} = {h}
                  /\ second[h].rank >= third[i].rank
  BY <1>2, <1>4, IdentitiesMergedFacts DEF Rewrites
<1> HIDE DEF second
<1>6. Present(second) = Present(legacy)
  BY <1>3, <1>4, <1>5 DEF Rewrites
<1>7. ASSUME NEW i \in ActiveIn(legacy)
      PROVE  \E h :
           /\ {k \in ActiveIn(second) :
                 /\ second[k].place = legacy[i].place
                 /\ second[k].content = Rehash[legacy[i].content]} = {h}
           /\ \/ second[h].rank >= legacy[i].rank
              \/ version < 4 /\ legacy[i].place = <<Global, NoKey>>
  <2>1. PICK g \in ActiveIn(first) :
           /\ first[g].place = legacy[i].place
           /\ first[g].content = legacy[i].content
           /\ \/ first[g].rank >= legacy[i].rank
              \/ version < 4 /\ legacy[i].place = <<Global, NoKey>>
    BY <1>3
  <2>2. /\ g \in ActiveIn(third)
        /\ third[g].place = legacy[i].place
        /\ third[g].content = Rehash[legacy[i].content]
        /\ third[g].rank = first[g].rank
    BY <1>4, <2>1 DEF Rewrites, ActiveIn
  <2>3. PICK h \in ActiveIn(second) :
                  /\ {k \in ActiveIn(second) :
                        /\ second[k].place = third[g].place
                        /\ second[k].content = third[g].content} = {h}
                  /\ second[h].rank >= third[g].rank
    BY <1>5, <2>2
  <2>4. \A t \in Tables : \A j \in ActiveIn(t) : t[j].rank \in Int
    BY DEF ActiveIn, Present, Tables, Row, Ephemeral
  <2>5. /\ second[h].rank \in Int
        /\ third[g].rank \in Int
        /\ legacy[i].rank \in Int
    BY <1>2, <1>4, <1>5, <2>2, <2>3, <2>4 DEF Rewrites
  <2>6. \/ second[h].rank >= legacy[i].rank
        \/ version < 4 /\ legacy[i].place = <<Global, NoKey>>
    BY <2>1, <2>2, <2>3, <2>5
  <2>7. {k \in ActiveIn(second) :
           /\ second[k].place = legacy[i].place
           /\ second[k].content = Rehash[legacy[i].content]} = {h}
    BY <2>2, <2>3
  <2> QED
    BY <2>6, <2>7
<1>8. second \in [Ids -> Memory \cup {NoMemory}]
  <2>1. \A i \in Present(second) : second[i].content \in Contents
    <3> SUFFICES ASSUME NEW i \in Present(second)
                 PROVE  second[i].content \in Contents
      OBVIOUS
    <3>1. i \in Present(first) /\ i \in Present(third)
      BY <1>4, <1>5 DEF Rewrites
    <3>2. first[i] \in LegacyMemory
      BY <1>3, <3>1 DEF Present
    <3>3. Rehash[first[i].content] \in Contents
      BY <3>2, LegacyAssumption DEF LegacyMemory
    <3> QED
      BY <1>4, <1>5, <3>1, <3>3
  <2>2. \A r \in Row : r.content \in Contents => r \in Memory
    BY DEF Row, Memory
  <2> QED
    BY <1>5, <2>1, <2>2 DEF Rewrites, Tables, Present
<1>9. UniqueIn(second)
  <2>1. \A i \in ActiveIn(second) :
          /\ i \in ActiveIn(third)
          /\ second[i].place = third[i].place
          /\ second[i].content = third[i].content
    BY <1>5 DEF Rewrites, ActiveIn
  <2>2. ASSUME NEW i \in ActiveIn(second), NEW j \in ActiveIn(second),
               second[i].place = second[j].place,
               second[i].content = second[j].content
        PROVE  i = j
    BY <1>5, <2>1, <2>2
  <2> QED
    BY <2>2 DEF UniqueIn, ActiveIn, Present
<1> QED
  BY <1>1, <1>6, <1>7, <1>8, <1>9, MergesByHeirs DEF Sound

(* A store of version 9 has one row of each identity, and stays as it is.   *)
LEMMA RecentStoresMerge ==
  ASSUME LegacyOK, ~Opened, version >= 9, NEW order \in Orders, Open(order)
  PROVE  Merges /\ Sound
<1>1. version \in Int
  BY VersionNumbers DEF LegacyOK
<1>2. memories' = legacy /\ UniqueIn(legacy) /\ Valid(legacy)
  BY <1>1 DEF Open, LegacyOK
<1>3. \A i \in Present(legacy) : Rehash[legacy[i].content] = legacy[i].content
  <2>1. legacy = Rehashed(legacy)
    BY DEF LegacyOK
  <2>2. \A i \in Ids : legacy[i] # NoMemory =>
          /\ legacy[i] \in LegacyMemory
          /\ legacy[i] = [legacy[i] EXCEPT !.content = Rehash[@]]
    BY <2>1 DEF Rehashed, LegacyOK
  <2> QED
    BY <2>2 DEF Present, LegacyMemory
<1>4. \A i \in ActiveIn(legacy) : legacy[i].rank \in Int
  BY DEF LegacyOK, LegacyMemory, ActiveIn, Present, Ephemeral
<1>5. ASSUME NEW i \in ActiveIn(legacy)
      PROVE  /\ {k \in ActiveIn(legacy) :
                   /\ legacy[k].place = legacy[i].place
                   /\ legacy[k].content = Rehash[legacy[i].content]} = {i}
             /\ legacy[i].rank >= legacy[i].rank
  BY <1>2, <1>3, <1>4 DEF UniqueIn, ActiveIn, Present
<1>6. legacy \in [Ids -> Memory \cup {NoMemory}]
  <2>1. \A i \in Ids : legacy[i] # NoMemory =>
          /\ legacy[i] \in LegacyMemory
          /\ legacy[i].content \in Contents
    BY <1>3, LegacyAssumption DEF LegacyOK, LegacyMemory, Present
  <2>2. \A r \in LegacyMemory : r.content \in Contents => r \in Memory
    BY DEF LegacyMemory, Memory
  <2> QED
    BY <2>1, <2>2 DEF LegacyOK
<1> QED
  BY <1>2, <1>5, <1>6, MergesByHeirs DEF Sound

(* UpgradeMergesDuplicates for every older store: whatever the table, the   *)
(* version, the order of the rows and the new hashes, an upgrade that       *)
(* commits keeps every row and leaves exactly one active row for what each  *)
(* active row told, no less restricted but for the exception the property   *)
(* names.                                                                   *)
THEOREM UpgradeCorrect == EmbeddingSpec => UpgradeMergesDuplicates
<1>1. LegacyOK /\ [EmbeddingNext]_<<store, embedding>>
        => [version' # version => Merges]_store
  <2> SUFFICES ASSUME LegacyOK, [EmbeddingNext]_<<store, embedding>>,
                      version' # version
               PROVE  Merges
    OBVIOUS
  <2>1. PICK order \in Orders : Open(order)
    BY DEF EmbeddingNext, TakeBatch, UpsertEmbedding, LoseBatch,
           ClearEmbeddings, MigrationNext, store
  <2>2. ~Opened /\ version \in Int
    BY <2>1, VersionNumbers DEF Open, LegacyOK
  <2> QED
    BY <2>1, <2>2, OldStoresMerge, RecentStoresMerge
<1>2. [version' # version => Merges]_store => [version' # version =>
       /\ Present(memories') = Present(legacy)
       /\ \A i \in ActiveIn(legacy) :
            LET heirs == {k \in ActiveIn(memories') :
                            /\ memories'[k].place = legacy[i].place
                            /\ memories'[k].content = Rehash[legacy[i].content]}
            IN  /\ Cardinality(heirs) = 1
                /\ \A k \in heirs : \/ memories'[k].rank >= legacy[i].rank
                                    \/ /\ version < 4
                                       /\ legacy[i].place = <<Global, NoKey>>
       /\ \A i \in Present(memories') :
            memories'[i].from <= memories'[i].until]_store
  BY Zenon DEF Merges
<1> QED
  BY <1>1, <1>2, LegacyOKInit, LegacyOKNext, PTL
     DEF EmbeddingSpec, UpgradeMergesDuplicates

(* The store as MemoryStore_proofs needs it, before the upgrade and after.  *)
StoreSound == TypeAndIntervals /\ UniqueActiveIdentity

(* An unopened store has no rows yet.                                       *)
LEMMA StoreSoundInit == EmbeddingInit => StoreSound
<1> SUFFICES ASSUME EmbeddingInit PROVE StoreSound
  OBVIOUS
<1>1. memories = [i \in Ids |-> NoMemory] /\ now \in Instants
  BY BoundsAssumption DEF EmbeddingInit, MigrationInit, Instants
<1>2. baseline_revisions \in [Places -> Nat]
  BY LegacyAssumption DEF EmbeddingInit, MigrationInit
<1> QED
  BY <1>1, <1>2 DEF StoreSound, TypeAndIntervals, TypeOK, ValidIntervals, Stored,
                    UniqueActiveIdentity, UniqueIn

(* The upgrade establishes what the operations of MemoryStore keep.         *)
LEMMA StoreSoundNext ==
  LegacyOK /\ StoreSound /\ [EmbeddingNext]_<<store, embedding>> => StoreSound'
<1> SUFFICES ASSUME LegacyOK, StoreSound, [EmbeddingNext]_<<store, embedding>>
             PROVE  StoreSound'
  OBVIOUS
<1>1. CASE [Next]_vars
  BY <1>1, NextTypeAndIntervals, NextStaysUnique
     DEF StoreSound, TypeAndIntervals
<1>2. ASSUME NEW order \in Orders, Open(order)
      PROVE  StoreSound'
  <2>1. ~Opened /\ version \in Int
    BY <1>2, VersionNumbers DEF Open, LegacyOK
  <2>2. Sound
    BY <1>2, <2>1, OldStoresMerge, RecentStoresMerge
  <2>3. baseline_revisions' \in [Places -> Nat]
    BY <1>2 DEF Open, StoreSound, TypeAndIntervals, TypeOK
  <2>4. now' \in Instants
    BY <1>2 DEF Open, StoreSound, TypeAndIntervals, TypeOK
  <2> QED
    BY <2>2, <2>3, <2>4
       DEF Sound, Valid, Present, IntervalOK, StoreSound, TypeAndIntervals,
           TypeOK, ValidIntervals, Stored, UniqueActiveIdentity, UniqueIn
<1>3. UNCHANGED store => UNCHANGED vars
  BY DEF store, vars
<1>4. EmbeddingNext =>
        \/ UNCHANGED store
        \/ [Next]_vars
        \/ \E order \in Orders : Open(order)
  BY DEF EmbeddingNext, MigrationNext, TakeBatch, UpsertEmbedding, LoseBatch,
         ClearEmbeddings, Next
<1> QED
  BY <1>1, <1>2, <1>3, <1>4 DEF store

(* Whatever an older version left behind, an upgraded store has the shape,  *)
(* the intervals and the unique identities that MemoryStore assumes when it *)
(* starts from nothing, and keeps them while embedders work beside it.      *)
THEOREM UpgradedStoreCorrect == EmbeddingSpec => [](TypeOK /\ UniqueActiveIdentity)
BY LegacyOKInit, LegacyOKNext, StoreSoundInit, StoreSoundNext, PTL
   DEF EmbeddingSpec, StoreSound, TypeAndIntervals

-----------------------------------------------------------------------------
(* Vectors                                                                  *)

(* Every vector was computed from the text whose hash it carries.           *)
TaggedRight ==
  /\ embeddings = [i \in Ids |-> embeddings[i]]
  /\ \A i \in Ids : embeddings[i] # NoVector
                      => embeddings[i].hash = embeddings[i].of

(* MatchesAreCurrent for any number of embedders, rows, contents and        *)
(* faults: the row is asked for its hash when the vector arrives and again  *)
(* when it is read, so the two can differ at neither end.                   *)
THEOREM MatchesCorrect == EmbeddingSpec => []MatchesAreCurrent
<1>1. EmbeddingInit => TaggedRight
  BY DEF EmbeddingInit, TaggedRight
<1>2. TaggedRight /\ [EmbeddingNext]_<<store, embedding>> => TaggedRight'
  <2> SUFFICES ASSUME TaggedRight, [EmbeddingNext]_<<store, embedding>>
               PROVE  TaggedRight'
    OBVIOUS
  <2>1. CASE embeddings' = Invalidated
    BY <2>1 DEF Invalidated, TaggedRight
  <2>2. ASSUME NEW e \in Embedders, NEW t \in batches[e], UpsertEmbedding(e, t)
        PROVE  TaggedRight'
    <3>1. CASE AcceptsVector(t)
      BY <2>2, <3>1 DEF UpsertEmbedding, AcceptsVector, TaggedRight
    <3>2. CASE ~AcceptsVector(t)
      BY <2>2, <3>2 DEF UpsertEmbedding, TaggedRight
    <3> QED
      BY <3>1, <3>2
  <2>3. CASE ClearEmbeddings
    BY <2>3 DEF ClearEmbeddings, TaggedRight
  <2>4. CASE UNCHANGED embeddings
    BY <2>4 DEF TaggedRight
  <2> QED
    BY <2>1, <2>2, <2>3, <2>4 DEF EmbeddingNext, TakeBatch, LoseBatch, embedding
<1>3. TaggedRight => MatchesAreCurrent
  BY DEF TaggedRight, MatchesAreCurrent, VectorCandidates, Readable
<1> QED
  BY <1>1, <1>2, <1>3, PTL DEF EmbeddingSpec

-----------------------------------------------------------------------------
(* Types                                                                    *)

(* The batches are finite, and the rest of the type invariant.              *)
Types ==
  /\ version \in Versions \cup {SchemaVersion}
  /\ legacy \in [Ids -> LegacyMemory \cup {NoMemory}]
  /\ embeddings \in [Ids -> Vector \cup {NoVector}]
  /\ \A i \in Ids : embeddings[i] # NoVector => Stored(i)
  /\ batches \in [Embedders -> SUBSET Task]
  /\ \A e \in Embedders : /\ IsFiniteSet(batches[e])
                          /\ Cardinality(batches[e]) <= Limit
  /\ faults \in 0..MaxFaults

(* A batch is no larger than the limit of the answer it came from.          *)
LEMMA BatchSize ==
  ASSUME NEW ws, NEW rows \in PendingEmbeddings(ws)
  PROVE  LET batch == {[id |-> i, content |-> memories[i].content] : i \in rows}
         IN  IsFiniteSet(batch) /\ Cardinality(batch) <= Limit
<1> DEFINE batch == {[id |-> i, content |-> memories[i].content] : i \in rows}
           f == [t \in batch |-> t.id]
<1>1. Missing(ws) \in SUBSET Ids
  BY DEF Missing
<1>2. IsFiniteSet(Missing(ws))
  BY <1>1, FS_Subset, LegacyAssumption
<1>3. rows \in SUBSET Missing(ws)
      /\ Cardinality(rows) = Lower(Limit, Cardinality(Missing(ws)))
  BY DEF PendingEmbeddings
<1>4. Cardinality(Missing(ws)) \in Nat
  BY <1>2, FS_CardinalityType
<1>5. IsFiniteSet(rows)
  BY <1>2, <1>3, FS_Subset
<1>6. Cardinality(rows) <= Limit /\ Cardinality(rows) \in Nat
  BY <1>3, <1>4, EmbeddingAssumption DEF Lower
<1>7. f \in Injection(batch, rows)
  <2>1. f \in [batch -> rows]
    OBVIOUS
  <2>2. \A s, t \in batch : f[s] = f[t] => s = t
    OBVIOUS
  <2> QED
    BY <2>1, <2>2 DEF Injection, IsInjective
<1> HIDE DEF batch, f
<1>8. IsFiniteSet(batch) /\ Cardinality(batch) <= Cardinality(rows)
  BY <1>5, <1>7, FS_Injection
<1>9. Cardinality(batch) \in Nat
  BY <1>8, FS_CardinalityType
<1> QED
  BY <1>6, <1>8, <1>9, EmbeddingAssumption DEF batch

(* An unopened store has no vector and no batch.                            *)
LEMMA TypesInit == EmbeddingInit => Types
<1> SUFFICES ASSUME EmbeddingInit PROVE Types
  OBVIOUS
<1>1. IsFiniteSet({}) /\ Cardinality({}) = 0
  BY FS_EmptySet
<1>2. version \in Versions /\ legacy \in [Ids -> LegacyMemory \cup {NoMemory}]
  BY LegacyAssumption DEF EmbeddingInit, MigrationInit
<1>3. embeddings = [i \in Ids |-> NoVector] /\ faults = 0
      /\ batches = [e \in Embedders |-> {}]
  BY DEF EmbeddingInit
<1>4. \A i \in Ids : embeddings[i] = NoVector
  BY <1>3
<1>5. \A e \in Embedders : batches[e] = {}
  BY <1>3
<1>6. faults \in 0..MaxFaults /\ 0 <= Limit
  BY <1>3, EmbeddingAssumption
<1>7. batches \in [Embedders -> SUBSET Task]
  BY <1>3
<1>8. embeddings \in [Ids -> Vector \cup {NoVector}]
  BY <1>3
<1> QED
  BY <1>1, <1>2, <1>4, <1>5, <1>6, <1>7, <1>8 DEF Types

(* A writer drops the vectors of the rows it rewrites or deletes; nothing   *)
(* but an embedder makes one.                                               *)
LEMMA InvalidatedTypes ==
  ASSUME Types, StoreSound, embeddings' = Invalidated,
         UNCHANGED <<batches, faults>>,
         version' \in Versions \cup {SchemaVersion},
         legacy' \in [Ids -> LegacyMemory \cup {NoMemory}]
  PROVE  Types'
<1>1. embeddings' \in [Ids -> Vector \cup {NoVector}]
  BY DEF Invalidated, Types
<1>2. \A i \in Ids : embeddings'[i] # NoVector => memories'[i] # NoMemory
  BY DEF Invalidated
<1> QED
  BY <1>1, <1>2 DEF Types, Stored

(* Every step keeps the types.                                              *)
LEMMA TypesNext ==
  Types /\ StoreSound /\ [EmbeddingNext]_<<store, embedding>> => Types'
<1> SUFFICES ASSUME Types, StoreSound, [EmbeddingNext]_<<store, embedding>>
             PROVE  Types'
  OBVIOUS
<1>1. CASE MigrationNext /\ embeddings' = Invalidated /\ UNCHANGED <<batches, faults>>
  <2>1. ASSUME NEW order \in Orders, Open(order)
        PROVE  version' = SchemaVersion
               /\ legacy' \in [Ids -> LegacyMemory \cup {NoMemory}]
    BY <2>1 DEF Open
  <2> QED
    BY <1>1, <2>1, InvalidatedTypes DEF MigrationNext, Types
<1>2. ASSUME NEW e \in Embedders, NEW ws \in Workspaces, TakeBatch(e, ws)
      PROVE  Types'
  <2>1. PICK rows \in PendingEmbeddings(ws) :
          batches' = [batches EXCEPT ![e] =
            {[id |-> i, content |-> memories[i].content] : i \in rows}]
    BY <1>2 DEF TakeBatch
  <2> DEFINE batch == {[id |-> i, content |-> memories[i].content] : i \in rows}
  <2>2. IsFiniteSet(batch) /\ Cardinality(batch) <= Limit
    BY BatchSize
  <2>3. \A i \in rows : i \in Ids /\ memories[i] \in Memory
    BY DEF PendingEmbeddings, Missing, Active, Stored, StoreSound,
           TypeAndIntervals, TypeOK
  <2>4. batch \in SUBSET Task
    BY <2>3 DEF Task, Memory
  <2>5. batches' = [batches EXCEPT ![e] = batch]
    BY <2>1
  <2> HIDE DEF batch
  <2>6. batches' \in [Embedders -> SUBSET Task]
        /\ \A d \in Embedders : /\ IsFiniteSet(batches'[d])
                                /\ Cardinality(batches'[d]) <= Limit
    BY <2>2, <2>4, <2>5 DEF Types
  <2> QED
    BY <1>2, <2>6 DEF TakeBatch, Types, store, Stored
<1>3. ASSUME NEW e \in Embedders, NEW t \in batches[e], UpsertEmbedding(e, t)
      PROVE  Types'
  <2>1. batches[e] \in SUBSET Task /\ IsFiniteSet(batches[e])
    BY DEF Types
  <2>2. /\ IsFiniteSet(batches[e] \ {t})
        /\ Cardinality(batches[e] \ {t}) = Cardinality(batches[e]) - 1
    BY <2>1, FS_RemoveElement
  <2>3. Cardinality(batches[e]) \in Nat
    BY <2>1, FS_CardinalityType
  <2>4. Cardinality(batches[e] \ {t}) <= Limit
    BY <2>2, <2>3, EmbeddingAssumption DEF Types
  <2>5. batches' = [batches EXCEPT ![e] = @ \ {t}]
    BY <1>3 DEF UpsertEmbedding
  <2>6. /\ batches' \in [Embedders -> SUBSET Task]
        /\ \A d \in Embedders : /\ IsFiniteSet(batches'[d])
                                /\ Cardinality(batches'[d]) <= Limit
    BY <2>2, <2>4, <2>5 DEF Types
  <2>7. t.id \in Ids /\ t.content \in Contents
    BY <2>1 DEF Task
  <2>8. /\ embeddings' \in [Ids -> Vector \cup {NoVector}]
        /\ \A i \in Ids : embeddings'[i] # NoVector => Stored(i)
    <3>1. CASE AcceptsVector(t)
      <4>1. memories[t.id].content = t.content /\ Stored(t.id)
        BY <3>1 DEF AcceptsVector, Active
      <4>2. embeddings' = [embeddings EXCEPT ![t.id] =
                             [hash |-> t.content, of |-> t.content]]
        BY <1>3, <3>1, <4>1 DEF UpsertEmbedding
      <4> QED
        BY <2>7, <4>1, <4>2 DEF Types, Vector
    <3>2. CASE ~AcceptsVector(t)
      BY <1>3, <3>2 DEF UpsertEmbedding, Types
    <3> QED
      BY <3>1, <3>2
  <2> QED
    BY <1>3, <2>6, <2>8 DEF UpsertEmbedding, Types, store, Stored
<1>4. ASSUME NEW e \in Embedders, LoseBatch(e)
      PROVE  Types'
  <2>1. IsFiniteSet({}) /\ Cardinality({}) = 0
    BY FS_EmptySet
  <2>2. faults' \in 0..MaxFaults
    BY <1>4, EmbeddingAssumption DEF LoseBatch, Types
  <2>3. /\ batches' \in [Embedders -> SUBSET Task]
        /\ \A d \in Embedders : /\ IsFiniteSet(batches'[d])
                                /\ Cardinality(batches'[d]) <= Limit
    BY <1>4, <2>1, EmbeddingAssumption DEF LoseBatch, Types
  <2> QED
    BY <1>4, <2>2, <2>3 DEF LoseBatch, Types, store, Stored
<1>5. CASE ClearEmbeddings
  <2>1. faults' \in 0..MaxFaults
    BY <1>5, EmbeddingAssumption DEF ClearEmbeddings, Types
  <2>2. embeddings' = [i \in Ids |-> NoVector]
    BY <1>5 DEF ClearEmbeddings
  <2> QED
    BY <1>5, <2>1, <2>2 DEF ClearEmbeddings, Types, store
<1>6. CASE UNCHANGED <<store, embedding>>
  BY <1>6 DEF store, embedding, Types, Stored
<1> QED
  BY <1>1, <1>2, <1>3, <1>4, <1>5, <1>6 DEF EmbeddingNext

(* EmbeddingTypeOK for any number of embedders, rows, faults and any limit: *)
(* no vector outlives its row, and no batch exceeds the limit.              *)
THEOREM EmbeddingTypeCorrect == EmbeddingSpec => []EmbeddingTypeOK
<1>1. Types /\ StoreSound => EmbeddingTypeOK
  BY DEF Types, StoreSound, TypeAndIntervals, EmbeddingTypeOK, MigrationTypeOK
<1> QED
  BY <1>1, LegacyOKInit, LegacyOKNext, StoreSoundInit, StoreSoundNext,
     TypesInit, TypesNext, PTL DEF EmbeddingSpec
=============================================================================
