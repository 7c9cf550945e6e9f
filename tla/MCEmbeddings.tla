---------------------------- MODULE MCEmbeddings ----------------------------
(* An instance of Embeddings for TLC: two rows of the workspace or of       *)
(* everywhere, left behind by stores of versions 3, 8 and 9.                *)
EXTENDS Embeddings

CONSTANTS i1, i2, w1, c1, c2, old

Row(p, c, status, rank, from, until) ==
  [place |-> p, content |-> c, status |-> status, rank |-> rank,
   pinned |-> FALSE, from |-> from, until |-> until]

Workspace1 == <<w1, NoKey>>
Everywhere == <<Global, NoKey>>

(* The older normalization told "old" from c1; version 9 does not.          *)
MCRehash == [c \in {c1, old} |-> c1]

(* Two spellings of one memory, the newer one private or starting later;    *)
(* two rows of one content everywhere, as version 3 allowed; one alone.     *)
Pair(first, second) == [i \in Ids |-> IF i = i1 THEN first ELSE second]

MCLegacyTables ==
  {Pair(Row(Workspace1, c1, "ACTIVE", 0, 0, Forever),
        Row(Workspace1, old, "ACTIVE", 2, 0, Forever)),
   Pair(Row(Workspace1, c1, "ACTIVE", 0, 0, Forever),
        Row(Workspace1, old, "ACTIVE", 0, 1, Forever)),
   Pair(Row(Everywhere, c1, "ACTIVE", 0, 0, Forever),
        Row(Everywhere, c1, "ACTIVE", 2, 0, Forever)),
   Pair(Row(Workspace1, c1, "ACTIVE", 0, 0, Forever),
        Row(Everywhere, c1, "ACTIVE", 0, 0, 1)),
   Pair(Row(Workspace1, c1, "ACTIVE", 0, 0, Forever), NoMemory)}

(* A store of version 9 has counted its writes.                             *)
MCLegacyRevisions == {[p \in Places |-> n] : n \in {1, 2}}

(* A whole-record write gives a row another content or makes it secret.     *)
MCRecords == {Row(Workspace1, c2, "ACTIVE", 0, 0, Forever),
              Row(Workspace1, c1, "ACTIVE", 3, 0, Forever)}
=============================================================================
