--------------------------- MODULE MCMemoryStore ---------------------------
(* An instance of MemoryStore for TLC: two rows, the global place, one      *)
(* workspace and one of its conversations.                                  *)
EXTENDS MemoryStore

CONSTANTS i1, i2, w1, k1, c1

Row(p, status, rank, from, until) ==
  [place |-> p, content |-> c1, status |-> status, rank |-> rank,
   pinned |-> FALSE, from |-> from, until |-> until]

Workspace1    == <<w1, NoKey>>
Conversation1 == <<w1, k1>>
Everywhere    == <<Global, NoKey>>

(* Whole rows: secret rows of the workspace that start or end now or       *)
(* later, a candidate, an ephemeral conversation row, a public global row.  *)
MCRecords ==
  {Row(Workspace1, "ACTIVE", 3, 0, 1),
   Row(Workspace1, "ACTIVE", 3, 0, Forever),
   Row(Workspace1, "ACTIVE", 3, 1, Forever),
   Row(Workspace1, "CANDIDATE", 0, 0, Forever),
   Row(Conversation1, "ACTIVE", Ephemeral, 0, Forever),
   Row(Everywhere, "ACTIVE", 0, 0, Forever)}

MCDreams == {Row(Workspace1, "SUPERSEDED", 0, 0, 1),
             Row(Workspace1, "ACTIVE", 0, 0, Forever)}
=============================================================================
