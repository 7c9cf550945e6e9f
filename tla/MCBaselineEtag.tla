--------------------------- MODULE MCBaselineEtag ---------------------------
(* An instance of BaselineEtag for TLC: one client reads a conversation while *)
(* one memory is written, moved between places, retired and forgotten.      *)
EXTENDS BaselineEtag

CONSTANTS i1, w1, k1, c1

Row(p, from, until) ==
  [place |-> p, content |-> c1, status |-> "ACTIVE", rank |-> 0,
   pinned |-> FALSE, from |-> from, until |-> until]

(* A row of the workspace that starts later, and one of the conversation    *)
(* that ends: a whole-record write moves the memory from one to the other.  *)
MCRecords == {Row(<<w1, NoKey>>, MaxTime, Forever), Row(<<w1, k1>>, 0, MaxTime)}

(* The reader of a conversation sees all three places.                      *)
MCQueried == {<<w1, k1>>}
=============================================================================
