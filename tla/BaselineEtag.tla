---------------------------- MODULE BaselineEtag ----------------------------
(***************************************************************************)
(* Clients that read baselines of the memory store under its writers:       *)
(* progressive_baseline (apps/kitt-memoryd/src/main.rs) over baseline       *)
(* (crates/kitt-memory-sqlite/src/lib.rs).  A baseline is read in two       *)
(* statements, the rows and then the revision that its etag names, and      *)
(* writers commit between the two.  A client keeps the last baseline of     *)
(* each place and may send its etag as if_none_match.                       *)
(*                                                                          *)
(* The namespace and the permissions, which the etag names too, are fixed.  *)
(* The entries are what the rows, the token budget and the instant yield    *)
(* (build_memory_baseline is a function of them), so the three stand for    *)
(* them here.                                                               *)
(***************************************************************************)
EXTENDS MemoryStore

CONSTANTS
  Clients,
  Queried,    \* the places that clients read
  Budgets,    \* values of max_tokens
  NoRequest, NoBaseline

VARIABLES
  reading,    \* client -> its request between the two statements
  cached      \* client -> place -> the last baseline it was sent

Rows    == UNION {[ids -> Memory] : ids \in SUBSET Ids}
Request == [place: Queried, tokens: Budgets, at: Instants, rows: Rows,
            since: Nat]      \* history: the revision when the rows were read
Baseline == [revision: Nat, tokens: Budgets, at: Instants, rows: Rows,
             raced: BOOLEAN] \* history: the revision moved between the reads

ASSUME QueriedAssumption == Queried \subseteq Places
ASSUME NoneAssumption == NoRequest \notin Request /\ NoBaseline \notin Baseline

clients == <<reading, cached>>

BaselineInit ==
  /\ Init
  /\ reading = [c \in Clients |-> NoRequest]
  /\ cached = [c \in Clients |-> [q \in Queried |-> NoBaseline]]

\* The first statement; at is as_of, or the clock.
ReadRows(c, q, tokens, at) ==
  /\ reading[c] = NoRequest
  /\ reading' = [reading EXCEPT ![c] =
       [place |-> q, tokens |-> tokens, at |-> at,
        rows |-> View(q, at), since |-> BaselineRevision(q)]]
  /\ UNCHANGED <<vars, cached>>

\* The second statement, when the etag sent as if_none_match names the
\* revision now read; the budget and the instant are not part of it.
AnswerNotModified(c) ==
  /\ reading[c] # NoRequest
  /\ cached[c][reading[c].place] # NoBaseline
  /\ cached[c][reading[c].place].revision = BaselineRevision(reading[c].place)
  /\ reading' = [reading EXCEPT ![c] = NoRequest]
  /\ UNCHANGED <<vars, cached>>

\* The second statement, and the whole baseline under its etag: without
\* if_none_match, or with another one.
AnswerBaseline(c) ==
  LET r == reading[c]
      revision == BaselineRevision(r.place)
  IN  /\ r # NoRequest
      /\ cached' = [cached EXCEPT ![c][r.place] =
           [revision |-> revision, tokens |-> r.tokens, at |-> r.at,
            rows |-> r.rows, raced |-> r.since # revision]]
      /\ reading' = [reading EXCEPT ![c] = NoRequest]
      /\ UNCHANGED vars

BaselineNext ==
  \/ Next /\ UNCHANGED clients
  \/ \E c \in Clients, q \in Queried, tokens \in Budgets, at \in Instants :
       ReadRows(c, q, tokens, at)
  \/ \E c \in Clients : AnswerNotModified(c)
  \/ \E c \in Clients : AnswerBaseline(c)

BaselineSpec == BaselineInit /\ [][BaselineNext]_<<vars, clients>>

-----------------------------------------------------------------------------
(* Properties                                                               *)

(* Types, on top of those of the store.                                     *)
BaselineTypeOK ==
  /\ reading \in [Clients -> Request \cup {NoRequest}]
  /\ cached \in [Clients -> [Queried -> Baseline \cup {NoBaseline}]]

(* Rows that were read stay the rows of their place and instant for as long *)
(* as the revision read with them does; so a client whose baseline was not  *)
(* raced by a writer is right to keep it while the etag is the same, and no *)
(* etag names a revision that is still to come.                             *)
UnracedBaselinesAreCurrent ==
  /\ \A c \in Clients : reading[c] # NoRequest =>
       LET r == reading[c]
       IN  /\ r.since <= BaselineRevision(r.place)
           /\ r.since = BaselineRevision(r.place) => r.rows = View(r.place, r.at)
  /\ \A c \in Clients, q \in Queried : cached[c][q] # NoBaseline =>
       LET b == cached[c][q]
       IN  /\ b.revision <= BaselineRevision(q)
           /\ ~b.raced /\ b.revision = BaselineRevision(q)
                => b.rows = View(q, b.at)

(* MANUAL.md, "quando nada semanticamente relevante mudou, a resposta       *)
(* retorna not_modified=true": a client that is told not_modified holds the *)
(* entries it would have been sent.                                         *)
NotModifiedMeansUnchanged ==
  [][\A c \in Clients : AnswerNotModified(c) =>
       LET b == cached[c][reading[c].place]
       IN  b.rows = reading[c].rows /\ b.tokens = reading[c].tokens]_<<vars, clients>>
=============================================================================
