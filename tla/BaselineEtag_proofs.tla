------------------------- MODULE BaselineEtag_proofs -------------------------
(* A baseline that no writer raced stays right while its etag does, for any *)
(* number of clients, places and rows: the two reads of a baseline composed *)
(* with what MemoryStore_proofs shows of every single write.                *)
EXTENDS BaselineEtag, MemoryStore_proofs

(* Every step raises the counters of some places, or leaves them all.       *)
LEMMA NextRaises ==
  ASSUME Next
  PROVE  (\E places : Bump(places)) \/ baseline_revisions' = baseline_revisions
<1>1. ASSUME NEW p \in Places, NEW c \in Contents, NEW rank \in Ranks,
             NEW pin \in Pins, NEW ttl \in 0..Forever,
             NEW at \in ClockReadings, Remember(p, c, rank, pin, ttl, at)
      PROVE  Bump({p})
  BY <1>1 DEF Remember, RememberMerge, RememberInsert
<1>2. ASSUME NEW i \in Ids, NEW r \in RecordInputs, UpsertRecord(i, r)
      PROVE  Bump({r.place} \cup PlacesOf({i}))
  BY <1>2 DEF UpsertRecord
<1>4. ASSUME NEW ws \in Workspaces \cup {Global}, NEW at \in ClockReadings,
             ArchiveWorkspace(ws, at)
      PROVE  \E places : Bump(places)
  BY <1>4 DEF ArchiveWorkspace
<1>5. ASSUME NEW i \in Ids, NEW j \in Ids, NEW updated \in DreamInputs,
             NEW new \in DreamInputs, CommitDream(i, updated, j, new)
      PROVE  Bump({updated.place, new.place} \cup PlacesOf({i, j}))
  BY <1>5 DEF CommitDream
<1>6. PruneExpired => \E places : Bump(places)
  BY DEF PruneExpired
<1>7. Consolidate => \E places : Bump(places)
  BY DEF Consolidate
<1>8. Tick => baseline_revisions' = baseline_revisions
  BY DEF Tick
<1>9. ASSUME NEW i \in Ids, Forget(i)
      PROVE  Bump(PlacesOf({i}))
  BY <1>9 DEF Forget
<1>10. ASSUME NEW i \in Ids, NEW status \in Statuses,
              NEW at \in ClockReadings, Retire(i, status, at)
       PROVE  Bump(PlacesOf({i}))
  BY <1>10 DEF Retire
<1>11. ASSUME NEW i \in Ids, NEW status \in Statuses, SetLiveStatus(i, status)
       PROVE  Bump(PlacesOf({i}))
  BY <1>11 DEF SetLiveStatus
<1>12. ASSUME NEW i \in Ids, NEW pin \in Pins, SetPinned(i, pin)
       PROVE  Bump(PlacesOf({i}))
  BY <1>12 DEF SetPinned
<1> QED
  BY <1>1, <1>2, <1>4, <1>5, <1>6, <1>7, <1>8, <1>9, <1>10, <1>11,
     <1>12 DEF Next

(* A reader's revision is a number that no write lowers.                    *)
LEMMA RevisionsRise ==
  ASSUME TypeOK, [Next]_vars, NEW q \in Places
  PROVE  /\ BaselineRevision(q) \in Nat
         /\ BaselineRevision(q)' \in Nat
         /\ BaselineRevision(q)' >= BaselineRevision(q)
<1>0. \A p \in Places : baseline_revisions[p] \in Nat
  BY DEF TypeOK
<1>1. ASSUME NEW places, Bump(places)
      PROVE  \A p \in Places : /\ baseline_revisions'[p] \in Nat
                               /\ baseline_revisions'[p] >= baseline_revisions[p]
  BY <1>0, <1>1 DEF Bump
<1>2. \A p \in Places : /\ baseline_revisions'[p] \in Nat
                        /\ baseline_revisions'[p] >= baseline_revisions[p]
  BY <1>0, <1>1, NextRaises DEF vars
<1>3. /\ <<Global, NoKey>> \in Places
      /\ q[1] # Global => <<q[1], NoKey>> \in Places
  BY DEF Places
<1> QED
  BY <1>0, <1>2, <1>3 DEF BaselineRevision

(* What a reader sees is a table of memories.                               *)
LEMMA ViewType ==
  ASSUME TypeOK, NEW q, NEW at
  PROVE  View(q, at) \in Rows
<1>1. \A i \in Readable(q, at) : i \in Ids /\ memories[i] \in Memory
  BY DEF TypeOK, Readable, Active, Stored
<1>2. Readable(q, at) \in SUBSET Ids
  BY <1>1
<1>3. View(q, at) \in [Readable(q, at) -> Memory]
  BY <1>1 DEF View
<1> QED
  BY <1>2, <1>3 DEF Rows

-----------------------------------------------------------------------------
(* The invariant: types and unraced baselines, on top of the store's types  *)
(* and intervals.                                                           *)

IInv == TypeAndIntervals /\ BaselineTypeOK /\ UnracedBaselinesAreCurrent

(* A write keeps what readers hold: either it changes nothing that they     *)
(* see, or it raises the revision above the one they hold.                  *)
LEMMA WritesKeep ==
  ASSUME IInv, [Next]_vars, UNCHANGED clients
  PROVE  IInv'
<1> USE DEF TypeAndIntervals
<1>1. TypeAndIntervals'
  BY NextTypeAndIntervals DEF IInv
<1>2. BaselineTypeOK'
  BY DEF IInv, BaselineTypeOK, clients
<1>3. \A q \in Places : /\ BaselineRevision(q) \in Nat
                        /\ BaselineRevision(q)' \in Nat
                        /\ BaselineRevision(q)' >= BaselineRevision(q)
  BY RevisionsRise DEF IInv
<1>4. \A q \in Places, at \in Instants :
        View(q, at)' # View(q, at) => BaselineRevision(q)' > BaselineRevision(q)
  <2>1. CASE UNCHANGED vars
    BY <2>1 DEF vars, View, Readable, Active, Stored
  <2>2. CASE vars' # vars
    BY <2>2, NextCoversViews DEF IInv
  <2> QED
    BY <2>1, <2>2
<1>5. \A q \in Places, at \in Instants, n \in Nat, rows \in Rows :
        /\ n <= BaselineRevision(q)
        /\ n = BaselineRevision(q) => rows = View(q, at)
        => /\ n <= BaselineRevision(q)'
           /\ n = BaselineRevision(q)' => rows = View(q, at)'
  BY <1>3, <1>4
<1>6. ASSUME NEW c \in Clients, reading[c] # NoRequest, NEW r, r = reading[c]
      PROVE  /\ r.since <= BaselineRevision(r.place)'
             /\ r.since = BaselineRevision(r.place)'
                  => r.rows = View(r.place, r.at)'
  <2>1. /\ r.place \in Places /\ r.at \in Instants
        /\ r.since \in Nat /\ r.rows \in Rows
    BY <1>6, QueriedAssumption DEF IInv, BaselineTypeOK, Request
  <2>2. /\ r.since <= BaselineRevision(r.place)
        /\ r.since = BaselineRevision(r.place) => r.rows = View(r.place, r.at)
    BY <1>6 DEF IInv, UnracedBaselinesAreCurrent
  <2> QED
    BY <1>5, <2>1, <2>2
<1>7. ASSUME NEW c \in Clients, NEW q \in Queried, cached[c][q] # NoBaseline,
             NEW b, b = cached[c][q]
      PROVE  /\ b.revision <= BaselineRevision(q)'
             /\ ~b.raced /\ b.revision = BaselineRevision(q)'
                  => b.rows = View(q, b.at)'
  <2>1. /\ q \in Places /\ b.at \in Instants
        /\ b.revision \in Nat /\ b.rows \in Rows
    BY <1>7, QueriedAssumption DEF IInv, BaselineTypeOK, Baseline
  <2>2. /\ b.revision <= BaselineRevision(q)
        /\ ~b.raced /\ b.revision = BaselineRevision(q) => b.rows = View(q, b.at)
    BY <1>7 DEF IInv, UnracedBaselinesAreCurrent
  <2>3. b.revision <= BaselineRevision(q)'
    BY <1>3, <2>1, <2>2
  <2> QED
    BY <1>5, <2>1, <2>2, <2>3
<1>8. UnracedBaselinesAreCurrent'
  BY <1>6, <1>7 DEF UnracedBaselinesAreCurrent, clients
<1> QED
  BY <1>1, <1>2, <1>8 DEF IInv

(* The two statements of a baseline keep it: the first takes the rows with  *)
(* their revision, and the second calls a baseline unraced only when that   *)
(* is still the revision.                                                   *)
LEMMA ReadsKeep ==
  ASSUME IInv, NEW c \in Clients, UNCHANGED vars,
         \/ \E q \in Queried, tokens \in Budgets, at \in Instants :
              ReadRows(c, q, tokens, at)
         \/ AnswerNotModified(c)
         \/ AnswerBaseline(c)
  PROVE  IInv'
<1> USE DEF TypeAndIntervals
<1>1. TypeAndIntervals'
  BY NextTypeAndIntervals DEF IInv
<1>2. \A q, at : /\ View(q, at)' = View(q, at)
                /\ BaselineRevision(q)' = BaselineRevision(q)
  BY DEF vars, View, Readable, Active, Stored, BaselineRevision
<1>3. \A q \in Places : BaselineRevision(q) \in Nat
  BY RevisionsRise DEF IInv
<1>4. ASSUME NEW q \in Queried, NEW tokens \in Budgets, NEW at \in Instants,
             ReadRows(c, q, tokens, at)
      PROVE  BaselineTypeOK' /\ UnracedBaselinesAreCurrent'
  <2> DEFINE r == [place |-> q, tokens |-> tokens, at |-> at,
                   rows |-> View(q, at), since |-> BaselineRevision(q)]
  <2>1. r \in Request
    BY <1>3, ViewType, QueriedAssumption DEF IInv, Request
  <2>2. reading' = [reading EXCEPT ![c] = r] /\ cached' = cached
    BY <1>4 DEF ReadRows
  <2>3. BaselineTypeOK'
    BY <2>1, <2>2 DEF IInv, BaselineTypeOK
  <2>4. UnracedBaselinesAreCurrent'
    BY <1>2, <1>3, <2>2, QueriedAssumption
       DEF IInv, BaselineTypeOK, UnracedBaselinesAreCurrent
  <2> QED
    BY <2>3, <2>4
<1>5. ASSUME AnswerNotModified(c)
      PROVE  BaselineTypeOK' /\ UnracedBaselinesAreCurrent'
  <2>1. reading' = [reading EXCEPT ![c] = NoRequest] /\ cached' = cached
    BY <1>5 DEF AnswerNotModified
  <2> QED
    BY <1>2, <2>1 DEF IInv, BaselineTypeOK, UnracedBaselinesAreCurrent
<1>6. ASSUME AnswerBaseline(c)
      PROVE  BaselineTypeOK' /\ UnracedBaselinesAreCurrent'
  <2>1. PICK r : r = reading[c]
    OBVIOUS
  <2>2. r \in Request
    BY <1>6, <2>1 DEF AnswerBaseline, IInv, BaselineTypeOK
  <2>3. PICK b : b = [revision |-> BaselineRevision(r.place), tokens |-> r.tokens,
                      at |-> r.at, rows |-> r.rows,
                      raced |-> r.since # BaselineRevision(r.place)]
    OBVIOUS
  <2>4. b \in Baseline
    BY <1>3, <2>2, <2>3, QueriedAssumption DEF Request, Baseline
  <2>5. /\ reading' = [reading EXCEPT ![c] = NoRequest]
        /\ cached' = [cached EXCEPT ![c][r.place] = b]
    BY <1>6, <2>1, <2>3 DEF AnswerBaseline
  <2>6. BaselineTypeOK'
    BY <2>2, <2>4, <2>5 DEF IInv, BaselineTypeOK, Request
  <2>7. /\ b.revision <= BaselineRevision(r.place)
        /\ ~b.raced => b.rows = View(r.place, b.at)
    <3>1. r.since = BaselineRevision(r.place) => r.rows = View(r.place, r.at)
      BY <1>6, <2>1 DEF AnswerBaseline, IInv, UnracedBaselinesAreCurrent
    <3>2. ~b.raced => r.since = BaselineRevision(r.place)
      BY <2>3
    <3>3. b.rows = r.rows /\ b.at = r.at /\ b.revision = BaselineRevision(r.place)
      BY <2>3
    <3>4. r.place \in Places
      BY <2>2, QueriedAssumption DEF Request
    <3> QED
      BY <1>3, <3>1, <3>2, <3>3, <3>4
  <2>8. UnracedBaselinesAreCurrent'
    BY <1>2, <2>2, <2>5, <2>7
       DEF IInv, BaselineTypeOK, UnracedBaselinesAreCurrent, Request
  <2> QED
    BY <2>6, <2>8
<1> QED
  BY <1>1, <1>4, <1>5, <1>6 DEF IInv

-----------------------------------------------------------------------------
(* The theorems                                                             *)

(* The invariant holds of every behaviour of clients and writers.           *)
THEOREM Invariance == BaselineSpec => []IInv
<1>1. BaselineInit => IInv
  BY InitTypeAndIntervals, BoundsAssumption
     DEF BaselineInit, IInv, BaselineTypeOK, UnracedBaselinesAreCurrent
<1>2. IInv /\ [BaselineNext]_<<vars, clients>> => IInv'
  <2> SUFFICES ASSUME IInv, [BaselineNext]_<<vars, clients>>
               PROVE  IInv'
    OBVIOUS
  <2>1. CASE Next /\ UNCHANGED clients
    BY <2>1, WritesKeep
  <2>2. ASSUME NEW c \in Clients, NEW q \in Queried, NEW tokens \in Budgets,
               NEW at \in Instants, ReadRows(c, q, tokens, at)
        PROVE  IInv'
    BY <2>2, ReadsKeep DEF ReadRows
  <2>3. ASSUME NEW c \in Clients, AnswerNotModified(c) \/ AnswerBaseline(c)
        PROVE  IInv'
    BY <2>3, ReadsKeep DEF AnswerNotModified, AnswerBaseline
  <2>4. CASE UNCHANGED <<vars, clients>>
    BY <2>4, WritesKeep
  <2> QED
    BY <2>1, <2>2, <2>3, <2>4 DEF BaselineNext
<1> QED
  BY <1>1, <1>2, PTL DEF BaselineSpec

(* A client whose baseline was read with no write between the two reads     *)
(* holds the rows of the store for as long as its etag is the current one.  *)
THEOREM UnracedCorrect == BaselineSpec => []UnracedBaselinesAreCurrent
BY Invariance, PTL DEF IInv
=============================================================================
