------------------------- MODULE MemoryStore_proofs -------------------------
(* What MemoryStore's properties rest on, for any ids, places, contents,    *)
(* clock and inputs.                                                        *)
EXTENDS MemoryStore, TLAPS

-----------------------------------------------------------------------------
(* The helpers                                                              *)

(* The bounds of time are numbers with Forever past the last instant.       *)
LEMMA TimeFacts ==
  /\ Forever \in Nat
  /\ 0..Forever \subseteq Nat
  /\ Instants \subseteq 0..Forever
  /\ \A t \in Instants : t < Forever
BY BoundsAssumption DEF Forever, Instants

(* What a call has read from the clock is an instant that has been.         *)
LEMMA ReadingType ==
  ASSUME NEW at \in ClockReadings
  PROVE  at \in Instants /\ at <= now
BY DEF ClockReadings

(* A reading of the clock and a ttl give an end that is not before it.      *)
LEMMA ExpiryType ==
  ASSUME NEW at \in Instants, NEW ttl \in 0..Forever
  PROVE  Expiry(ttl, at) \in 0..Forever /\ at <= Expiry(ttl, at)
BY BoundsAssumption DEF Expiry, Forever, Instants

(* Raising some counters leaves naturals.                                   *)
LEMMA BumpType ==
  ASSUME baseline_revisions \in [Places -> Nat], NEW places, Bump(places)
  PROVE  baseline_revisions' \in [Places -> Nat]
BY DEF Bump

(* A row given to Put is stored whole but for a sensitivity at least as     *)
(* restrictive, and no other row changes.                                   *)
LEMMA PutType ==
  ASSUME NEW table \in [Ids -> Memory \cup {NoMemory}],
         NEW i \in Ids, NEW r \in Memory
  PROVE  /\ Put(table, i, r) \in [Ids -> Memory \cup {NoMemory}]
         /\ \A j \in Ids \ {i} : Put(table, i, r)[j] = table[j]
         /\ Put(table, i, r)[i] \in Memory
         /\ Put(table, i, r)[i].rank >= r.rank
         /\ table[i] # NoMemory => Put(table, i, r)[i].rank >= table[i].rank
         /\ Put(table, i, r)[i].place = r.place
         /\ Put(table, i, r)[i].content = r.content
         /\ Put(table, i, r)[i].status = r.status
         /\ Put(table, i, r)[i].from = r.from
         /\ Put(table, i, r)[i].until = r.until
<1>1. CASE table[i] = NoMemory
  BY <1>1 DEF Put, Memory, Ephemeral
<1>2. CASE table[i] # NoMemory
  <2> table[i] \in Memory
    BY <1>2
  <2> table[i].rank \in 0..4 /\ r.rank \in 0..4
    BY DEF Memory, Ephemeral
  <2> Higher(table[i].rank, r.rank) \in 0..4
    BY DEF Higher
  <2> DEFINE w == [r EXCEPT !.rank = Higher(table[i].rank, r.rank)]
  <2> w \in Memory
    BY DEF Memory, Ephemeral
  <2> Put(table, i, r) = [table EXCEPT ![i] = w]
    BY <1>2 DEF Put
  <2> Put(table, i, r)[i] = w
    OBVIOUS
  <2> w.rank >= r.rank /\ w.rank >= table[i].rank
    BY DEF Higher, Memory
  <2> QED
    BY DEF Memory
<1> QED
  BY <1>1, <1>2

(* A retired row is a row.                                                  *)
LEMMA RetiredType ==
  ASSUME NEW r \in Memory, NEW status \in Statuses, NEW at \in Instants
  PROVE  /\ Retired(r, status, at) \in Memory
         /\ Retired(r, status, at).rank = r.rank
         /\ Retired(r, status, at).place = r.place
         /\ Retired(r, status, at).content = r.content
         /\ Retired(r, status, at).status = status
BY TimeFacts DEF Retired, Memory, Lower, Instants, Forever

-----------------------------------------------------------------------------
(* The type invariant and the interval invariant: retiring a row needs the  *)
(* row to be well typed, and Put the record it is given.                    *)

TypeAndIntervals == TypeOK /\ ValidIntervals

(* The store starts empty, with every counter at zero.                      *)
LEMMA InitTypeAndIntervals == Init => TypeAndIntervals
BY BoundsAssumption DEF Init, TypeAndIntervals, TypeOK, ValidIntervals, Stored, Instants

(* remember keeps both: a merge only moves an end later.                    *)
LEMMA RememberTypeAndIntervals ==
  ASSUME TypeAndIntervals, NEW p \in Places, NEW c \in Contents,
         NEW rank \in Ranks, NEW pin \in BOOLEAN, NEW ttl \in 0..Forever,
         NEW at \in ClockReadings, Remember(p, c, rank, pin, ttl, at)
  PROVE  TypeAndIntervals'
<1> DEFINE until == Expiry(ttl, at)
<1> USE DEF TypeAndIntervals, TypeOK, ValidIntervals, Stored
<1>1. until \in 0..Forever /\ at \in Instants /\ at <= until
  BY ReadingType, ExpiryType
<1>2. rank \in 0..Ephemeral
  BY InputsAssumption
<1>3. baseline_revisions' \in [Places -> Nat] /\ now' = now
  BY BumpType DEF Remember, RememberMerge, RememberInsert
<1>4. CASE RememberMerge(p, c, rank, pin, until)
  <2>1. PICK i \in ActiveWith(p, c) :
          memories' = [memories EXCEPT ![i].rank   = Higher(@, rank),
                                       ![i].pinned = @ \/ pin,
                                       ![i].until  = Higher(@, until)]
    BY <1>4 DEF RememberMerge
  <2>2. i \in Ids /\ memories[i] \in Memory
    BY DEF ActiveWith, Active
  <2>3. /\ Higher(memories[i].rank, rank) \in 0..Ephemeral
        /\ Higher(memories[i].until, until) \in 0..Forever
        /\ Higher(memories[i].until, until) >= memories[i].until
    BY <1>1, <1>2, <2>2, TimeFacts DEF Higher, Memory, Ephemeral
  <2>4. /\ memories'[i] \in Memory
        /\ memories'[i].from = memories[i].from
        /\ memories'[i].until >= memories[i].until
    BY <2>1, <2>2, <2>3 DEF Memory
  <2>5. \A j \in Ids \ {i} : memories'[j] = memories[j]
    BY <2>1
  <2>6. memories' \in [Ids -> Memory \cup {NoMemory}]
    BY <2>1, <2>4, <2>5
  <2>7. memories[i].from <= memories'[i].until
    BY <2>2, <2>4, TimeFacts, NamesAssumption DEF Memory, Instants
  <2> QED
    BY <1>3, <2>4, <2>5, <2>6, <2>7
<1>5. CASE RememberInsert(p, c, rank, pin, at, until)
  <2> DEFINE new == [place |-> p, content |-> c, status |-> "ACTIVE",
                     rank |-> rank, pinned |-> pin, from |-> at,
                     until |-> until]
  <2>1. PICK i \in Ids : memories' = [memories EXCEPT ![i] = new]
    BY <1>5 DEF RememberInsert
  <2>2. new \in Memory
    BY <1>1, <1>2 DEF Memory, Statuses
  <2> QED
    BY <1>1, <1>3, <2>1, <2>2
<1> QED
  BY <1>4, <1>5 DEF Remember

(* A row with an ordered interval leaves every interval ordered.            *)
LEMMA PutIntervals ==
  ASSUME NEW table \in [Ids -> Memory \cup {NoMemory}],
         \A k \in Ids : table[k] # NoMemory => table[k].from <= table[k].until,
         NEW i \in Ids, NEW r \in Memory, IntervalOK(r)
  PROVE  \A k \in Ids : Put(table, i, r)[k] # NoMemory
           => Put(table, i, r)[k].from <= Put(table, i, r)[k].until
BY PutType DEF IntervalOK

(* upsert_record keeps both: the triggers check the interval it writes.     *)
LEMMA UpsertTypeAndIntervals ==
  ASSUME TypeAndIntervals, NEW i \in Ids, NEW r \in Memory, UpsertRecord(i, r)
  PROVE  TypeAndIntervals'
BY PutType, PutIntervals, BumpType
   DEF UpsertRecord, TypeAndIntervals, TypeOK, ValidIntervals, Stored

(* So does each of the two rows of commit_dream.                            *)
LEMMA DreamTypeAndIntervals ==
  ASSUME TypeAndIntervals, NEW i \in Ids, NEW j \in Ids,
         NEW updated \in Memory, NEW new \in Memory,
         CommitDream(i, updated, j, new)
  PROVE  TypeAndIntervals'
<1> DEFINE first == Put(memories, i, updated)
<1> USE DEF TypeAndIntervals, TypeOK, ValidIntervals, Stored
<1>1. /\ first \in [Ids -> Memory \cup {NoMemory}]
      /\ \A k \in Ids : first[k] # NoMemory => first[k].from <= first[k].until
  BY PutType, PutIntervals DEF CommitDream
<1>2. /\ Put(first, j, new) \in [Ids -> Memory \cup {NoMemory}]
      /\ \A k \in Ids : Put(first, j, new)[k] # NoMemory
           => Put(first, j, new)[k].from <= Put(first, j, new)[k].until
  <2> HIDE DEF first
  <2> QED  BY <1>1, PutType, PutIntervals DEF CommitDream
<1>3. memories' = Put(first, j, new) /\ now' = now
  BY DEF CommitDream
<1>4. baseline_revisions' \in [Places -> Nat]
  BY BumpType DEF CommitDream
<1> QED
  BY <1>2, <1>3, <1>4

(* Retiring a set of rows, as the retiring operations do.                   *)
LEMMA RetireRowsTypeAndIntervals ==
  ASSUME TypeAndIntervals, NEW rows \in SUBSET Ids, NEW status \in Statuses,
         NEW at \in Instants,
         \A i \in rows : Stored(i) /\ IntervalOK(Retired(memories[i], status, at)),
         memories' = [i \in Ids |-> IF i \in rows
                                    THEN Retired(memories[i], status, at)
                                    ELSE memories[i]],
         NEW places, Bump(places), UNCHANGED now
  PROVE  TypeAndIntervals'
<1> USE DEF TypeAndIntervals, TypeOK, ValidIntervals, Stored
<1>1. \A i \in rows : /\ Retired(memories[i], status, at) \in Memory
                      /\ IntervalOK(Retired(memories[i], status, at))
  BY RetiredType
<1>2. memories' \in [Ids -> Memory \cup {NoMemory}]
  BY <1>1
<1>3. baseline_revisions' \in [Places -> Nat]
  BY BumpType
<1> QED
  BY <1>1, <1>2, <1>3 DEF IntervalOK

(* Every step keeps both.                                                   *)
LEMMA NextTypeAndIntervals ==
  TypeAndIntervals /\ [Next]_vars => TypeAndIntervals'
<1> SUFFICES ASSUME TypeAndIntervals, [Next]_vars
             PROVE  TypeAndIntervals'
  OBVIOUS
<1> USE DEF TypeAndIntervals, TypeOK, ValidIntervals, Stored
<1>1. ASSUME NEW p \in Places, NEW c \in Contents, NEW rank \in Ranks,
             NEW pin \in Pins, NEW ttl \in 0..Forever,
             NEW at \in ClockReadings, Remember(p, c, rank, pin, ttl, at)
      PROVE  TypeAndIntervals'
  BY <1>1, RememberTypeAndIntervals, InputsAssumption
<1>2. ASSUME NEW i \in Ids, NEW r \in RecordInputs, UpsertRecord(i, r)
      PROVE  TypeAndIntervals'
  BY <1>2, UpsertTypeAndIntervals, InputsAssumption
<1>3. ASSUME NEW i \in Ids, Forget(i)
      PROVE  TypeAndIntervals'
  BY <1>3, BumpType DEF Forget
<1>4. ASSUME NEW i \in Ids, NEW status \in Statuses,
             NEW at \in ClockReadings, Retire(i, status, at)
      PROVE  TypeAndIntervals'
  BY <1>4, RetiredType, ReadingType, BumpType DEF Retire, IntervalOK
<1>5. ASSUME NEW i \in Ids, NEW status \in Statuses, SetLiveStatus(i, status)
      PROVE  TypeAndIntervals'
  BY <1>5, BumpType DEF SetLiveStatus, Active, Memory
<1>6. ASSUME NEW i \in Ids, NEW pin \in Pins, SetPinned(i, pin)
      PROVE  TypeAndIntervals'
  BY <1>6, BumpType, InputsAssumption DEF SetPinned, Memory
<1>7. ASSUME NEW ws \in Workspaces \cup {Global}, NEW at \in ClockReadings,
             ArchiveWorkspace(ws, at)
      PROVE  TypeAndIntervals'
  BY <1>7, ReadingType, RetireRowsTypeAndIntervals DEF ArchiveWorkspace, Active, Statuses
<1>8. ASSUME NEW i \in Ids, NEW j \in Ids, NEW updated \in DreamInputs,
             NEW new \in DreamInputs, CommitDream(i, updated, j, new)
      PROVE  TypeAndIntervals'
  BY <1>8, DreamTypeAndIntervals, InputsAssumption
<1>9. CASE PruneExpired
  BY <1>9, BumpType DEF PruneExpired
<1>10. CASE Consolidate
  BY <1>10, RetireRowsTypeAndIntervals DEF Consolidate, Active, Statuses
<1>11. CASE Tick
  BY <1>11, BoundsAssumption DEF Tick, Instants
<1>12. CASE UNCHANGED vars
  BY <1>12 DEF vars
<1> QED
  BY <1>1, <1>2, <1>3, <1>4, <1>5, <1>6, <1>7, <1>8, <1>9, <1>10, <1>11,
     <1>12 DEF Next

(* Every value keeps its shape: in particular a lifetime computed by        *)
(* remember stays within the last instant, whatever the clock and the ttl.  *)
THEOREM TypeCorrect == Spec => []TypeOK
BY InitTypeAndIntervals, NextTypeAndIntervals, PTL
   DEF Spec, TypeAndIntervals

(* No operation, in any order and at any instant, stores a row that ends    *)
(* before it starts.                                                        *)
THEOREM IntervalsCorrect == Spec => []ValidIntervals
BY InitTypeAndIntervals, NextTypeAndIntervals, PTL
   DEF Spec, TypeAndIntervals

-----------------------------------------------------------------------------
(* One active row per identity                                              *)

(* A table with no active row that an earlier table of unique identities    *)
(* did not have, with the same identity, has unique identities.             *)
LEMMA FewerActiveStayUnique ==
  ASSUME NEW table, NEW table2, UniqueIn(table),
         \A i \in Ids : table2[i] # NoMemory /\ table2[i].status = "ACTIVE" =>
           /\ table[i] # NoMemory /\ table[i].status = "ACTIVE"
           /\ table2[i].place = table[i].place
           /\ table2[i].content = table[i].content
  PROVE  UniqueIn(table2)
BY DEF UniqueIn

(* Putting a row whose identity no other active row has keeps them unique.  *)
LEMMA PutStaysUnique ==
  ASSUME TypeOK, UniqueIn(memories), NEW i \in Ids, NEW r \in Memory,
         r.status = "ACTIVE" => ActiveWith(r.place, r.content) \subseteq {i}
  PROVE  UniqueIn(Put(memories, i, r))
BY PutType DEF TypeOK, UniqueIn, ActiveWith, Active, Stored

(* Rewriting one stored row within its identity, without making it active,  *)
(* keeps them unique.                                                       *)
LEMMA RewriteStaysUnique ==
  ASSUME TypeOK, UniqueIn(memories), NEW i \in Ids, Stored(i), NEW r,
         memories' = [memories EXCEPT ![i] = r],
         r.status = "ACTIVE" => memories[i].status = "ACTIVE",
         r.place = memories[i].place, r.content = memories[i].content
  PROVE  UniqueIn(memories')
<1>1. \A j \in Ids : memories'[j] # NoMemory /\ memories'[j].status = "ACTIVE" =>
        /\ memories[j] # NoMemory /\ memories[j].status = "ACTIVE"
        /\ memories'[j].place = memories[j].place
        /\ memories'[j].content = memories[j].content
  BY DEF TypeOK, Stored
<1> QED
  BY <1>1, FewerActiveStayUnique

(* remember inserts only an identity that its lookup did not find.          *)
LEMMA RememberStaysUnique ==
  ASSUME TypeOK, UniqueIn(memories), NEW p \in Places, NEW c \in Contents,
         NEW rank, NEW pin, NEW ttl, NEW at, Remember(p, c, rank, pin, ttl, at)
  PROVE  UniqueIn(memories')
<1> DEFINE until == Expiry(ttl, at)
<1>1. CASE RememberMerge(p, c, rank, pin, until)
  <2>1. PICK i \in ActiveWith(p, c) :
          memories' = [memories EXCEPT ![i].rank   = Higher(@, rank),
                                       ![i].pinned = @ \/ pin,
                                       ![i].until  = Higher(@, until)]
    BY <1>1 DEF RememberMerge
  <2>2. i \in Ids /\ memories[i] \in Memory /\ memories[i] # NoMemory
    BY DEF ActiveWith, Active, Stored, TypeOK
  <2>3. /\ memories'[i].status = memories[i].status
        /\ memories'[i].place = memories[i].place
        /\ memories'[i].content = memories[i].content
        /\ \A j \in Ids \ {i} : memories'[j] = memories[j]
    BY <2>1, <2>2 DEF TypeOK, Memory
  <2> QED
    BY <2>2, <2>3, FewerActiveStayUnique
<1>2. CASE RememberInsert(p, c, rank, pin, at, until)
  <2> DEFINE new == [place |-> p, content |-> c, status |-> "ACTIVE",
                     rank |-> rank, pinned |-> pin, from |-> at,
                     until |-> until]
  <2>1. PICK i \in Ids : memories' = [memories EXCEPT ![i] = new]
    BY <1>2 DEF RememberInsert
  <2>2. ActiveWith(p, c) = {}
    BY <1>2 DEF RememberInsert
  <2>3. \A j \in Ids \ {i} : memories'[j] = memories[j]
    BY <2>1 DEF TypeOK
  <2>4. memories'[i].place = p /\ memories'[i].content = c
    BY <2>1 DEF TypeOK
  <2> QED
    BY <2>2, <2>3, <2>4 DEF UniqueIn, ActiveWith, Active, Stored
<1> QED
  BY <1>1, <1>2 DEF Remember

(* Every step keeps the active identities unique.                           *)
LEMMA NextStaysUnique ==
  TypeOK /\ UniqueActiveIdentity /\ [Next]_vars => UniqueActiveIdentity'
<1> SUFFICES ASSUME TypeOK, UniqueIn(memories), [Next]_vars
             PROVE  UniqueIn(memories')
  BY DEF UniqueActiveIdentity, UniqueIn
<1> USE DEF TypeOK, Stored
<1>1. ASSUME NEW p \in Places, NEW c \in Contents, NEW rank \in Ranks,
             NEW pin \in Pins, NEW ttl \in 0..Forever,
             NEW at \in ClockReadings, Remember(p, c, rank, pin, ttl, at)
      PROVE  UniqueIn(memories')
  BY <1>1, RememberStaysUnique
<1>2. ASSUME NEW i \in Ids, NEW r \in RecordInputs, UpsertRecord(i, r)
      PROVE  UniqueIn(memories')
  BY <1>2, PutStaysUnique, InputsAssumption DEF UpsertRecord
<1>3. ASSUME NEW i \in Ids, Forget(i)
      PROVE  UniqueIn(memories')
  BY <1>3, FewerActiveStayUnique DEF Forget
<1>4. ASSUME NEW i \in Ids, NEW status \in Statuses,
             NEW at \in ClockReadings, Retire(i, status, at)
      PROVE  UniqueIn(memories')
  <2>1. memories[i] \in Memory /\ now \in Instants
    BY <1>4 DEF Retire
  <2> QED
    BY <1>4, <2>1, RetiredType, ReadingType, RewriteStaysUnique DEF Retire
<1>5. ASSUME NEW i \in Ids, NEW status \in Statuses, SetLiveStatus(i, status)
      PROVE  UniqueIn(memories')
  <2> DEFINE r == [memories[i] EXCEPT !.status = status]
  <2>1. memories[i] \in Memory /\ memories[i].status = "ACTIVE" /\ Stored(i)
    BY <1>5 DEF SetLiveStatus, Active
  <2>2. memories' = [memories EXCEPT ![i] = r]
    BY <1>5 DEF SetLiveStatus
  <2>3. r.place = memories[i].place /\ r.content = memories[i].content
    BY <2>1 DEF Memory
  <2> HIDE DEF r
  <2> QED
    BY <2>1, <2>2, <2>3, RewriteStaysUnique
<1>6. ASSUME NEW i \in Ids, NEW pin \in Pins, SetPinned(i, pin)
      PROVE  UniqueIn(memories')
  <2> DEFINE r == [memories[i] EXCEPT !.pinned = pin]
  <2>1. memories[i] \in Memory /\ Stored(i)
    BY <1>6 DEF SetPinned
  <2>2. memories' = [memories EXCEPT ![i] = r]
    BY <1>6 DEF SetPinned
  <2>3. /\ r.place = memories[i].place /\ r.content = memories[i].content
        /\ r.status = memories[i].status
    BY <2>1 DEF Memory
  <2> HIDE DEF r
  <2> QED
    BY <2>1, <2>2, <2>3, RewriteStaysUnique
<1>7. ASSUME NEW ws \in Workspaces \cup {Global}, NEW at \in ClockReadings,
             ArchiveWorkspace(ws, at)
      PROVE  UniqueIn(memories')
  <2> DEFINE rows == {i \in Ids : Active(i) /\ memories[i].place[1] = ws}
  <2>1. memories' = [i \in Ids |-> IF i \in rows
                                   THEN Retired(memories[i], "ARCHIVED", at)
                                   ELSE memories[i]]
    BY <1>7 DEF ArchiveWorkspace
  <2>2. \A i \in rows : memories'[i].status = "ARCHIVED"
    BY <2>1, RetiredType, ReadingType DEF Active, Statuses
  <2>3. \A i \in Ids \ rows : memories'[i] = memories[i]
    BY <2>1
  <2> HIDE DEF rows
  <2> QED
    BY <2>2, <2>3, FewerActiveStayUnique
<1>8. ASSUME NEW i \in Ids, NEW j \in Ids, NEW updated \in DreamInputs,
             NEW new \in DreamInputs, CommitDream(i, updated, j, new)
      PROVE  UniqueIn(memories')
  BY <1>8 DEF CommitDream
<1>9. CASE PruneExpired
  BY <1>9, FewerActiveStayUnique DEF PruneExpired
<1>10. CASE Consolidate
  <2> DEFINE Keeper(i) == CHOOSE k \in ActiveWith(memories[i].place,
                                                  memories[i].content) : TRUE
             losers    == {i \in Ids : Active(i) /\ i # Keeper(i)}
  <2>1. memories' = [i \in Ids |-> IF i \in losers
                                   THEN Retired(memories[i], "SUPERSEDED", now)
                                   ELSE memories[i]]
    BY <1>10 DEF Consolidate
  <2>2. \A i \in losers : memories'[i].status = "SUPERSEDED"
    BY <2>1 DEF Retired, Memory, Active
  <2>3. \A i \in Ids \ losers : memories'[i] = memories[i]
    BY <2>1
  <2> HIDE DEF losers
  <2> QED
    BY <2>2, <2>3, FewerActiveStayUnique
<1>11. CASE Tick
  BY <1>11 DEF Tick
<1>12. CASE UNCHANGED vars
  BY <1>12 DEF vars
<1> QED
  BY <1>1, <1>2, <1>3, <1>4, <1>5, <1>6, <1>7, <1>8, <1>9, <1>10, <1>11,
     <1>12 DEF Next

(* At most one active row per identity at all times: the lookups of remember *)
(* and upsert_record and the conditions of set_status suffice, so only a    *)
(* dream commit can ever be refused by the unique index.                    *)
THEOREM UniqueIdentityCorrect == Spec => []UniqueActiveIdentity
<1>1. Init => UniqueActiveIdentity
  BY DEF Init, UniqueActiveIdentity, UniqueIn
<1> QED
  BY <1>1, TypeCorrect, NextStaysUnique, PTL DEF Spec

-----------------------------------------------------------------------------
(* Sensitivity                                                              *)

(* No step, from any well-typed state, lowers the sensitivity of a row that *)
(* it keeps.                                                                *)
LEMMA NextNeverLowers ==
  TypeOK /\ [Next]_vars =>
    [\A i \in Ids : Stored(i) /\ Stored(i)' =>
                      memories'[i].rank >= memories[i].rank]_vars
<1> SUFFICES ASSUME TypeOK, [Next]_vars,
                    NEW k \in Ids, Stored(k), Stored(k)'
             PROVE  memories'[k].rank >= memories[k].rank
  OBVIOUS
<1> USE DEF TypeOK, Stored
<1>0. memories[k] \in Memory /\ memories[k].rank \in Nat
  BY DEF Memory, Ephemeral
<1>1. ASSUME NEW p \in Places, NEW c \in Contents, NEW rank \in Ranks,
             NEW pin \in Pins, NEW ttl \in 0..Forever,
             NEW at \in ClockReadings, Remember(p, c, rank, pin, ttl, at)
      PROVE  memories'[k].rank >= memories[k].rank
  <2>1. CASE RememberMerge(p, c, rank, pin, Expiry(ttl, at))
    <3>1. PICK i \in ActiveWith(p, c) :
            memories' = [memories EXCEPT ![i].rank   = Higher(@, rank),
                                         ![i].pinned = @ \/ pin,
                                         ![i].until  = Higher(@, Expiry(ttl, at))]
      BY <2>1 DEF RememberMerge
    <3>2. i \in Ids /\ rank \in Nat
      BY InputsAssumption DEF ActiveWith, Ephemeral
    <3> QED
      BY <1>0, <3>1, <3>2 DEF Higher, Memory
  <2>2. CASE RememberInsert(p, c, rank, pin, at, Expiry(ttl, at))
    BY <1>0, <2>2 DEF RememberInsert
  <2> QED
    BY <1>1, <2>1, <2>2 DEF Remember
<1>2. ASSUME NEW i \in Ids, NEW r \in RecordInputs, UpsertRecord(i, r)
      PROVE  memories'[k].rank >= memories[k].rank
  BY <1>0, <1>2, PutType, InputsAssumption DEF UpsertRecord
<1>3. ASSUME NEW i \in Ids, Forget(i)
      PROVE  memories'[k].rank >= memories[k].rank
  BY <1>0, <1>3 DEF Forget
<1>4. ASSUME NEW i \in Ids, NEW status \in Statuses,
             NEW at \in ClockReadings, Retire(i, status, at)
      PROVE  memories'[k].rank >= memories[k].rank
  BY <1>0, <1>4 DEF Retire, Retired, Memory
<1>5. ASSUME NEW i \in Ids, NEW status \in Statuses, SetLiveStatus(i, status)
      PROVE  memories'[k].rank >= memories[k].rank
  BY <1>0, <1>5 DEF SetLiveStatus, Memory
<1>6. ASSUME NEW i \in Ids, NEW pin \in Pins, SetPinned(i, pin)
      PROVE  memories'[k].rank >= memories[k].rank
  BY <1>0, <1>6 DEF SetPinned, Memory
<1>7. ASSUME NEW ws \in Workspaces \cup {Global}, NEW at \in ClockReadings,
             ArchiveWorkspace(ws, at)
      PROVE  memories'[k].rank >= memories[k].rank
  <2>1. Retired(memories[k], "ARCHIVED", at).rank = memories[k].rank
    BY <1>0, RetiredType, ReadingType DEF Statuses
  <2> QED
    BY <1>0, <1>7, <2>1 DEF ArchiveWorkspace
<1>8. ASSUME NEW i \in Ids, NEW j \in Ids, NEW updated \in DreamInputs,
             NEW new \in DreamInputs, CommitDream(i, updated, j, new)
      PROVE  memories'[k].rank >= memories[k].rank
  <2> DEFINE first == Put(memories, i, updated)
  <2>1. /\ first \in [Ids -> Memory \cup {NoMemory}]
        /\ first[k] \in Memory /\ first[k].rank >= memories[k].rank
    BY <1>0, <1>8, PutType, InputsAssumption, NamesAssumption
  <2>2. first[k].rank \in Nat
    BY <2>1 DEF Memory, Ephemeral
  <2> HIDE DEF first
  <2>3. /\ Put(first, j, new)[k] \in Memory
        /\ Put(first, j, new)[k].rank >= first[k].rank
    BY <2>1, <2>2, PutType, InputsAssumption, NamesAssumption
  <2>4. Put(first, j, new)[k].rank \in Nat
    BY <2>3 DEF Memory, Ephemeral
  <2>5. memories' = Put(first, j, new)
    BY <1>8 DEF CommitDream, first
  <2> QED
    BY <1>0, <2>1, <2>2, <2>3, <2>4, <2>5
<1>9. CASE PruneExpired
  BY <1>0, <1>9 DEF PruneExpired
<1>10. CASE Consolidate
  <2>1. Retired(memories[k], "SUPERSEDED", now).rank = memories[k].rank
    BY <1>0 DEF Retired, Memory
  <2> QED
    BY <1>0, <1>10, <2>1 DEF Consolidate
<1>11. CASE Tick
  BY <1>0, <1>11 DEF Tick
<1>12. CASE UNCHANGED vars
  BY <1>0, <1>12 DEF vars
<1> QED
  BY <1>1, <1>2, <1>3, <1>4, <1>5, <1>6, <1>7, <1>8, <1>9, <1>10, <1>11,
     <1>12 DEF Next

(* Monotonic sensitivity, for every sequence of remembers, upserts, status  *)
(* changes, dreams and maintenance.                                         *)
THEOREM SensitivityCorrect == Spec => SensitivityNeverLowered
BY TypeCorrect, NextNeverLowers, PTL DEF Spec, SensitivityNeverLowered

-----------------------------------------------------------------------------
(* The revision of a reader covers what the reader sees                     *)

(* Every row that the step changes lies, before and after, in these places. *)
Within(places) ==
  \A i \in Ids : memories'[i] # memories[i] =>
    /\ Stored(i)  => memories[i].place \in places
    /\ Stored(i)' => memories'[i].place \in places

(* Raising the counter of a place that a reader covers raises the reader's  *)
(* revision, and raising others does not lower it.                          *)
LEMMA BumpRaises ==
  ASSUME TypeOK, NEW places, Bump(places),
         NEW q \in Places, NEW p \in Covered(q), p \in places, p \in Places
  PROVE  BaselineRevision(q)' > BaselineRevision(q)
<1>1. \A x \in Places : /\ baseline_revisions[x] \in Nat
                        /\ baseline_revisions'[x] \in Nat
                        /\ baseline_revisions'[x] >= baseline_revisions[x]
                        /\ x \in places =>
                             baseline_revisions'[x] > baseline_revisions[x]
  BY DEF TypeOK, Bump
<1>2. <<Global, NoKey>> \in Places
  BY DEF Places
<1>3. CASE q[1] = Global
  <2>1. q = <<Global, NoKey>>
    BY <1>3, NamesAssumption DEF Places
  <2> QED
    BY <1>1, <1>2, <2>1 DEF BaselineRevision, Covered
<1>4. CASE q[1] # Global
  <2>1. q \in Workspaces \X (Keys \cup {NoKey})
    BY <1>4 DEF Places
  <2>2. <<q[1], NoKey>> \in Places
    BY <2>1 DEF Places
  <2>3. q[2] = NoKey => q = <<q[1], NoKey>>
    BY <2>1
  <2> QED
    BY <1>1, <1>2, <1>4, <2>2, <2>3 DEF BaselineRevision, Covered
<1> QED
  BY <1>3, <1>4

(* A step that changes rows only within the places it raises covers every   *)
(* change of every view.                                                    *)
LEMMA BumpCoversViews ==
  ASSUME TypeOK, NEW places \in SUBSET Places, Bump(places), Within(places),
         NEW q \in Places, NEW at \in Instants, View(q, at)' # View(q, at)
  PROVE  BaselineRevision(q)' > BaselineRevision(q)
<1>1. PICK i \in Ids : /\ memories'[i] # memories[i]
                       /\ i \in Readable(q, at) \/ i \in Readable(q, at)'
  <2> SUFFICES ASSUME \A i \in Ids :
                        i \in Readable(q, at) \/ i \in Readable(q, at)'
                          => memories'[i] = memories[i]
               PROVE  View(q, at)' = View(q, at)
    OBVIOUS
  <2>1. Readable(q, at)' = Readable(q, at)
    BY DEF Readable, Active, Stored, IsValidAt
  <2>2. \A i \in Readable(q, at) : memories'[i] = memories[i]
    BY DEF Readable
  <2> QED
    BY <2>1, <2>2 DEF View
<1>2. PICK p \in places : p \in Covered(q)
  <2>1. CASE i \in Readable(q, at)
    BY <1>1, <2>1 DEF Within, Readable, Active
  <2>2. CASE i \in Readable(q, at)'
    BY <1>1, <2>2 DEF Within, Readable, Active, Covered
  <2> QED
    BY <1>1, <2>1, <2>2
<1> QED
  BY <1>2, BumpRaises

(* Some places are raised that every changed row lies within.               *)
ChangesCovered == \E P \in SUBSET Places : Bump(P) /\ Within(P)

(* The two facts together, in the form in which they are used.              *)
LEMMA CoveredBy ==
  ASSUME NEW P, P \subseteq Places, Bump(P), Within(P)
  PROVE  ChangesCovered
BY DEF ChangesCovered

(* Every writing step raises the places of every row that it changes.       *)
LEMMA NextBumps ==
  ASSUME TypeOK, Next
  PROVE  memories' = memories \/ ChangesCovered
<1> USE DEF TypeOK, Stored
<1>0. \A ids \in SUBSET Ids : PlacesOf(ids) \subseteq Places
  BY DEF PlacesOf, Memory
<1>1. ASSUME NEW p \in Places, NEW c \in Contents, NEW rank \in Ranks,
             NEW pin \in Pins, NEW ttl \in 0..Forever,
             NEW at \in ClockReadings, Remember(p, c, rank, pin, ttl, at)
      PROVE  ChangesCovered
  <2>1. CASE RememberMerge(p, c, rank, pin, Expiry(ttl, at))
    <3>1. PICK i \in ActiveWith(p, c) :
            memories' = [memories EXCEPT ![i].rank   = Higher(@, rank),
                                         ![i].pinned = @ \/ pin,
                                         ![i].until  = Higher(@, Expiry(ttl, at))]
      BY <2>1 DEF RememberMerge
    <3>2. i \in Ids /\ memories[i] \in Memory /\ memories[i].place = p
      BY DEF ActiveWith, Active
    <3>3. memories'[i].place = p /\ \A j \in Ids \ {i} : memories'[j] = memories[j]
      BY <3>1, <3>2 DEF Memory
    <3>4. Within({p})
      BY <3>2, <3>3 DEF Within
    <3> QED
      BY <2>1, <3>4, CoveredBy DEF RememberMerge
  <2>2. CASE RememberInsert(p, c, rank, pin, at, Expiry(ttl, at))
    <3>1. Within({p}) /\ Bump({p})
      BY <2>2 DEF RememberInsert, Within
    <3> QED
      BY <3>1, CoveredBy DEF Within, Bump
  <2> QED
    BY <1>1, <2>1, <2>2 DEF Remember
<1>2. ASSUME NEW i \in Ids, NEW r \in RecordInputs, UpsertRecord(i, r)
      PROVE  ChangesCovered
  <2> DEFINE places == {r.place} \cup PlacesOf({i})
  <2>1. r \in Memory /\ places \subseteq Places
    BY <1>0, InputsAssumption DEF Memory
  <2>2. Within(places) /\ Bump(places)
    BY <1>2, <2>1, PutType DEF UpsertRecord, Within, PlacesOf
  <2> QED
    BY <2>1, <2>2, CoveredBy DEF Within, Bump
<1>3. ASSUME NEW i \in Ids, Forget(i)
      PROVE  ChangesCovered
  <2>1. Within(PlacesOf({i})) /\ Bump(PlacesOf({i}))
    BY <1>3 DEF Forget, Within, PlacesOf
  <2> QED
    BY <1>0, <2>1, CoveredBy DEF Within, Bump
<1>4. ASSUME NEW i \in Ids, NEW status \in Statuses,
             NEW at \in ClockReadings, Retire(i, status, at)
      PROVE  ChangesCovered
  <2>1. memories[i] \in Memory
    BY <1>4 DEF Retire
  <2>2. Within(PlacesOf({i})) /\ Bump(PlacesOf({i}))
    BY <1>4, <2>1, RetiredType, ReadingType DEF Retire, Within, PlacesOf
  <2> QED
    BY <1>0, <2>2, CoveredBy DEF Within, Bump
<1>5. ASSUME NEW i \in Ids, NEW status \in Statuses, SetLiveStatus(i, status)
      PROVE  ChangesCovered
  <2>1. memories[i] \in Memory
    BY <1>5 DEF SetLiveStatus, Active
  <2>2. /\ memories'[i].place = memories[i].place
        /\ \A j \in Ids \ {i} : memories'[j] = memories[j]
    BY <1>5, <2>1 DEF SetLiveStatus, Memory
  <2>3. Within(PlacesOf({i})) /\ Bump(PlacesOf({i}))
    BY <1>5, <2>2 DEF SetLiveStatus, Active, Within, PlacesOf
  <2> QED
    BY <1>0, <2>3, CoveredBy DEF Within, Bump
<1>6. ASSUME NEW i \in Ids, NEW pin \in Pins, SetPinned(i, pin)
      PROVE  ChangesCovered
  <2>1. memories[i] \in Memory
    BY <1>6 DEF SetPinned
  <2>2. /\ memories'[i].place = memories[i].place
        /\ \A j \in Ids \ {i} : memories'[j] = memories[j]
    BY <1>6, <2>1 DEF SetPinned, Memory
  <2>3. Within(PlacesOf({i})) /\ Bump(PlacesOf({i}))
    BY <1>6, <2>2 DEF SetPinned, Within, PlacesOf
  <2> QED
    BY <1>0, <2>3, CoveredBy DEF Within, Bump
<1>7. ASSUME NEW ws \in Workspaces \cup {Global}, NEW at \in ClockReadings,
             ArchiveWorkspace(ws, at)
      PROVE  ChangesCovered
  <2> DEFINE rows == {i \in Ids : Active(i) /\ memories[i].place[1] = ws}
  <2>1. /\ memories' = [i \in Ids |-> IF i \in rows
                                     THEN Retired(memories[i], "ARCHIVED", at)
                                     ELSE memories[i]]
        /\ Bump(PlacesOf(rows))
    BY <1>7 DEF ArchiveWorkspace
  <2>2. \A i \in rows : Stored(i) /\ memories'[i].place = memories[i].place
    BY <2>1, RetiredType, ReadingType DEF Active, Statuses
  <2>3. \A i \in Ids \ rows : memories'[i] = memories[i]
    BY <2>1
  <2>4. rows \in SUBSET Ids
    OBVIOUS
  <2> HIDE DEF rows
  <2>5. Within(PlacesOf(rows))
    BY <2>2, <2>3 DEF Within, PlacesOf
  <2> QED
    BY <1>0, <2>1, <2>4, <2>5, CoveredBy DEF Within, Bump
<1>8. ASSUME NEW i \in Ids, NEW j \in Ids, NEW updated \in DreamInputs,
             NEW new \in DreamInputs, CommitDream(i, updated, j, new)
      PROVE  ChangesCovered
  <2> DEFINE first  == Put(memories, i, updated)
             places == {updated.place, new.place} \cup PlacesOf({i, j})
  <2>1. updated \in Memory /\ new \in Memory /\ places \subseteq Places
    BY <1>0, InputsAssumption DEF Memory
  <2>2. /\ first \in [Ids -> Memory \cup {NoMemory}]
        /\ \A k \in Ids \ {i} : first[k] = memories[k]
        /\ first[i].place = updated.place
    BY <2>1, PutType
  <2> HIDE DEF first
  <2>3. /\ \A k \in Ids \ {j} : Put(first, j, new)[k] = first[k]
        /\ Put(first, j, new)[j].place = new.place
    BY <2>1, <2>2, PutType
  <2>4. memories' = Put(first, j, new) /\ Bump(places)
    BY <1>8 DEF CommitDream, first
  <2>5. \A k \in {i, j} : Stored(k) => memories[k].place \in places
    BY DEF PlacesOf
  <2>6. Within(places)
    BY <2>2, <2>3, <2>4, <2>5 DEF Within
  <2> QED
    BY <2>1, <2>4, <2>6, CoveredBy DEF Within, Bump
<1>9. CASE PruneExpired
  <2> DEFINE expired == {i \in Ids : Active(i) /\ memories[i].until <= now}
  <2>1. /\ memories' = [i \in Ids |-> IF i \in expired THEN NoMemory
                                                       ELSE memories[i]]
        /\ Bump(PlacesOf(expired))
    BY <1>9 DEF PruneExpired
  <2>2. \A i \in expired : Stored(i)
    BY DEF Active
  <2>3. expired \in SUBSET Ids
    OBVIOUS
  <2> HIDE DEF expired
  <2>4. Within(PlacesOf(expired))
    BY <2>1, <2>2 DEF Within, PlacesOf
  <2> QED
    BY <1>0, <2>1, <2>3, <2>4, CoveredBy DEF Within, Bump
<1>10. CASE Consolidate
  <2> DEFINE Keeper(i) == CHOOSE k \in ActiveWith(memories[i].place,
                                                  memories[i].content) : TRUE
             losers    == {i \in Ids : Active(i) /\ i # Keeper(i)}
  <2>1. /\ memories' = [i \in Ids |-> IF i \in losers
                                     THEN Retired(memories[i], "SUPERSEDED", now)
                                     ELSE memories[i]]
        /\ Bump(PlacesOf(losers))
    BY <1>10 DEF Consolidate
  <2>2. \A i \in losers : Stored(i) /\ memories'[i].place = memories[i].place
    BY <2>1, RetiredType, ReadingType DEF Active, Statuses
  <2>3. \A i \in Ids \ losers : memories'[i] = memories[i]
    BY <2>1
  <2>4. losers \in SUBSET Ids
    OBVIOUS
  <2> HIDE DEF losers
  <2>5. Within(PlacesOf(losers))
    BY <2>2, <2>3 DEF Within, PlacesOf
  <2> QED
    BY <1>0, <2>1, <2>4, <2>5, CoveredBy DEF Within, Bump
<1>11. CASE Tick
  BY <1>11 DEF Tick
<1> QED
  BY <1>1, <1>2, <1>3, <1>4, <1>5, <1>6, <1>7, <1>8, <1>9, <1>10, <1>11
     DEF Next

(* No step changes a view without raising its revision.                     *)
LEMMA NextCoversViews ==
  TypeOK /\ [Next]_vars =>
    [\A q \in Places, at \in Instants :
       View(q, at)' # View(q, at)
         => BaselineRevision(q)' > BaselineRevision(q)]_vars
<1> SUFFICES ASSUME TypeOK, Next, NEW q \in Places, NEW at \in Instants,
                    View(q, at)' # View(q, at)
             PROVE  BaselineRevision(q)' > BaselineRevision(q)
  OBVIOUS
<1>1. CASE memories' = memories
  <2>1. View(q, at)' = View(q, at)
    BY <1>1 DEF View, Readable, Active, Stored, IsValidAt
  <2> QED
    BY <2>1
<1>2. CASE ChangesCovered
  <2>1. PICK P \in SUBSET Places : Bump(P) /\ Within(P)
    BY <1>2 DEF ChangesCovered
  <2> QED
    BY <2>1, BumpCoversViews
<1> QED
  BY <1>1, <1>2, NextBumps

(* Whatever a reader of any place could see, at any instant, is a function  *)
(* of the revision: no step changes the first and keeps the second.         *)
THEOREM RevisionCorrect == Spec => RevisionCoversViews
BY TypeCorrect, NextCoversViews, PTL DEF Spec, RevisionCoversViews

-----------------------------------------------------------------------------
(* Erasure and recall                                                       *)

(* Only forget and prune_expired make a row disappear.                      *)
LEMMA NextErasesUnusable ==
  TypeOK /\ [Next]_vars =>
    [\A i \in Ids : Stored(i) /\ ~Stored(i)' =>
       \/ Forget(i)
       \/ Active(i) /\ \A at \in now..MaxTime : ~IsValidAt(memories[i], at)]_vars
<1> SUFFICES ASSUME TypeOK, Next, NEW k \in Ids, Stored(k), ~Stored(k)'
             PROVE  \/ Forget(k)
                    \/ /\ Active(k)
                       /\ \A at \in now..MaxTime : ~IsValidAt(memories[k], at)
  OBVIOUS
<1> USE DEF TypeOK, Stored
<1>0. memories[k] \in Memory /\ memories[k] # NoMemory /\ memories'[k] = NoMemory
  OBVIOUS
<1>1. ASSUME NEW p \in Places, NEW c \in Contents, NEW rank \in Ranks,
             NEW pin \in Pins, NEW ttl \in 0..Forever,
             NEW at \in ClockReadings, Remember(p, c, rank, pin, ttl, at)
      PROVE  FALSE
  <2>1. CASE RememberMerge(p, c, rank, pin, Expiry(ttl, at))
    <3>1. PICK i \in ActiveWith(p, c) :
            memories' = [memories EXCEPT ![i].rank   = Higher(@, rank),
                                         ![i].pinned = @ \/ pin,
                                         ![i].until  = Higher(@, Expiry(ttl, at))]
      BY <2>1 DEF RememberMerge
    <3>2. k = i
      BY <1>0, <3>1
    <3>4. memories'[k] = [memories[k] EXCEPT
                            !.rank   = Higher(@, rank),
                            !.pinned = @ \/ pin,
                            !.until  = Higher(@, Expiry(ttl, at))]
      BY <3>1, <3>2 DEF ActiveWith
    <3>5. memories'[k] \in Memory
      <4>1. /\ Higher(memories[k].rank, rank) \in 0..Ephemeral
            /\ Higher(memories[k].until, Expiry(ttl, at)) \in 0..Forever
        BY <1>0, ExpiryType, ReadingType, TimeFacts, InputsAssumption
           DEF Higher, Memory, Ephemeral
      <4> QED
        BY <1>0, <3>4, <4>1, InputsAssumption DEF Memory
    <3> QED
      BY <1>0, <3>5, NamesAssumption
  <2>2. CASE RememberInsert(p, c, rank, pin, at, Expiry(ttl, at))
    BY <1>0, <2>2 DEF RememberInsert
  <2> QED
    BY <1>1, <2>1, <2>2 DEF Remember
<1>2. ASSUME NEW i \in Ids, NEW r \in RecordInputs, UpsertRecord(i, r)
      PROVE  FALSE
  BY <1>0, <1>2, PutType, InputsAssumption, NamesAssumption DEF UpsertRecord
<1>3. ASSUME NEW i \in Ids, Forget(i)
      PROVE  Forget(k)
  <2>1. i = k
    BY <1>0, <1>3 DEF Forget
  <2> QED
    BY <1>3, <2>1
<1>4. ASSUME NEW i \in Ids, NEW status \in Statuses,
             NEW at \in ClockReadings, Retire(i, status, at)
      PROVE  FALSE
  BY <1>0, <1>4, RetiredType, ReadingType, NamesAssumption DEF Retire
<1>5. ASSUME NEW i \in Ids, NEW status \in Statuses, SetLiveStatus(i, status)
      PROVE  FALSE
  <2>1. [memories[k] EXCEPT !.status = status] \in Memory
    BY <1>0 DEF Memory
  <2> QED
    BY <1>0, <1>5, <2>1, NamesAssumption DEF SetLiveStatus
<1>6. ASSUME NEW i \in Ids, NEW pin \in Pins, SetPinned(i, pin)
      PROVE  FALSE
  <2>1. [memories[k] EXCEPT !.pinned = pin] \in Memory
    BY <1>0, InputsAssumption DEF Memory
  <2> QED
    BY <1>0, <1>6, <2>1, NamesAssumption DEF SetPinned
<1>7. ASSUME NEW ws \in Workspaces \cup {Global}, NEW at \in ClockReadings,
             ArchiveWorkspace(ws, at)
      PROVE  FALSE
  BY <1>0, <1>7, RetiredType, ReadingType, NamesAssumption DEF ArchiveWorkspace, Statuses
<1>8. ASSUME NEW i \in Ids, NEW j \in Ids, NEW updated \in DreamInputs,
             NEW new \in DreamInputs, CommitDream(i, updated, j, new)
      PROVE  FALSE
  <2> DEFINE first == Put(memories, i, updated)
  <2>1. first \in [Ids -> Memory \cup {NoMemory}] /\ first[k] \in Memory
    BY <1>0, PutType, InputsAssumption
  <2> HIDE DEF first
  <2>2. Put(first, j, new)[k] \in Memory
    BY <2>1, PutType, InputsAssumption
  <2>3. memories' = Put(first, j, new)
    BY <1>8 DEF CommitDream, first
  <2> QED
    BY <1>0, <2>2, <2>3, NamesAssumption
<1>9. ASSUME PruneExpired
      PROVE  /\ Active(k)
             /\ \A at \in now..MaxTime : ~IsValidAt(memories[k], at)
  <2>1. Active(k) /\ memories[k].until <= now
    BY <1>0, <1>9 DEF PruneExpired
  <2>2. memories[k].until \in Nat /\ now \in Nat /\ MaxTime \in Nat
    BY <1>0, TimeFacts, BoundsAssumption DEF Memory, Instants
  <2> QED
    BY <2>1, <2>2 DEF IsValidAt
<1>10. ASSUME Consolidate
       PROVE  FALSE
  BY <1>0, <1>10, RetiredType, NamesAssumption DEF Consolidate, Statuses
<1>11. ASSUME Tick
       PROVE  FALSE
  BY <1>0, <1>11 DEF Tick
<1> QED
  BY <1>1, <1>2, <1>3, <1>4, <1>5, <1>6, <1>7, <1>8, <1>9, <1>10, <1>11
     DEF Next

(* Maintenance, merges, dreams and archiving erase nothing that a reader    *)
(* could use now or later, and never a retired row.                         *)
THEOREM ErasureCorrect == Spec => OnlyForgetErasesUsableRows
BY TypeCorrect, NextErasesUnusable, PTL DEF Spec, OnlyForgetErasesUsableRows

(* The row that remember wrote or merged into can be recalled until its end *)
(* and the end that it had before.                                          *)
LEMMA RememberRecalls ==
  ASSUME TypeOK, UniqueActiveIdentity, NEW p \in Places, NEW c \in Contents,
         NEW rank \in Ranks, NEW pin \in BOOLEAN, NEW ttl \in 0..Forever,
         NEW at \in ClockReadings, Remember(p, c, rank, pin, ttl, at),
         ~Shadowed(p, c), NEW t \in now..MaxTime,
         t < Expiry(ttl, at) \/ Recallable(p, c, 0, t)
  PROVE  Recallable(p, c, rank, t)'
<1> DEFINE until == Expiry(ttl, at)
<1> USE DEF TypeOK
<1>1. /\ until \in 0..Forever /\ at \in Instants /\ at <= until
      /\ now \in Nat /\ t \in Nat /\ at <= t /\ now <= t
      /\ rank \in 0..4 /\ rank # 4
  <2>1. at \in Instants /\ at <= now /\ until \in 0..Forever /\ at <= until
    BY ReadingType, ExpiryType
  <2>2. rank \in 0..4 /\ rank # 4
    BY InputsAssumption DEF Remember, Ephemeral
  <2> QED
    BY <2>1, <2>2, BoundsAssumption DEF Instants
<1>2. p \in Covered(p)
  BY DEF Covered
<1>3. CASE RememberMerge(p, c, rank, pin, until)
  <2>1. PICK i \in ActiveWith(p, c) :
          memories' = [memories EXCEPT ![i].rank   = Higher(@, rank),
                                       ![i].pinned = @ \/ pin,
                                       ![i].until  = Higher(@, until)]
    BY <1>3 DEF RememberMerge
  <2>2. /\ i \in Ids /\ memories[i] \in Memory
        /\ memories[i].status = "ACTIVE"
        /\ memories[i].place = p /\ memories[i].content = c
        /\ memories[i].from <= now /\ memories[i].rank # 4
    BY <1>1, TimeFacts DEF ActiveWith, Active, Stored, Shadowed, Memory, Instants, Ephemeral
  <2>3. /\ memories[i].rank \in 0..4 /\ memories[i].until \in 0..Forever
        /\ memories[i].from \in Nat /\ 0..Forever \subseteq Nat
    BY <2>2, TimeFacts DEF Memory, Ephemeral
  <2>4. t < until \/ t < memories[i].until
    <3>1. CASE t < until
      BY <3>1
    <3>2. CASE Recallable(p, c, 0, t)
      <4>1. PICK k \in Readable(p, t) :
              memories[k].place = p /\ memories[k].content = c
        BY <3>2 DEF Recallable
      <4>2. k = i
        BY <2>1, <4>1
           DEF UniqueActiveIdentity, UniqueIn, Readable, ActiveWith, Active, Stored
      <4> QED
        BY <4>1, <4>2 DEF Readable, IsValidAt
    <3> QED
      BY <3>1, <3>2
  <2>5. /\ Higher(memories[i].rank, rank) \in 0..3
        /\ Higher(memories[i].rank, rank) >= rank
        /\ Higher(memories[i].until, until) \in 0..Forever
        /\ t < Higher(memories[i].until, until)
    BY <1>1, <2>2, <2>3, <2>4 DEF Higher
  <2>6. memories'[i] = [memories[i] EXCEPT !.rank   = Higher(@, rank),
                                           !.pinned = @ \/ pin,
                                           !.until  = Higher(@, until)]
    BY <2>1, <2>2
  <2>7. /\ memories'[i] \in Memory
        /\ memories'[i].rank = Higher(memories[i].rank, rank)
        /\ memories'[i].until = Higher(memories[i].until, until)
    <3> DEFINE r == Higher(memories[i].rank, rank)
               u == Higher(memories[i].until, until)
    <3>1. r \in 0..4 /\ u \in 0..Forever
      BY <2>5
    <3>2. memories'[i] = [memories[i] EXCEPT !.rank = r, !.pinned = @ \/ pin,
                                             !.until = u]
      BY <2>6
    <3> HIDE DEF r, u
    <3>3. memories'[i] \in Memory /\ memories'[i].rank = r /\ memories'[i].until = u
      BY <2>2, <3>1, <3>2 DEF Memory, Ephemeral
    <3> QED
      BY <3>3 DEF r, u
  <2>8. /\ memories'[i].status = "ACTIVE"
        /\ memories'[i].place = p /\ memories'[i].content = c
        /\ memories'[i].from = memories[i].from
    BY <2>2, <2>6 DEF Memory
  <2>9. /\ memories'[i].from <= t /\ t < memories'[i].until
        /\ memories'[i].rank >= rank /\ memories'[i].rank # 4
    BY <1>1, <2>2, <2>3, <2>5, <2>7, <2>8
  <2>10. i \in Readable(p, t)'
    BY <1>2, <2>2, <2>7, <2>8, <2>9, NamesAssumption
       DEF Readable, Active, Stored, IsValidAt, Ephemeral, Covered
  <2> QED
    BY <2>8, <2>9, <2>10 DEF Recallable
<1>4. CASE RememberInsert(p, c, rank, pin, at, until)
  <2> DEFINE new == [place |-> p, content |-> c, status |-> "ACTIVE",
                     rank |-> rank, pinned |-> pin, from |-> at,
                     until |-> until]
  <2>1. ActiveWith(p, c) = {} /\ \E i \in Ids : memories' = [memories EXCEPT ![i] = new]
    BY <1>4 DEF RememberInsert
  <2>2. PICK i \in Ids : memories' = [memories EXCEPT ![i] = new]
    BY <2>1
  <2>3. t < until
    BY <2>1 DEF Recallable, Readable, ActiveWith
  <2>4. memories'[i] = new /\ new \in Memory
    BY <1>1, <2>2 DEF Memory, Statuses, Ephemeral
  <2>5. i \in Readable(p, t)'
    BY <1>1, <1>2, <2>3, <2>4, NamesAssumption
       DEF Readable, Active, Stored, IsValidAt, Ephemeral, Covered
  <2>6. rank >= rank
    BY <1>1
  <2> QED
    BY <2>4, <2>5, <2>6 DEF Recallable
<1> QED
  BY <1>3, <1>4 DEF Remember

(* What is remembered can be recalled from the commit until the lifetime    *)
(* that began with the call is over, and until the end that its identity    *)
(* had before, whatever the call waited and whichever row it merged into;   *)
(* but for a row that starts in the future or is ephemeral.                 *)
THEOREM RecallCorrect == Spec => RememberIsRecallable
<1>1. TypeOK /\ UniqueActiveIdentity /\ [Next]_vars =>
        [\A p \in Places, c \in Contents, rank \in Ranks, pin \in Pins,
            ttl \in 0..Forever, at \in ClockReadings :
           Remember(p, c, rank, pin, ttl, at) /\ ~Shadowed(p, c) =>
             \A t \in now..MaxTime :
               t < Expiry(ttl, at) \/ Recallable(p, c, 0, t)
                 => Recallable(p, c, rank, t)']_vars
  BY RememberRecalls, InputsAssumption
<1> QED
  BY <1>1, TypeCorrect, UniqueIdentityCorrect, PTL DEF Spec, RememberIsRecallable
=============================================================================
