---------------------------- MODULE MemoryStore ----------------------------
(***************************************************************************)
(* The table of memory records and the revision counters of the baseline,  *)
(* as the SQLite adapter keeps them (crates/kitt-memory-sqlite/src/lib.rs   *)
(* and admin.rs).  Every write is one IMMEDIATE transaction taken under     *)
(* the writer mutex, so every write is one action; readers run between any  *)
(* two of them on WAL snapshots.                                            *)
(*                                                                          *)
(* Some operations read the clock before they have the mutex and the lock   *)
(* of the database, and write what they read after any wait for the two.    *)
(* What they write depends on nothing else of that time, so such a call is  *)
(* still one action, its commit; it takes the instant that it has read,     *)
(* which may be any one up to now (ClockReadings).                          *)
(*                                                                          *)
(* Data is abstracted to what the properties distinguish:                   *)
(*  - a place stands for (namespace, scope, workspace_id, scope_key), and   *)
(*    is also the key of a row of baseline_revisions;                       *)
(*  - a content stands for (kind, content_hash) and everything derived      *)
(*    from the text; pinned stands for the fields a merge only raises       *)
(*    (pinned, importance, confidence);                                     *)
(*  - a sensitivity is its restriction_rank;                                *)
(*  - valid_from NULL is instant 0, before every clock value, and           *)
(*    valid_until NULL is Forever, after every clock value: the code's two  *)
(*    cases for NULL are then the ordinary order on instants.               *)
(* Definitions whose comment starts with "Fault:" are deliberate mistakes;  *)
(* the mutants of PROJECT.json put them in place of the operator that       *)
(* follows them, and a property has to fail.                                *)
(* access_count and last_accessed_at are outside the baseline (the update   *)
(* trigger does not name them) and are modelled in RecallTraces.            *)
(***************************************************************************)
EXTENDS Integers

CONSTANTS
  Ids,          \* identifiers of rows
  Workspaces,   \* workspace ids that callers use
  Keys,         \* conversation scope keys
  Contents,     \* (kind, content hash) pairs
  Ranks,        \* the restriction ranks that callers use, out of 0..4
  Pins,         \* the pinned flags that callers use
  RecordInputs, \* the whole rows that callers of upsert_record write
  DreamInputs,  \* the whole rows that a dream commit writes
  Global,       \* the reserved workspace id "global"
  NoKey,        \* scope_key NULL
  NoMemory,     \* no row has this id
  MaxTime,      \* bound on the clock
  MaxRevision   \* bound on the client writes per place

VARIABLES
  memories,            \* the table: id -> row or NoMemory
  baseline_revisions,  \* place -> counter raised by the triggers
  now                  \* now_epoch()

vars == <<memories, baseline_revisions, now>>

Ephemeral == 4
Statuses  == {"ACTIVE", "SUPERSEDED", "ARCHIVED", "CANDIDATE"}
Instants  == 0..MaxTime
Forever   == MaxTime + 1

(* Only a conversation keeps a scope key, and a global memory belongs to    *)
(* the workspace "global": the places of canonicalized rows of a namespace. *)
Places == {<<Global, NoKey>>} \cup (Workspaces \X (Keys \cup {NoKey}))

Memory == [place: Places, content: Contents, status: Statuses,
           rank: 0..Ephemeral, pinned: BOOLEAN,
           from: Instants, until: 0..Forever]

ASSUME BoundsAssumption == /\ MaxTime \in Nat
                           /\ MaxRevision \in Nat
ASSUME InputsAssumption == /\ Ranks \subseteq 0..Ephemeral
                           /\ Pins \subseteq BOOLEAN
                           /\ RecordInputs \subseteq Memory
                           /\ DreamInputs \subseteq Memory
ASSUME NamesAssumption  == /\ Global \notin Workspaces
                           /\ NoKey \notin Keys
                           /\ NoMemory \notin Memory

Init ==
  /\ memories = [i \in Ids |-> NoMemory]
  /\ baseline_revisions = [p \in Places |-> 0]
  /\ now = 0

-----------------------------------------------------------------------------
(* Rows and readers                                                         *)

Higher(a, b) == IF a >= b THEN a ELSE b
Lower(a, b)  == IF a <= b THEN a ELSE b

Stored(i) == memories[i] # NoMemory
Active(i) == Stored(i) /\ memories[i].status = "ACTIVE"

ActiveWith(p, c) ==
  {i \in Ids : Active(i) /\ memories[i].place = p /\ memories[i].content = c}

IsValidAt(r, at) == r.from <= at /\ at < r.until

(* The places a reader of place q = <<workspace, key>> sees: the global     *)
(* ones, the workspace's own and its conversation's own.                    *)
Covered(q) == {<<Global, NoKey>>, <<q[1], NoKey>>, q}

(* The rows a baseline or a recall of place q may use at an instant, before *)
(* the caller's permissions, the ranking and the limits narrow them.        *)
Readable(q, at) ==
  {i \in Ids : /\ Active(i)
               /\ memories[i].place \in Covered(q)
               /\ IsValidAt(memories[i], at)
               /\ memories[i].rank # Ephemeral}

View(q, at) == [i \in Readable(q, at) |-> memories[i]]

\* Fault: only the counter of the place itself is read.
OwnRevision(q) == baseline_revisions[q]

(* SUM(revision) over workspace_id IN ('global', ws), scope_key IN ('', k). *)
BaselineRevision(q) ==
  baseline_revisions[<<Global, NoKey>>]
    + (IF q[1] = Global THEN 0 ELSE baseline_revisions[<<q[1], NoKey>>])
    + (IF q[2] = NoKey THEN 0 ELSE baseline_revisions[q])

-----------------------------------------------------------------------------
(* Writing rows.  The insert, update and delete triggers raise the counter  *)
(* of the place of the row before and after the statement; here by one per  *)
(* place and transaction, which is enough to compare revisions.             *)

Bump(places) ==
  baseline_revisions' =
    [p \in Places |-> IF p \in places THEN baseline_revisions[p] + 1
                                      ELSE baseline_revisions[p]]

\* Bound: client writes to a place stop at MaxRevision.
Budget(places) == \A p \in places : baseline_revisions[p] < MaxRevision

PlacesOf(ids) == {memories[i].place : i \in {j \in ids : Stored(j)}}

\* Fault: the whole row is overwritten, sensitivity included.
PutLoweringRank(table, i, r) == [table EXCEPT ![i] = r]

\* INSERT ... ON CONFLICT(id) DO UPDATE: everything but the sensitivity,
\* which only rises, is overwritten.
Put(table, i, r) ==
  [table EXCEPT ![i] =
     IF table[i] = NoMemory THEN r
     ELSE [r EXCEPT !.rank = Higher(table[i].rank, r.rank)]]

\* idx_memories_active_identity.
UniqueIn(table) ==
  \A i, j \in Ids :
    /\ table[i] # NoMemory /\ table[i].status = "ACTIVE"
    /\ table[j] # NoMemory /\ table[j].status = "ACTIVE"
    /\ table[i].place = table[j].place
    /\ table[i].content = table[j].content
    => i = j

\* The row as set_status, archive_workspace and the consolidation retire it.
Retired(r, status, at) == [r EXCEPT !.status = status, !.until = Lower(@, at)]

\* Fault: no validation of the interval a statement leaves.
IntervalUnchecked(r) == r.from <= Forever

\* memories_validate_update aborts the statement on an inverted interval.
IntervalOK(r) == r.from <= r.until

-----------------------------------------------------------------------------
(* Operations                                                               *)

\* What a call that commits now may have read from the clock: it has waited
\* for the writer mutex, and for the database, since.
ClockReadings == {at \in Instants : at <= now}

\* Fault: the addition does not saturate.
ExpiryOverflowing(ttl, at) == at + ttl

\* at + ttl, saturating; a ttl of Forever stands for no ttl.
Expiry(ttl, at) == IF at + ttl >= Forever THEN Forever ELSE at + ttl

\* Fault: the merge keeps the stored end.
MergeKeepingEnd(p, c, rank, pin, until) ==
  \E i \in ActiveWith(p, c) :
    /\ memories' = [memories EXCEPT ![i].rank   = Higher(@, rank),
                                    ![i].pinned = @ \/ pin]
    /\ Bump({p})

\* remember, when an active row has the identity: raise what only rises.
RememberMerge(p, c, rank, pin, until) ==
  \E i \in ActiveWith(p, c) :
    /\ memories' = [memories EXCEPT
         ![i].rank   = Higher(@, rank),
         ![i].pinned = @ \/ pin,
         ![i].until  = Higher(@, until)]
    /\ Bump({p})

\* remember, when none has: a new row under a fresh id, valid from the
\* instant of the call; it may be over already.
RememberInsert(p, c, rank, pin, from, until) ==
  /\ ActiveWith(p, c) = {}
  /\ \E i \in Ids :
       /\ ~Stored(i)
       /\ memories' = [memories EXCEPT ![i] =
            [place |-> p, content |-> c, status |-> "ACTIVE", rank |-> rank,
             pinned |-> pin, from |-> from, until |-> until]]
  /\ Bump({p})

\* at is the clock of into_record, before the mutex and BEGIN IMMEDIATE.
Remember(p, c, rank, pin, ttl, at) ==
  /\ rank # Ephemeral      \* an ephemeral memory is answered, never stored
  /\ Budget({p})
  /\ \/ RememberMerge(p, c, rank, pin, Expiry(ttl, at))
     \/ RememberInsert(p, c, rank, pin, at, Expiry(ttl, at))
  /\ UNCHANGED now

\* Fault: the update trigger raises only the counter of the new place.
UpsertBumpingNewPlace(i, r) ==
  /\ IntervalOK(r)
  /\ r.status = "ACTIVE" => ActiveWith(r.place, r.content) \subseteq {i}
  /\ Budget({r.place})
  /\ memories' = Put(memories, i, r)
  /\ Bump({r.place})
  /\ UNCHANGED now

UpsertRecord(i, r) ==
  /\ IntervalOK(r)
  /\ r.status = "ACTIVE" => ActiveWith(r.place, r.content) \subseteq {i}
  /\ Budget({r.place} \cup PlacesOf({i}))
  /\ memories' = Put(memories, i, r)
  /\ Bump({r.place} \cup PlacesOf({i}))
  /\ UNCHANGED now

Forget(i) ==
  /\ Stored(i)
  /\ Budget(PlacesOf({i}))
  /\ memories' = [memories EXCEPT ![i] = NoMemory]
  /\ Bump(PlacesOf({i}))
  /\ UNCHANGED now

\* set_status to SUPERSEDED or ARCHIVED, from any status.  The clock is read
\* under the mutex; the statement may still wait for the database.
Retire(i, status, at) ==
  /\ status \in {"SUPERSEDED", "ARCHIVED"}
  /\ Stored(i)
  /\ IntervalOK(Retired(memories[i], status, at))
  /\ Budget(PlacesOf({i}))
  /\ memories' = [memories EXCEPT ![i] = Retired(@, status, at)]
  /\ Bump(PlacesOf({i}))
  /\ UNCHANGED now

\* Fault: no condition on the current status.
SetLiveStatusFromAny(i, status) ==
  /\ status \in {"ACTIVE", "CANDIDATE"}
  /\ Stored(i)
  /\ Budget(PlacesOf({i}))
  /\ memories' = [memories EXCEPT ![i].status = status]
  /\ Bump(PlacesOf({i}))
  /\ UNCHANGED now

\* set_status to ACTIVE or CANDIDATE, only from ACTIVE.
SetLiveStatus(i, status) ==
  /\ status \in {"ACTIVE", "CANDIDATE"}
  /\ Active(i)
  /\ Budget(PlacesOf({i}))
  /\ memories' = [memories EXCEPT ![i].status = status]
  /\ Bump(PlacesOf({i}))
  /\ UNCHANGED now

SetPinned(i, pin) ==
  /\ Stored(i)
  /\ Budget(PlacesOf({i}))
  /\ memories' = [memories EXCEPT ![i].pinned = pin]
  /\ Bump(PlacesOf({i}))
  /\ UNCHANGED now

\* One UPDATE retires every active row of the workspace, or aborts whole.
\* The list it returns and the clock are read before the writer lock; the
\* rows it retires are those of the table at the UPDATE.
ArchiveWorkspace(ws, at) ==
  LET rows == {i \in Ids : Active(i) /\ memories[i].place[1] = ws}
  IN  /\ rows # {}
      /\ \A i \in rows : IntervalOK(Retired(memories[i], "ARCHIVED", at))
      /\ Budget(PlacesOf(rows))
      /\ memories' = [i \in Ids |-> IF i \in rows
                                    THEN Retired(memories[i], "ARCHIVED", at)
                                    ELSE memories[i]]
      /\ Bump(PlacesOf(rows))
      /\ UNCHANGED now

\* One dream transaction: an updated row, then a new one, with no identity
\* check but the unique index, which aborts the whole transaction.
CommitDream(i, updated, j, new) ==
  LET first  == Put(memories, i, updated)
      second == Put(first, j, new)
      places == {updated.place, new.place} \cup PlacesOf({i, j})
  IN  /\ IntervalOK(updated) /\ IntervalOK(new)
      /\ UniqueIn(first) /\ UniqueIn(second)
      /\ Budget(places)
      /\ memories' = second
      /\ Bump(places)
      /\ UNCHANGED now

\* Fault: the retired rows whose interval is over are deleted too.
PruneAllStatuses ==
  LET expired == {i \in Ids : Stored(i) /\ memories[i].until <= now}
  IN  /\ expired # {}
      /\ memories' = [i \in Ids |-> IF i \in expired THEN NoMemory
                                                     ELSE memories[i]]
      /\ Bump(PlacesOf(expired))
      /\ UNCHANGED now

\* Fault: pinned rows outlive their end.
PruneSparingPinned ==
  LET expired == {i \in Ids : /\ Active(i)
                              /\ memories[i].until <= now
                              /\ ~memories[i].pinned}
  IN  /\ expired # {}
      /\ memories' = [i \in Ids |-> IF i \in expired THEN NoMemory
                                                     ELSE memories[i]]
      /\ Bump(PlacesOf(expired))
      /\ UNCHANGED now

\* Every open of the store and every maintenance round deletes the expired
\* active rows.  Not under the write budget: it only removes rows.  The clock
\* is a parameter of the DELETE, read under the mutex: after a wait for the
\* database it leaves what expired meanwhile to the next round.
PruneExpired ==
  LET expired == {i \in Ids : Active(i) /\ memories[i].until <= now}
  IN  /\ expired # {}
      /\ memories' = [i \in Ids |-> IF i \in expired THEN NoMemory
                                                     ELSE memories[i]]
      /\ Bump(PlacesOf(expired))
      /\ UNCHANGED now

\* consolidate_exact_duplicates keeps one active row per identity, the
\* choice of which is abstracted, and retires the others.
Consolidate ==
  LET Keeper(i) == CHOOSE k \in ActiveWith(memories[i].place,
                                           memories[i].content) : TRUE
      losers    == {i \in Ids : Active(i) /\ i # Keeper(i)}
  IN  /\ \A i \in losers : IntervalOK(Retired(memories[i], "SUPERSEDED", now))
      /\ memories' = [i \in Ids |-> IF i \in losers
                                    THEN Retired(memories[i], "SUPERSEDED", now)
                                    ELSE memories[i]]
      /\ Bump(PlacesOf(losers))
      /\ UNCHANGED now

\* The wall clock moves on between any two operations.
Tick ==
  /\ now < MaxTime
  /\ now' = now + 1
  /\ UNCHANGED <<memories, baseline_revisions>>

Next ==
  \/ \E p \in Places, c \in Contents, rank \in Ranks, pin \in Pins,
       ttl \in 0..Forever, at \in ClockReadings :
       Remember(p, c, rank, pin, ttl, at)
  \/ \E i \in Ids, r \in RecordInputs : UpsertRecord(i, r)
  \/ \E i \in Ids : Forget(i)
  \/ \E i \in Ids, status \in Statuses, at \in ClockReadings :
       Retire(i, status, at)
  \/ \E i \in Ids, status \in Statuses : SetLiveStatus(i, status)
  \/ \E i \in Ids, pin \in Pins : SetPinned(i, pin)
  \/ \E ws \in Workspaces \cup {Global}, at \in ClockReadings :
       ArchiveWorkspace(ws, at)
  \/ \E i, j \in Ids, updated, new \in DreamInputs :
       CommitDream(i, updated, j, new)
  \/ PruneExpired
  \/ Consolidate
  \/ Tick

(* The maintenance thread runs a round every minute for as long as the      *)
(* daemon lives, and a restart prunes before it serves.                     *)
Fairness == WF_vars(PruneExpired)

Spec == Init /\ [][Next]_vars /\ Fairness

-----------------------------------------------------------------------------
(* Properties                                                               *)

(* Every row, counter and instant has its shape; in particular no lifetime  *)
(* overflows past the last instant.                                         *)
TypeOK ==
  /\ memories \in [Ids -> Memory \cup {NoMemory}]
  /\ baseline_revisions \in [Places -> Nat]
  /\ now \in Instants

(* At most one active row has a given identity.  No guard of remember,      *)
(* upsert_record or set_status mentions the unique index here: their own    *)
(* lookups and status conditions have to keep it, so none of them can fail  *)
(* on it in the code.                                                       *)
UniqueActiveIdentity == UniqueIn(memories)

(* No stored row ends before it starts, however its end was moved.          *)
ValidIntervals ==
  \A i \in Ids : Stored(i) => memories[i].from <= memories[i].until

(* README, "Monotonic sensitivity enforcement on upsert and deduplication": *)
(* no step lowers the sensitivity of a row that it keeps.                   *)
SensitivityNeverLowered ==
  [][\A i \in Ids : Stored(i) /\ Stored(i)' =>
                       memories'[i].rank >= memories[i].rank]_vars

(* What a reader may see of a place at any instant, present, past or future *)
(* (as_of), changes only in steps that raise that reader's revision: equal  *)
(* revisions of two instants of the store mean equal views of every         *)
(* instant.  This is what lets the baseline's etag name a revision.         *)
RevisionCoversViews ==
  [][\A q \in Places, at \in Instants :
       View(q, at)' # View(q, at)
         => BaselineRevision(q)' > BaselineRevision(q)]_vars

(* A row is erased only by forget, or when it is active and no reader can   *)
(* use it now or later: maintenance erases neither the retired history nor  *)
(* anything a recall could still return.                                    *)
OnlyForgetErasesUsableRows ==
  [][\A i \in Ids : Stored(i) /\ ~Stored(i)' =>
       \/ Forget(i)
       \/ Active(i) /\ \A at \in now..MaxTime : ~IsValidAt(memories[i], at)]_vars

(* An active row of the identity that no reader may use yet, or ever: its   *)
(* start is in the future, or a whole-record write made it ephemeral.       *)
Shadowed(p, c) ==
  \E i \in ActiveWith(p, c) :
     memories[i].from > now \/ memories[i].rank = Ephemeral

(* An active row of the identity, of at least the given sensitivity, that a *)
(* recall at an instant may use.                                            *)
Recallable(p, c, rank, at) ==
  \E i \in Readable(p, at) : /\ memories[i].place = p
                             /\ memories[i].content = c
                             /\ memories[i].rank >= rank

(* What is remembered can be recalled from the commit until its lifetime,   *)
(* which runs from the instant of the call, is over (so never, if the call  *)
(* waited longer than that), at no less than its sensitivity; and a call    *)
(* that comes late or has a short ttl cuts no earlier one short.  This also *)
(* holds of a merge into a row that had expired and was not pruned yet.  A  *)
(* shadowed identity is the exception: the merge leaves the shadow.         *)
RememberIsRecallable ==
  [][\A p \in Places, c \in Contents, rank \in Ranks, pin \in Pins,
        ttl \in 0..Forever, at \in ClockReadings :
       Remember(p, c, rank, pin, ttl, at) /\ ~Shadowed(p, c) =>
         \A t \in now..MaxTime :
           t < Expiry(ttl, at) \/ Recallable(p, c, 0, t)
             => Recallable(p, c, rank, t)']_vars

(* An expired active row does not stay: a maintenance round comes after it, *)
(* unless a write gives it a later end first.                               *)
ExpiredEventuallyGone ==
  \A i \in Ids :
    (Active(i) /\ memories[i].until <= now)
      ~> ~(Active(i) /\ memories[i].until <= now)
=============================================================================
