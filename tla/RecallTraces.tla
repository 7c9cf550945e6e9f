---------------------------- MODULE RecallTraces ----------------------------
(***************************************************************************)
(* Recall traces and consumption receipts.  A search answers with the id of *)
(* a trace that is only buffered in memory; any thread may drain the buffer *)
(* and commit the batch later (flush_recall_traces and record_recall_trace, *)
(* crates/kitt-memory-sqlite/src/semantic.rs).  Receipts refer to committed *)
(* traces (record_consumption_receipts, evidence.rs), and both go after 30  *)
(* days (periodic_maintenance, admin.rs).                                   *)
(*                                                                          *)
(* Draining is one step under the buffer's mutex, a commit another under    *)
(* the writer's; between the two the batch is only in the thread.  Every    *)
(* trace id is fresh.  A receipt's consumer, purpose and turn are fixed, so *)
(* that <<trace, memory>> is its key; memories are stored ones.             *)
(*                                                                          *)
(* Definitions whose comment starts with "Fault:" are deliberate mistakes   *)
(* for the mutants of PROJECT.json.                                         *)
(***************************************************************************)
EXTENDS Integers, Sequences, FiniteSets, FiniteSetsExt

CONSTANTS
  Traces, Memories,
  Workers,        \* threads that serve connections
  Maintainer,     \* the maintenance thread
  Batches,        \* the batches of receipts that consumers send
  Outcomes,       \* outcomes other than the empty one
  NoOutcome, NoReceipt, Unserved, Idle,
  Capacity,       \* of the buffer (4096)
  Retention,      \* 30 days
  MaxTime,        \* bound on the clock
  MaxAccess,      \* bound on the access count of a memory
  MaxFailures,    \* bound on the storage errors
  MaxCrashes      \* bound on the crashes

Threads  == Workers \cup {Maintainer}
Instants == 0..MaxTime
Receipt  == [trace: Traces, memory: Memories, presented: BOOLEAN,
             referenced: BOOLEAN, used: BOOLEAN,
             outcome: Outcomes \cup {NoOutcome}, consumed: Instants]
Row      == [presented: BOOLEAN, referenced: BOOLEAN, used: BOOLEAN,
             outcome: Outcomes \cup {NoOutcome}, consumed: Instants]

\* What a thread does once its batch of traces is committed.
Calls  == {"flush", "record", "maintain"}
Thread == [call: Calls, sent: Batches \cup {<<>>}, batch: Seq(Traces)]

\* MemoryConsumptionReceipt::validate, for complete identities.
Valid(r) == r.used => r.presented

ASSUME SizesAssumption == /\ Capacity \in Nat \ {0}
                          /\ IsFiniteSet(Workers)
                          /\ {Retention, MaxTime, MaxAccess, MaxFailures,
                              MaxCrashes} \subseteq Nat
ASSUME BatchesAssumption == Batches \subseteq Seq(Receipt) \ {<<>>}
ASSUME NamesAssumption   == /\ NoReceipt \notin Row
                            /\ Unserved \notin Instants
                            /\ Maintainer \notin Workers
                            /\ NoOutcome \notin Outcomes
                            /\ Idle \notin Thread

VARIABLES
  trace_buffer,   \* the traces waiting for a flush, oldest first
  threads,        \* what each thread is doing
  recall_traces,  \* the table of traces: the ids stored
  receipts,       \* the table of receipts: key -> row or NoReceipt
  access_count,   \* the column of memories
  now,            \* now_epoch()
  served,         \* created_at of the traces that were answered
  gone,           \* history: the traces pruned, lost or dropped
  failures, crashes

tables == <<recall_traces, receipts, access_count>>
counts == <<failures, crashes>>
vars   == <<trace_buffer, threads, tables, now, served, gone, counts>>

Keys == Traces \X Memories

Init ==
  /\ trace_buffer = <<>>
  /\ threads = [p \in Threads |-> Idle]
  /\ recall_traces = {}
  /\ receipts = [k \in Keys |-> NoReceipt]
  /\ access_count = [m \in Memories |-> 0]
  /\ now = 0
  /\ served = [t \in Traces |-> Unserved]
  /\ gone = {}
  /\ failures = 0 /\ crashes = 0

InSeq(s) == {s[i] : i \in DOMAIN s}

-----------------------------------------------------------------------------
(* Serving a search                                                         *)

\* record_recall_trace: the oldest trace makes room when the buffer is full.
Serve(t) ==
  /\ served[t] = Unserved
  /\ served' = [served EXCEPT ![t] = now]
  /\ IF Len(trace_buffer) >= Capacity
     THEN /\ trace_buffer' = Append(Tail(trace_buffer), t)
          /\ gone' = gone \cup {Head(trace_buffer)}
     ELSE /\ trace_buffer' = Append(trace_buffer, t)
          /\ UNCHANGED gone
  /\ UNCHANGED <<threads, tables, now, counts>>

-----------------------------------------------------------------------------
(* flush_recall_traces, on its own or at the start of another call          *)

\* Fault: the buffer is copied, not drained.
DrainCopying(p, call, sent) ==
  /\ threads[p] = Idle
  /\ trace_buffer # <<>> \/ call # "flush"
  /\ threads' = [threads EXCEPT ![p] =
                  [call |-> call, sent |-> sent, batch |-> trace_buffer]]
  /\ UNCHANGED <<trace_buffer, tables, now, served, gone, counts>>

\* Fault: a flush waits until the buffer is full.
DrainWhenFull(p, call, sent) ==
  /\ threads[p] = Idle
  /\ Len(trace_buffer) >= Capacity \/ (trace_buffer = <<>> /\ call # "flush")
  /\ threads' = [threads EXCEPT ![p] =
                  [call |-> call, sent |-> sent, batch |-> trace_buffer]]
  /\ trace_buffer' = <<>>
  /\ UNCHANGED <<tables, now, served, gone, counts>>

Drain(p, call, sent) ==
  /\ threads[p] = Idle
  /\ trace_buffer # <<>> \/ call # "flush"
  /\ threads' = [threads EXCEPT ![p] =
                  [call |-> call, sent |-> sent, batch |-> trace_buffer]]
  /\ trace_buffer' = <<>>
  /\ UNCHANGED <<tables, now, served, gone, counts>>

\* Every five seconds, and when recent traces are asked for.
StartFlush(p) == Drain(p, "flush", <<>>)

\* Every minute.
StartMaintenance == Drain(Maintainer, "maintain", <<>>)

\* Fault: the receipts are not validated.
StartRecordUnvalidated(p, sent) ==
  /\ \A i \in DOMAIN sent : served[sent[i].trace] # Unserved
  /\ Drain(p, "record", sent)

\* A consumer sends receipts for traces it was given; a batch with an
\* invalid receipt is refused before the flush.
StartRecord(p, sent) ==
  /\ \A i \in DOMAIN sent : /\ Valid(sent[i])
                             /\ served[sent[i].trace] # Unserved
  /\ Drain(p, "record", sent)

Flushing(p) == threads[p] # Idle /\ threads[p].batch # <<>>

\* INSERT OR REPLACE: replacing a stored trace deletes it first, and its
\* receipts with it.
FlushCommits(p) ==
  LET batch == InSeq(threads[p].batch)
  IN  /\ Flushing(p)
      /\ recall_traces' = recall_traces \cup batch
      /\ receipts' = [k \in Keys |-> IF k[1] \in batch \cap recall_traces
                                     THEN NoReceipt ELSE receipts[k]]
      /\ threads' = [threads EXCEPT ![p] =
                       IF @.call = "flush" THEN Idle
                       ELSE [call |-> @.call, sent |-> @.sent, batch |-> <<>>]]
      /\ UNCHANGED <<trace_buffer, access_count, now, served, gone, counts>>

\* Fault: the batch is dropped with the transaction.
InsertFailsDropping(p) ==
  /\ Flushing(p)
  /\ failures < MaxFailures
  /\ threads' = [threads EXCEPT ![p] = Idle]
  /\ failures' = failures + 1
  /\ UNCHANGED <<trace_buffer, tables, now, served, gone, crashes>>

\* An INSERT fails: the batch goes back to the front, above the capacity if
\* need be, and the call fails.
InsertFails(p) ==
  /\ Flushing(p)
  /\ failures < MaxFailures
  /\ trace_buffer' = threads[p].batch \o trace_buffer
  /\ threads' = [threads EXCEPT ![p] = Idle]
  /\ failures' = failures + 1
  /\ UNCHANGED <<tables, now, served, gone, crashes>>

\* The BEGIN or the COMMIT fails: the batch is lost and the call fails.
CommitFails(p) ==
  /\ Flushing(p)
  /\ failures < MaxFailures
  /\ threads' = [threads EXCEPT ![p] = Idle]
  /\ gone' = gone \cup InSeq(threads[p].batch)
  /\ failures' = failures + 1
  /\ UNCHANGED <<trace_buffer, tables, now, served, crashes>>

-----------------------------------------------------------------------------
(* record_consumption_receipts, after its flush                             *)

Recording(p) == /\ threads[p] # Idle
                /\ threads[p].batch = <<>>
                /\ threads[p].call = "record"

\* The receipts of a batch for one key.
For(batch, k) ==
  {i \in DOMAIN batch : batch[i].trace = k[1] /\ batch[i].memory = k[2]}

\* Fault: the receipt replaces the row.
MergedOverwriting(row, batch, ids) ==
  LET r == batch[Max(ids)]
  IN  [presented |-> r.presented, referenced |-> r.referenced, used |-> r.used,
       outcome |-> r.outcome, consumed |-> r.consumed]

\* A row after all of them, in order: flags and time only rise, the last
\* outcome that is not empty stays.
Merged(row, batch, ids) ==
  LET old      == {x \in {row} : x # NoReceipt}
      outcomes == {i \in ids : batch[i].outcome # NoOutcome}
  IN  [presented  |-> (\E x \in old : x.presented)
                        \/ \E i \in ids : batch[i].presented,
       referenced |-> (\E x \in old : x.referenced)
                        \/ \E i \in ids : batch[i].referenced,
       used       |-> (\E x \in old : x.used) \/ \E i \in ids : batch[i].used,
       outcome    |-> IF outcomes # {} THEN batch[Max(outcomes)].outcome
                      ELSE IF row = NoReceipt THEN NoOutcome ELSE row.outcome,
       consumed   |-> Max({batch[i].consumed : i \in ids}
                            \cup {x.consumed : x \in old})]

\* Every receipt that tells a reference or a use counts as one access, the
\* repeated ones too.
Accesses(batch, m) ==
  Cardinality({i \in DOMAIN batch : /\ batch[i].memory = m
                                    /\ batch[i].referenced \/ batch[i].used})

\* The foreign key: every receipt's trace is stored.
TracesStored(batch) == \A i \in DOMAIN batch : batch[i].trace \in recall_traces

\* One transaction for the whole batch.
\* Bound: no access count passes MaxAccess.
Record(p) ==
  LET batch == threads[p].sent
  IN  /\ Recording(p)
      /\ TracesStored(batch)
      /\ \A m \in Memories : access_count[m] + Accesses(batch, m) <= MaxAccess
      /\ receipts' = [k \in Keys |-> IF For(batch, k) = {} THEN receipts[k]
                                     ELSE Merged(receipts[k], batch, For(batch, k))]
      /\ access_count' =
           [m \in Memories |-> access_count[m] + Accesses(batch, m)]
      /\ threads' = [threads EXCEPT ![p] = Idle]
      /\ UNCHANGED <<trace_buffer, recall_traces, now, served, gone, counts>>

\* Refused whole, when one receipt names a trace that is not stored.
RefuseReceipts(p) ==
  /\ Recording(p)
  /\ ~TracesStored(threads[p].sent)
  /\ threads' = [threads EXCEPT ![p] = Idle]
  /\ UNCHANGED <<trace_buffer, tables, now, served, gone, counts>>

\* touch_memories, on memory.get.
Touch(m) ==
  /\ access_count[m] < MaxAccess
  /\ access_count' = [access_count EXCEPT ![m] = @ + 1]
  /\ UNCHANGED <<trace_buffer, threads, recall_traces, receipts, now, served,
                 gone, counts>>

-----------------------------------------------------------------------------
(* periodic_maintenance, after its flush                                    *)

Maintaining == /\ threads[Maintainer] # Idle
               /\ threads[Maintainer].batch = <<>>
               /\ threads[Maintainer].call = "maintain"

Cutoff == now - Retention

Old == {t \in recall_traces : served[t] < Cutoff}

OldReceipt(k) == receipts[k] # NoReceipt /\ receipts[k].consumed < Cutoff

\* Fault: the receipts of a deleted trace stay.
PruneNotCascading ==
  /\ Maintaining
  /\ recall_traces' = recall_traces \ Old
  /\ receipts' = [k \in Keys |-> IF OldReceipt(k) THEN NoReceipt ELSE receipts[k]]
  /\ gone' = gone \cup Old
  /\ threads' = [threads EXCEPT ![Maintainer] = Idle]
  /\ UNCHANGED <<trace_buffer, access_count, now, served, counts>>

\* Old receipts, then old traces and by cascade their receipts.
Prune ==
  /\ Maintaining
  /\ recall_traces' = recall_traces \ Old
  /\ receipts' = [k \in Keys |-> IF OldReceipt(k) \/ k[1] \in Old
                                 THEN NoReceipt ELSE receipts[k]]
  /\ gone' = gone \cup Old
  /\ threads' = [threads EXCEPT ![Maintainer] = Idle]
  /\ UNCHANGED <<trace_buffer, access_count, now, served, counts>>

\* The second DELETE fails: the first was a transaction of its own.
PruneFails ==
  /\ Maintaining
  /\ failures < MaxFailures
  /\ receipts' = [k \in Keys |-> IF OldReceipt(k) THEN NoReceipt ELSE receipts[k]]
  /\ threads' = [threads EXCEPT ![Maintainer] = Idle]
  /\ failures' = failures + 1
  /\ UNCHANGED <<trace_buffer, recall_traces, access_count, now, served, gone,
                 crashes>>

-----------------------------------------------------------------------------
(* The process                                                              *)

\* The traces that are only in memory.
InMemory == InSeq(trace_buffer)
              \cup UNION {InSeq(threads[p].batch) :
                            p \in {q \in Threads : threads[q] # Idle}}

\* The daemon dies and restarts: only the tables are left.
Crash ==
  /\ crashes < MaxCrashes
  /\ crashes' = crashes + 1
  /\ trace_buffer' = <<>>
  /\ threads' = [p \in Threads |-> Idle]
  /\ gone' = gone \cup InMemory
  /\ UNCHANGED <<tables, now, served, failures>>

Tick ==
  /\ now < MaxTime
  /\ now' = now + 1
  /\ UNCHANGED <<trace_buffer, threads, tables, served, gone, counts>>

Continue(p) ==
  FlushCommits(p) \/ Record(p) \/ RefuseReceipts(p) \/ (p = Maintainer /\ Prune)

Next ==
  \/ \E t \in Traces : Serve(t)
  \/ \E p \in Threads : StartFlush(p)
  \/ StartMaintenance
  \/ \E p \in Workers, sent \in Batches : StartRecord(p, sent)
  \/ \E p \in Threads : FlushCommits(p)
  \/ \E p \in Threads : InsertFails(p)
  \/ \E p \in Threads : CommitFails(p)
  \/ \E p \in Threads : Record(p)
  \/ \E p \in Threads : RefuseReceipts(p)
  \/ \E m \in Memories : Touch(m)
  \/ Prune
  \/ PruneFails
  \/ Crash
  \/ Tick

(* A thread goes on with what it has begun, and the maintenance thread      *)
(* flushes every five seconds.                                              *)
Fairness == /\ \A p \in Threads : WF_vars(Continue(p))
            /\ WF_vars(StartFlush(Maintainer))

Spec == Init /\ [][Next]_vars /\ Fairness

-----------------------------------------------------------------------------
(* Properties                                                               *)

(* Types; and a memory is never used for an action it was not presented     *)
(* for, in whatever order the receipts of a turn arrive.                    *)
TypeOK ==
  /\ trace_buffer \in Seq(Traces)
  /\ threads \in [Threads -> Thread \cup {Idle}]
  /\ recall_traces \subseteq Traces
  /\ receipts \in [Keys -> {x \in Row : Valid(x)} \cup {NoReceipt}]
  /\ access_count \in [Memories -> 0..MaxAccess]
  /\ now \in Instants
  /\ served \in [Traces -> Instants \cup {Unserved}]
  /\ gone \subseteq Traces
  /\ failures \in 0..MaxFailures /\ crashes \in 0..MaxCrashes

\* How often a trace is in a sequence, and in the batches of the threads.
Times(s, t) == Cardinality({i \in DOMAIN s : s[i] = t})

Carried(t) == MapThenSumSet(LAMBDA p : IF threads[p] = Idle THEN 0
                                       ELSE Times(threads[p].batch, t), Threads)

(* Every trace that was answered is in exactly one place: waiting in the    *)
(* buffer or in one thread's batch, stored, or gone for a reason the code   *)
(* knows (overflow, a failed commit, a crash, age).  So no trace is lost by *)
(* the hand-over between threads, and none is stored twice, which would     *)
(* delete its receipts.                                                     *)
TracesAreAccountedFor ==
  \A t \in Traces :
    LET waiting == Times(trace_buffer, t) + Carried(t)
        settled == (IF t \in recall_traces THEN 1 ELSE 0)
          + (IF t \in gone THEN 1 ELSE 0)
    IN  waiting + settled = IF served[t] = Unserved THEN 0 ELSE 1

(* Every stored receipt refers to a stored trace, also after a prune.       *)
ReceiptsHaveTraces ==
  \A k \in Keys : receipts[k] # NoReceipt => k[1] \in recall_traces

(* A stored receipt goes only by its own age or that of its trace: no       *)
(* flush, failure or crash takes it.                                        *)
ReceiptsAreKept ==
  [][\A k \in Keys : receipts[k] # NoReceipt /\ receipts'[k] = NoReceipt
       => OldReceipt(k) \/ served[k[1]] < Cutoff]_vars

(* "Preserve monotonic receipt updates": what a receipt once told is never  *)
(* taken back by a late or repeated one.                                    *)
ReceiptsAreMonotonic ==
  [][\A k \in Keys : receipts[k] # NoReceipt /\ receipts'[k] # NoReceipt =>
       /\ receipts[k].presented  => receipts'[k].presented
       /\ receipts[k].referenced => receipts'[k].referenced
       /\ receipts[k].used       => receipts'[k].used
       /\ receipts[k].outcome # NoOutcome => receipts'[k].outcome # NoOutcome
       /\ receipts'[k].consumed >= receipts[k].consumed]_vars

(* An answered trace does not wait in memory for ever.                      *)
TracesAreSettled ==
  \A t \in Traces : (served[t] # Unserved) ~> (t \in recall_traces \cup gone)

(* CHANGELOG.md, "Preserve monotonic/idempotent receipt updates": a batch    *)
(* that tells nothing new has no effect.                                    *)
RepeatedReceiptsChangeNothing ==
  [][\A p \in Workers :
       Record(p) /\ receipts' = receipts => access_count' = access_count]_vars

(* README.md, "Recall responses include a durable trace identity so     *)
(* consumers can record [...] receipts": receipts are refused only when a   *)
(* trace they name is gone.                                                 *)
ServedTracesTakeReceipts ==
  [][\A p \in Threads : RefuseReceipts(p) =>
       \E i \in DOMAIN threads[p].sent : threads[p].sent[i].trace \in gone]_vars

=============================================================================
