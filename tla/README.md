# A TLA+ model of kitt-memory

kitt-memory is the memory service of a family of agents: a daemon
(`kitt-memoryd`) that answers framed JSON requests over loopback TCP, and a
SQLite store (`kitt-memory-sqlite`) behind it, with the domain rules in
`kitt-memory-core`. This directory holds TLA+ modules of its core, the TLC
configurations that check them on small instances, and proofs, checked by
TLAPS, of most of what they promise for every value of the constants.
Twelve component modules, twelve runs, eight modules of proofs.

    tlc -workers 2 -config MCMemoryStore.cfg MCMemoryStore.tla    # one run
    tlapm MemoryStore_proofs.tla                                  # one proof module

`PROJECT.json` lists the components, the runs, the lines of source that each
definition stands for, the hazards of the code and the properties that cover
them, and for every checked property a plausible mistake in the code (an
operator whose comment starts with `Fault:`) that makes it fail.

## 1. The system

### How it runs

`main` opens the store, spawns 2 to 8 worker threads and one maintenance
thread, and pushes accepted connections into a bounded queue. A worker serves
one connection at a time, frame by frame: `read_frame`, `handle`, write. The
store keeps one writer connection behind a mutex, a pool of reader connections
on WAL snapshots, and one buffer of recall traces behind a mutex of its own.
Every write operation is one section under the writer mutex, usually one
IMMEDIATE transaction; what makes the system hard is that most requests are
*several* such sections, with other workers, the maintenance thread, the
caller's death and the daemon's death in between.

### Inventory

| component | state | operations | depends on |
|---|---|---|---|
| Memory records | `memories`, its unique index of active identities, its triggers, `baseline_revisions` | remember, upsert_record, forget, set_status, set_pinned, archive_workspace, commit_dream, prune_expired, consolidate_exact_duplicates | everything else refers to its rows |
| Baseline reads and etags | none of its own; clients keep the last baseline and its etag | baseline, progressive_baseline | memory records and their counters, read in two statements |
| Request receipts, dispatch | `request_receipts`; what each worker is doing | begin_request, finish_request, handle, request_status | wraps every mutation |
| Memory jobs | `memory_jobs`; the leases that outside workers believe they have | enqueue, claim, complete, fail, terminal failure, pruning | called through management, pruned by maintenance |
| Recall traces, consumption receipts | trace buffer, `recall_traces`, `memory_consumption_receipts`, `access_count` | record trace, flush, record receipts, touch, pruning | foreign keys among them; flushed by several threads |
| Ranking, merge assessment | none | scoring, `assess_merge_candidate`, token-budgeted selection | pure |
| Evidence assessment | none | a table of origin and class to tier | pure |
| Semantic context | context nodes, links, sources, change sets, schemas | upsert, mark dirty, link, record | memory records, cascades |
| Corrections, concepts, links | `corrections`, `concepts`, `concept_links` | record, upsert, link, expand | memory records |
| Embeddings | `memory_embeddings` | upsert, pending, clear, search | content hash of memory records |
| Dream runs | `dream_runs` | record, commit, last | writes memory records |
| Search, get, timeline | none | recall, paging, budgets | memory records, traces |
| Server | connection queue, workers, frame deadlines | accept, read_frame, serve_connection | request receipts |
| Schema migration | `schema_info` and every table | migrate, at open | memory records |
| Management front end | none | `manage::handle` | all of the above |

### What is hard here, and what has to be right

* **Memory records.** Five writers reach a row by different routes and only
  some of them check the identity, the interval or the sensitivity: at most one
  active row per identity; a stored interval is never inverted; sensitivity
  only rises; nothing usable is erased but by `forget`; what was remembered can
  be recalled for its lifetime, however late it is stored; expired rows go.
* **Baselines.** A client may keep a baseline for as long as its etag is
  current. So every change of what a reader sees must raise that reader's
  revision, and the revision must be read *with* the rows.
* **Request receipts.** The receipt, the mutation and the response are three
  transactions; a retry may come while the first is running, after the daemon
  died between any two of them, with another payload, or after the receipt has
  expired. The mutation must run at most once, and everybody must get the same
  answer.
* **Memory jobs.** Workers outlive their leases: a late answer must not disturb
  the job's next holder, two leases must not run at once, lost work must be
  found again, settled work must stay settled.
* **Traces and receipts.** A trace id is answered while the trace exists only
  in memory; two threads flush; a flush may fail before, within or after its
  transaction; receipts arrive twice and out of order.
* **Schema migration.** Two upgrades retire rows that became one identity. No
  row may be lost, each must live on in exactly one active row that is no less
  restricted, and an open that aborts must leave the older store.
* **Embeddings.** Vectors are computed outside, over minutes, while the row is
  rewritten, merged, forgotten or stored again under its id: a vector must
  never match another text. The table is the only queue, so a memory without
  its vector must come up again after lost batches and clears.
* **Server.** A few workers serve every connection, and clients trickle, fall
  silent, send ahead and leave: an open connection has one worker, a queued one
  is taken up, a frame has one deadline, answers follow the frames.
* **Concepts and links.** A walk of up to ten statements reads a graph that grows
  under it; its answer must still be within its limit, its scope and its hops.
* **Context nodes.** A summary is written long after what it summarises was
  read; the dirty counter must tell how much has been marked since then.

The hazards listed in `PROJECT.json` name the line where each of these bites.

## 2. Modules

| module | models | source | proofs |
|---|---|---|---|
| `MemoryStore` | every write to `memories`, the triggers, who sees which row | `sqlite/src/lib.rs`, `admin.rs`, `core/src/lib.rs` | `MemoryStore_proofs` |
| `BaselineEtag` | clients reading baselines under all of these writers (EXTENDS `MemoryStore`) | `lib.rs` `baseline`, `main.rs` `progressive_baseline` | `BaselineEtag_proofs` |
| `OnceOnly` | abstract: an id is entered, takes effect once, is answered once | `COMPATIBILITY.md` | |
| `RequestReceipts` | `handle` around `begin_request`/`finish_request`, crashes; implements `OnceOnly` | `main.rs`, `lib.rs` | `RequestReceipts_proofs` |
| `MemoryJobs` | the jobs of one phase and the workers that lease them | `evidence.rs`, `admin.rs` | `MemoryJobs_proofs` |
| `RecallTraces` | buffer, flush, receipts, access counts, pruning, crashes | `semantic.rs`, `evidence.rs`, `admin.rs` | `RecallTraces_proofs` |
| `Migration` | the opening of an older store (EXTENDS `MemoryStore`) | `lib.rs` `migrate` | in `Embeddings_proofs` |
| `Embeddings` | vectors and the embedders outside, over an upgraded store (EXTENDS `Migration`) | `vector.rs`, schema 10 triggers | `Embeddings_proofs` |
| `Server` | accept loop, queue, worker pool, `read_frame`, `serve_connection`, clients | `main.rs` | `Server_proofs` |
| `Knowledge` | concepts, links, `expand_concepts` statement by statement | `lib.rs`, `core/src/knowledge.rs` | in `SemanticLayer_proofs` |
| `ContextIndex` | context nodes and their counters, summarizers, links and sources of memories | `semantic.rs` | in `SemanticLayer_proofs` |
| `SemanticLayer` | composes `Knowledge` and `ContextIndex` | `manage.rs` | `SemanticLayer_proofs` |

`MC<module>` instantiates each for TLC. The compositions are `BaselineEtag`
(readers with all writers of memories), `Embeddings` over `Migration` over
`MemoryStore` (embedders with all writers, from an older store on) and
`SemanticLayer`. `Server` and `RequestReceipts` meet at one action: `Reply` of
the one is `handle` of the other.

### MemoryStore

`memories` is the table, `baseline_revisions` the counters the triggers keep,
`now` the clock. A *place* stands for (namespace, scope, workspace, scope key),
a *content* for (kind, content hash), a sensitivity is its
`restriction_rank`, and NULL ends of an interval are instants outside the clock.
One action per operation, each a whole transaction: for example `Remember` is
the lookup, then either the merge (which raises rank, pin and end) or the
insert; `CommitDream` writes an updated and a new row and aborts as a whole on
an inverted interval or on the unique index. Some calls read the clock before
they wait for the writer mutex and for the database (remember in `into_record`,
`archive_workspace`, and `set_status` before its statement): they write any instant
up to now (`ClockReadings`), so a memory may be stored late, with a part of its
lifetime or all of it spent. What they write depends on nothing else of that time
(`archive_workspace` also looks whether the workspace has an active row, and ends
there when it has none); the rest of the call is one transaction, hence one
action. `Put` is `ON CONFLICT(id) DO UPDATE`, `UniqueIn` the index, `IntervalOK` the validation trigger, `Bump` the
three revision triggers. `UniqueIn` guards only the dream commit: for all other
operations the model leaves the index out, so that the property
`UniqueActiveIdentity` shows that their own lookups suffice.

Abstractions: scores, metadata and text are left out; a trigger raises a counter
once per place and transaction instead of once per row; a dream writes one updated
and one new row; the rows written by `upsert_record` and by a dream are any
rows out of a given set, since nothing in the code restricts what a sync or a
dream may have read earlier.

### BaselineEtag

`ReadRows` is the first statement of `baseline`, `AnswerNotModified` and
`AnswerBaseline` are the second with the two outcomes of `progressive_baseline`;
every action of `MemoryStore` may come in between. `cached` is the client's last
baseline of each place. `since` and `raced` are history: whether the revision
moved between the two statements.

### RequestReceipts and OnceOnly

`request_receipts` is the table; `workers` is where each thread is in `handle`:
`Admit` is `begin_request` with its DELETE, its capacity test and its INSERT;
`Replay` and `Refuse` are its other outcomes; `Apply` is `handle_authorized`;
`Finish` and `FinishFails` are `finish_request`; `Crash` forgets the workers.
A response is only its length: `Reserve` stands for the 1 MiB a pending row is
charged. `executions` and `answers` are history. The refinement maps the table to
the ledger of `OnceOnly` and `executions` to its effects; `Replay`, `Refuse`,
`Crash` and `Tick` are stutters there.

### MemoryJobs

`jobs` is the table; `ahead` is the claim order (`created_at`, then a random
id). A new job comes in anywhere in it, because `created_at` is read before the
wait for the mutex. The thirty days after which a settled job is pruned are not
counted: it may be pruned at any time. `held` are the grants that workers
outside may still act on, whether or not the lease is over. Times are what is left of them. `Accepts` is the
condition of the three settling updates (status and owner, *not* the attempt and
*not* the lease), `Lose` is the death of a worker. `OwnersReused` says whether
a worker may claim a job under a name that still has an unanswered grant of it.

### RecallTraces

`trace_buffer` is the queue, `threads` what each thread is in the middle of,
with the batch it drained. `Drain` and `FlushCommits` are the two halves of
`flush_recall_traces`; `InsertFails` puts the batch back, `CommitFails` loses it.
`Record` or `RefuseReceipts` end `record_consumption_receipts`; `Prune` and
`PruneFails` end `periodic_maintenance`. `gone` is history: the traces that were
pruned, lost or dropped, so that every trace can be accounted for.

### Migration

`legacy` is the table under the older schema, `memories` the table of schema 10;
`Open` is the one IMMEDIATE transaction that moves the rows from one to the
other, or nothing happens. Its steps are named for the versions that rewrite
rows: `GlobalsMerged` (4), `Rehashed` (9, which makes one content of two
spellings) and `IdentitiesMerged` (9). `Keeper` is the row that the SQL window
functions put first: pinned rows, then *some* order of the others, because
importance and `updated_at` are data. A store of version 9 has its revision counters
already (`LegacyRevisions`) and keeps them; an older one starts them at 1. An inverted interval or a remaining
double identity aborts. DDL, the context roots of version 5 and the full-text
tables are left out.

### Embeddings

`embeddings` is the table for one model, `batches` what each embedder was handed
and has not answered. `TakeBatch` is `vector.pending` with its limit,
`UpsertEmbedding` is `vector.upsert` with its WHERE clause, `LoseBatch` the
death of an embedder, `ClearEmbeddings` is `vector.clear`. Every step of the
store takes `Invalidated` with it: the delete cascade and the stale trigger. A
vector is the hash it is tagged with and, as history, the text it was computed
from. Dimensions, norms and the arithmetic of the ranking are left out: they
decide which of the matching rows is first. Embedders work on workspaces, as
`vector.pending` does.

### Server

`clients` holds both ends of a connection: what is under way (`stream`), and
which frames the client awaits. `queue` is the bounded channel, `receiver` the
mutex around its receiving end, `workers` the stage of each thread. A frame is
a run of pieces, the last with the newline; `Read` is one iteration of
`read_frame`, which consumes a whole chunk and discards what follows the
newline in it; `TimeOut` is the deadline of two seconds, in ticks; `Reply` and
`WriteFails` end `handle`. What a frame asks for is in `RequestReceipts`, so
frames are numbered 0 and 1 in turn. `age` is history.

### Knowledge, ContextIndex, SemanticLayer

A writer is one section under the writer mutex, so one action. `walk` is a
reader in `expand_concepts`: `LoadFrontier` and `ReadLinks` are its two SELECTs,
with writers in between; what it knew at the start is history. It starts from at
most eight concepts (`MaxSeeds`), which is what its caller
`search_concept_neighborhood` passes, so that the `take(16)` of `expand_concepts` and
its filter of blank ids have nothing to drop. `nodes` are
context nodes, `summaries` the summarizers that have read one and not yet
written it; `UpsertContextNode` resets the counter, `MarkContextDirty` adds to it
and saturates. `EraseMemory` is the cascade of a forgotten memory over its
links and sources. Concepts are their identities; labels, definitions, weights
and texts are left out. `SemanticLayer` interleaves the two, from a store
that has been in use, and bounds the writes (`MaxWrites`).

## 3. Runs

| run | states | checks |
|---|---|---|
| `memory_store` | two rows, three places, ranks 0 and 3, clock 0..1 | 3 invariants, 4 action properties, 1 liveness |
| `baseline_etag` | one client, one row that moves between two places, clock 0..1 | `UnracedBaselinesAreCurrent` |
| `stale_baseline` | the same, clock stopped | **violated:** `NotModifiedMeansUnchanged` |
| `request_receipts` | three ids, two payloads, two workers, room for two rows | 5 invariants, 1 action property, refinement |
| `memory_jobs` | two jobs, three names, leases and delays of 1 or 2 | 3 invariants, 2 action properties, 1 liveness |
| `reused_owners` | the same, two names, reused | **violated:** `LeaseIsExclusive` |
| `recall_traces` | three traces, a buffer of two, a worker and the maintenance thread, one storage error, one crash | 3 invariants, 2 action properties, 1 liveness |
| `trace_race` | the same without errors and crashes | **violated:** `ServedTracesTakeReceipts` |
| `repeated_receipts` | the same, more accesses | **violated:** `RepeatedReceiptsChangeNothing` |
| `embeddings` | stores of versions 3, 8 and 9 with two rows, two embedders, two faults | 2 invariants, 1 action property, 1 liveness |
| `server` | two workers, a client that never falls silent, one that sends ahead and leaves, a queue of one | 2 invariants, 2 liveness |
| `semantic_layer` | five concepts of two scopes, one node, two summarizers, three writes | 3 invariants, 1 action property |

### Why these bounds

* *memory_store.* Two rows are what a clash of identities, a swap and a
  supersession need; the three places are the three kinds there are (global,
  workspace, conversation), so a reader of the conversation sums all three
  counters. One tick separates "valid now", "not yet" and "expired",
  and lets a call commit after its ttl is over. Client
  writes stop when a place's counter is at `MaxRevision` (2); pruning does not.
* *baseline_etag.* One write before, between and after the two statements of
  two successive reads; two writes to one place.
* *request_receipts.* Two ids fill the table, the third is refused or takes
  the room of an expired one. `Reserve` 3 and `MaxBytes` 5: a second id is
  admitted only when the first is recorded with a short response.
* *memory_jobs.* Two jobs show the claim order, three names a lapsed holder, a
  second lapsed holder and a present one; leases of one or two units make them
  lapse before, with or after each other.
* *recall_traces.* Three traces overflow a buffer of two and can be split
  between the buffer, two threads and the table; the batches hold two receipts
  of one key, of two traces, and an invalid one. `Retention` 0 and two ticks
  let receipts and traces age apart.

* *embeddings.* Five older tables: two spellings that become one, the newer one
  private or starting later (so that the merge would invert an interval, and
  open aborts); a double global row; two rows that only coexist; one alone. The
  counters of a store of version 9 stand at 1 or at 2. The
  limit is one row, so one of two missing rows waits; two embedders can hold the
  same row; one fault more than is needed to lose every batch.
* *server.* Two workers are the fewest with which one busy client leaves the
  other served; a queue of one connection is full at once; frames of one or two
  pieces, with a limit of two, may be oversized, cut and put together; two
  pieces under way let a read cross a newline. `Deadline` is two ticks.
* *semantic_layer.* A ring of three, and a chain of four whose links point both
  ways; walks of two hops, cut short by a limit of 2 and not by 5; three writes
  are enough to grow the graph between all statements of a walk, and for a mark
  before, within and after a summary. `MaxDirty` 3 saturates under two marks
  of 2.

### Fairness

* *memory_store:* weak fairness of `PruneExpired`. The maintenance thread runs
  `periodic_maintenance` every twelfth round of five seconds for as long as the
  daemon lives, and an open of the store prunes before it serves.
* *memory_jobs:* weak fairness of time, of claiming (some worker keeps
  polling: an assumption about the clients of the daemon, without which no job
  is ever run), and of a worker dropping a grant whose lease has lapsed, so
  that names become free.
* *recall_traces:* weak fairness of each thread finishing the call it is in,
  and of the maintenance thread starting a flush (every five seconds).
* *embeddings:* weak fairness of each embedder asking for the missing rows of a
  workspace and storing what it computed: an assumption about the clients,
  without which no vector is ever made. Nothing is assumed of the
  writers of memories or of the opening of the store.
* *server:* weak fairness of time and of each worker's step: threads run, and
  calls of the store end. Nothing is assumed of the clients; that fewer of them
  keep busy for ever than there are workers is a constant (`Chatty`).
* *request_receipts, baseline_etag, semantic_layer:* none; nothing is promised to happen there,
  and the model may stop (a crash may leave a receipt pending for ever).

### What the four violations say

* **`stale_baseline`.** `baseline()` reads the rows, then the revision, in two
  statements on no common snapshot. A write between them is counted by the etag
  and missing from the entries: the client keeps the old ones and is told
  `not_modified` until the next write. MANUAL.md:43 promises `not_modified` when
  nothing relevant changed. The etag also leaves out `max_tokens` and `as_of`,
  and rows start and end by time alone; the run has one budget and a stopped
  clock so that it shows the race and not these. Reading the revision *first*,
  or both in one transaction, repairs the race: this is what
  `UnracedBaselinesAreCurrent` shows.
* **`reused_owners`.** The settling updates compare the owner's name only. If
  a worker claims again, under the same name, the job that its own lapsed
  attempt had, the late `job.fail` of that attempt takes the lease of the
  second one back to RETRY, and a third claim runs beside it. README.md:20 calls
  claiming worker-safe. With a name per claim (`memory_jobs`) it is, and
  comparing `attempt` would make it so for any names.
* **`trace_race`.** Receipts are refused for a trace that the maintenance
  thread has drained and not yet committed: `record_consumption_receipts` flushes
  first, finds the buffer empty, and fails the foreign key. README.md:236
  calls the identity durable.
* **`repeated_receipts`.** The receipt rows are updated idempotently,
  `access_count` and `last_accessed_at` are not (CHANGELOG.md:29).

### Also met while modelling

Not stated as properties of their own, or excepted in one:

* *Records.* A remember that waits for the database for longer than its ttl is
  answered as a success and stores an expired row (the clock is read before the
  wait): `RememberIsRecallable` counts the lifetime from the call. A row that starts in the future makes `archive_workspace` abort
  for the whole workspace.
* *Receipts and jobs.* A reply of 1 MiB or more leaves its mutation
  `outcome_unknown` for good; pending receipts left by crashes hold their 1 MiB of
  capacity for good; a `job.claim` that is replayed from its receipt hands out
  a lease that may have lapsed; a younger job may starve behind an older one
  that keeps failing.
* *Traces.* A batch put back after a failed flush ignores the buffer's capacity.
* *Migration.* Version 4 keeps the sensitivity of the global row that stays, not
  the highest (COMPATIBILITY.md:35 promises that duplicate resolution preserves
  the most restrictive one): `UpgradeMergesDuplicates` excepts it. The row that
  stays in version 9 is chosen without a look at its interval: it may have expired
  while a usable duplicate is superseded. A duplicate that starts in the future
  makes every open of that store abort until its time has come.
* *Embeddings.* A worker that computed before `vector.clear` stores its vector
  after it; a vector that is refused every time leaves its row at the head of
  the batch; a vector of the wrong dimension counts as done.
* *Server.* The queue holds 64 connections and the workers up to eight more, against the
  "64 concurrent connections" of COMPATIBILITY.md:21; dropped connections get
  no answer; a frame sent ahead in the same chunk as its predecessor's end is
  lost, and its client learns of it when the deadline closes the connection;
  as many clients that never fall silent as there are workers starve the
  queue.
* *Context.* Marks that come while a summary is made are lost with the reset
  (`raced` in `DirtyCountsAreExact`); nothing propagates a mark to the ancestors
  of a node, or marks one when a memory below it is written (README.md:17 and
  226 describe it). A concept stores the provenance and sensitivity that its
  caller claims (SECURITY.md:17: "retain sensitivity/provenance from their
  source memories"), and its sources may name memories that have been erased. A
  change set that is recorded again under its id loses its earlier changes.

## 4. Proofs

Every theorem is for any number of rows, places, clients, workers, jobs, any
capacities and any bound on the clock; the assumptions are the `ASSUME`s of the
component's module (shapes of the constants, distinctness of the null values,
finite sets of threads and concepts), which TLC evaluates in the runs.

* **MemoryStore_proofs.** The inductive invariant is `TypeAndIntervals`: types,
  and no interval inverted. `UniqueActiveIdentity` is then inductive; each operation
  keeps it by its own argument (the lookup of remember and upsert_record, the
  status condition of set_status, the index for a dream, and for the others
  that they only retire or erase). The lemma `NextCoversViews` is the heart of
  `RevisionCorrect`: a view changes only at rows that are in a covered place before
  or after the step, and that place's counter is raised. The remaining action
  properties (`SensitivityCorrect`, `ErasureCorrect`, `RecallCorrect`) need the types
  and one case per operation; `RecallCorrect` also needs the unique identity, by which
  the row that a merge extends is the one that a recall could have used before.
* **BaselineEtag_proofs.** `UnracedCorrect` composes the two reads with any
  writer: by `NextCoversViews` a step either leaves a view alone or raises its
  revision, and by `RevisionsRise` no step lowers one; so a baseline held under
  the present revision is the present view. The invariant adds the types of
  the clients to `TypeAndIntervals`.
* **RequestReceipts_proofs.** `AtMostOnce` alone is not inductive. `IInv` adds
  `InFlightRecorded` (what a worker is dispatching is pending under the payload it
  was sent with, and has run as often as the worker's stage says),
  `InFlightAlone` (no second worker is dispatching it) and `AbsentUntouched`;
  it is needed because a second dispatch and an expiry under a worker's feet are
  excluded only by the receipt being pending. From it follow the invariants,
  `ReceiptsAreKept` and `Refinement`: `Init` maps to `Init`, and each step of the
  daemon to a step of `OnceOnly` or a stutter.
  `WithinCapacityCorrect` is about a sum over a set, which `Bytes` folds. Instead
  of induction over the fold: `SumCountsUnits` and `UnitsAreASum` identify the
  sum with the number of pairs <<request, unit>> (`Units`), by a smallest set for
  which they would differ. Then sums are compared by inclusion of those pairs: an
  admission adds at most what it checked for, and a completion stays within what
  its admission reserved.
* **MemoryJobs_proofs.** Under `~OwnersReused` the invariant `LeaseInv` says that
  a name has one grant of a job at most, that a current grant agrees with the
  row for as long as it lasts, and that a superseded grant has lapsed
  (a claim needs a lapsed lease); `LateIsFenced` says that a superseded grant never
  passes the owner check. They give `LeaseIsExclusive`, `LiveLeaseHolds` and
  `LateCallsChangeNothing`, which have `~OwnersReused` as hypothesis because they
  are false without it (`reused_owners`); `TypeCorrect` and `SettledCorrect` hold
  for any names.

* **RecallTraces_proofs.** Why is a receipt never deleted with a trace that is
  stored twice? `Placed`: an answered trace is in one place, the buffer, one
  thread's batch or the table, so a flush never meets a stored trace. It is
  inductive together with the types, the validity of what a thread will
  record, and `ReceiptsHaveTraces`. `MergedFacts` says what a batch of valid
  receipts makes of a row; its only arithmetic is that the latest of a bounded
  set of instants exists, which is well-founded induction on the naturals
  through `WFMin`.
  `AccountedForCorrect` needs more than `Placed`, which lets a sequence repeat a
  trace and does not mention `gone`. `Accounts` adds both: the buffer and the
  batches repeat nothing (`Unrepeated`), and an answered trace is somewhere, one
  that is gone nowhere else (`Settled`). `AccountsCount` turns that into the sum
  of the property: the fold over the threads' batches is 0 or 1 because one of
  them at most holds the trace. This is where the set of threads has to be finite.
* **Embeddings_proofs.** `UpgradeCorrect` is about every finite older table: the
  `Keeper` of an identity exists (a least element, again `WFMin`) and is the same for all of
  its rows, so both merges leave one active row of each identity and the
  heirs of a row are exactly one. `LegacyOK` says what is known of the older
  table until it is opened. `StoreSound` shows that the invariants of
  `MemoryStore` hold again after an upgrade, and reuses its lemmas from there.
  `MatchesCorrect` needs only that a vector's hash is the text it was computed
  from (`TaggedRight`): the WHERE clause of the upsert at one end, the hash
  comparison of the search at the other.
* **SemanticLayer_proofs.** `LayerOK` adds to the types that a summarizer has seen
  no more than has been marked, that the counter of a node is its marks
  since, and that links join known concepts of one scope.
  `ExpansionsCorrect` compares the walk of `expand_concepts` with `Ball`. As `Ball`
  chooses a recursive function, `BallFacts` first shows that it obeys its
  recursion (such functions exist for each number of rounds and agree, by least
  counterexamples); from it follow that balls grow with hops, seeds and links
  (`BallsAreNested`, `BallGrows`), that none leaves a set that no link leaves
  (`BallsStayInside`), and `BallIsPaths`: a ball is what the paths of a graph say,
  so the reference is no second version of the walk. The invariant is
  `WalkOK`, with one part for each place at which a writer may come in. Before the
  concepts of a round are read (`Loading`), the ball that the walk would have had
  at its beginning is visited or in the frontier, and what is named is within
  the rounds done by the graph of now; before the links are read (`Following`) that
  ball is visited. Both are needed: rows and links that arrive in between
  are found or not, and only the ball of the beginning bounds the answer from
  below, only that of now from above. Writers keep `WalkOK` because they only
  add (`GrowthOK`). A walk ends in one of three ways: with the hops done or nothing
  fresh (`EndRight`; the visited set is then closed under the links of the beginning),
  or cut by the limit in a round whose earlier rounds are complete (`LoadRight`).
* **Server_proofs.** `Good` says where the pieces of a connection may be: what a
  worker has read and what is under way belong to awaited frames, in the
  order in which they are awaited, nothing follows the end of a frame, and an
  unfinished frame has no end yet. A read keeps it because it takes a chunk from the
  front and discards; a reply because everything left belongs to later
  frames. `Assigned` is the ownership of connections. Together they are
  inductive and give `ServerTypeCorrect` (with `left + age <= Deadline` for the
  deadline) and `HandledCorrect`.

Model-checked only: all liveness (`ExpiredEventuallyGone`,
`LostWorkIsRecovered`, `TracesAreSettled`, `MissingVectorsAreMade`,
`FramesAreSettled`, `QueuedConnectionsAreServed`), which is out of the proof
system's reach, and the properties of the runs that expect a violation. Every
invariant and every action property of a passing run is the subject of a theorem.

## 5. Not modelled

Not a subject for these tools: floating-point scores, BM25, vector arithmetic,
text normalisation and hashing (abstracted to equality), JSON and CLI formats,
the fixed table of evidence tiers, DDL.

Left out, each for its reason:

* **Ranking, merge assessment, selection of a baseline.** `assess_merge_candidate`
  and the scores are pure functions of one call over token sets and floats; a
  model that keeps their thresholds and abstracts the tokens repeats the code.
  `build_memory_baseline` is one sorted pass under a token budget, without state.
* **Change sets and schemas.** Single `REPLACE` statements that nothing in the
  daemon calls; a property of them would restate the statement.
* **Corrections, dream runs' log, full-text search.** Rows that are inserted and
  counted, to which no other state refers, and reads.
* **Paging of search, snippets, timeline.** Which rows a reader may see is in
  `MemoryStore`, the trace of an answer in `RecallTraces`; the budgets of
  bytes are formats.
* **`Server` with `RequestReceipts` as one state space.** They meet at `handle`: a
  lost answer is `WriteFails` there and the caller's later `request_status` or
  retry here; the product adds no shared state beyond the request id and was not
  checked as a whole. The same holds of `job.claim` through its receipt.
* **The hazards without a property** in `PROJECT.json` say there why they have none.
