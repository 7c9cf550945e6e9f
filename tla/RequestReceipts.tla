--------------------------- MODULE RequestReceipts ---------------------------
(***************************************************************************)
(* The daemon's dispatch of mutating requests through durable receipts:     *)
(* handle (apps/kitt-memoryd/src/main.rs) around begin_request and          *)
(* finish_request (crates/kitt-memory-sqlite/src/lib.rs).  Clients may send *)
(* any request id with any payload at any time, again or twice at once, so  *)
(* a worker takes any of them.  The receipt row, the mutation and the       *)
(* response are three transactions with the daemon's death possible between *)
(* them.                                                                    *)
(*                                                                          *)
(* A response is its length in units such that a pending row is charged     *)
(* Reserve; a response of Reserve or more cannot be stored.  A memory error *)
(* is a response like any other.                                            *)
(*                                                                          *)
(* Definitions whose comment starts with "Fault:" are deliberate mistakes   *)
(* for the mutants of PROJECT.json.                                         *)
(***************************************************************************)
EXTENDS Integers, FiniteSets, FiniteSetsExt

CONSTANTS
  Requests,    \* request ids
  Digests,     \* digests of (kind, payload)
  Workers,     \* worker threads
  NoReceipt, NoResponse, Idle,
  Reserve,     \* charge of a pending row (1 MiB)
  MaxBytes,    \* capacity (64 MiB)
  MaxRows,     \* capacity (10000)
  Retention,   \* age past which a completed row may go (7 days)
  MaxTime      \* bound on the clock

ASSUME CapacityAssumption == /\ Reserve \in Nat \ {0}
                             /\ MaxBytes \in Nat
                             /\ MaxRows \in Nat
                             /\ IsFiniteSet(Requests)
ASSUME ClockAssumption    == Retention \in Nat /\ MaxTime \in Nat

Responses == 1..Reserve      \* the last one is too long to be stored
Storable  == 1..(Reserve - 1)

Receipt == [digest: Digests, response: Storable \cup {NoResponse},
            created: 0..MaxTime]
Job     == [id: Requests, digest: Digests, stage: {"admitted"}]
           \cup [id: Requests, digest: Digests, stage: {"applied"},
                 response: Responses]

ASSUME NamesAssumption == /\ NoReceipt \notin Receipt
                          /\ NoResponse \notin Responses
                          /\ Idle \notin Job

VARIABLES
  request_receipts,  \* the table
  workers,           \* what each worker thread is doing
  now,               \* now_epoch()
  executions,        \* history: mutations run since the id's row was inserted
  answers            \* history: the <<digest, response>> answered since then

vars == <<request_receipts, workers, now, executions, answers>>

Init ==
  /\ request_receipts = [r \in Requests |-> NoReceipt]
  /\ workers = [w \in Workers |-> Idle]
  /\ now = 0
  /\ executions = [r \in Requests |-> 0]
  /\ answers = [r \in Requests |-> {}]

-----------------------------------------------------------------------------
(* The table                                                                *)

Present(r)   == request_receipts[r] # NoReceipt
Completed(r) == Present(r) /\ request_receipts[r].response # NoResponse
Pending(r)   == Present(r) /\ request_receipts[r].response = NoResponse

\* Fault: age alone decides, so a pending row expires like any other.
ExpiredAnyState == {r \in Requests : Present(r) /\
                     request_receipts[r].created < now - Retention}

\* What the DELETE of begin_request removes.
Expired == {r \in Requests : Completed(r) /\
              request_receipts[r].created < now - Retention}

Charge(r) == CASE Pending(r)   -> Reserve
               [] Completed(r) -> request_receipts[r].response
               [] OTHER        -> 0

Rows(ids)  == Cardinality({r \in ids : Present(r)})
Bytes(ids) == MapThenSumSet(Charge, ids)

\* Fault: the room for the new response is not counted.
HasRoomUnreserved(kept) == Rows(kept) < MaxRows /\ Bytes(kept) <= MaxBytes

\* Capacity once the expired rows are gone.
HasRoom(kept) == Rows(kept) < MaxRows /\ Bytes(kept) + Reserve <= MaxBytes

-----------------------------------------------------------------------------
(* begin_request, as the worker that dispatches request id r sees it        *)

\* New: the expired rows go and the pending row is inserted, in one
\* transaction; the mutation is dispatched only after it.
Admit(w, r, d) ==
  /\ workers[w] = Idle
  /\ ~Present(r)
  /\ HasRoom(Requests \ Expired)
  /\ request_receipts' =
       [q \in Requests |->
          IF q = r THEN [digest |-> d, response |-> NoResponse, created |-> now]
          ELSE IF q \in Expired THEN NoReceipt
          ELSE request_receipts[q]]
  /\ workers' = [workers EXCEPT
                   ![w] = [id |-> r, digest |-> d, stage |-> "admitted"]]
  /\ executions' = [q \in Requests |-> IF q \in Expired THEN 0
                                       ELSE executions[q]]
  /\ answers' = [q \in Requests |-> IF q \in Expired THEN {} ELSE answers[q]]
  /\ UNCHANGED now

\* Fault: the stored response is replayed whatever the payload.
ReplayAnyDigest(w, r, d) ==
  /\ workers[w] = Idle
  /\ Completed(r)
  /\ answers' = [answers EXCEPT ![r] = @ \cup
                   {<<d, request_receipts[r].response>>}]
  /\ UNCHANGED <<request_receipts, workers, now, executions>>

\* Completed: the stored response is the reply.
Replay(w, r, d) ==
  /\ workers[w] = Idle
  /\ Completed(r)
  /\ request_receipts[r].digest = d
  /\ answers' = [answers EXCEPT ![r] = @ \cup
                   {<<d, request_receipts[r].response>>}]
  /\ UNCHANGED <<request_receipts, workers, now, executions>>

\* Fault: a pending row under the same digest is taken over, as a retry.
RetryPending(w, r, d) ==
  /\ workers[w] = Idle
  /\ Pending(r) /\ request_receipts[r].digest = d
  /\ workers' = [workers EXCEPT
                   ![w] = [id |-> r, digest |-> d, stage |-> "admitted"]]
  /\ UNCHANGED <<request_receipts, now, executions, answers>>

\* request_id_conflict, outcome_unknown or receipt_unavailable: nothing
\* changes, the deletion of the expired rows included.
Refuse(w, r, d) ==
  /\ workers[w] = Idle
  /\ \/ Present(r) /\ request_receipts[r].digest # d
     \/ Pending(r)
     \/ ~Present(r) /\ ~HasRoom(Requests \ Expired)
  /\ UNCHANGED vars

-----------------------------------------------------------------------------
(* The rest of handle, and the process                                      *)

\* handle_authorized: the mutation commits, or fails with an error reply.
Apply(w) ==
  \E x \in Responses :
    /\ workers[w] # Idle
    /\ workers[w].stage = "admitted"
    /\ workers' = [workers EXCEPT
                     ![w] = [id |-> workers[w].id, digest |-> workers[w].digest,
                             stage |-> "applied", response |-> x]]
    /\ executions' = [executions EXCEPT ![workers[w].id] = @ + 1]
    /\ UNCHANGED <<request_receipts, now, answers>>

Applied(w) == workers[w] # Idle /\ workers[w].stage = "applied"

\* Fault: the reply is sent even when it could not be recorded.
FinishUnchecked(w) ==
  LET r == workers[w].id
      x == workers[w].response
  IN  /\ Applied(w)
      /\ request_receipts' =
           IF Pending(r) /\ x \in Storable
           THEN [request_receipts EXCEPT ![r].response = x]
           ELSE request_receipts
      /\ answers' = [answers EXCEPT ![r] = @ \cup {<<workers[w].digest, x>>}]
      /\ workers' = [workers EXCEPT ![w] = Idle]
      /\ UNCHANGED <<now, executions>>

\* Fault: the length of the response is not checked.
FinishAnyLength(w) ==
  LET r == workers[w].id
      x == workers[w].response
  IN  /\ Applied(w)
      /\ request_receipts' = IF Pending(r)
                             THEN [request_receipts EXCEPT ![r].response = x]
                             ELSE request_receipts
      /\ answers' = [answers EXCEPT ![r] = @ \cup {<<workers[w].digest, x>>}]
      /\ workers' = [workers EXCEPT ![w] = Idle]
      /\ UNCHANGED <<now, executions>>

\* finish_request records a response that fits and the reply is sent.
Finish(w) ==
  LET r == workers[w].id
      x == workers[w].response
  IN  /\ Applied(w)
      /\ x \in Storable
      /\ request_receipts' = IF Pending(r)
                             THEN [request_receipts EXCEPT ![r].response = x]
                             ELSE request_receipts
      /\ answers' = [answers EXCEPT ![r] = @ \cup {<<workers[w].digest, x>>}]
      /\ workers' = [workers EXCEPT ![w] = Idle]
      /\ UNCHANGED <<now, executions>>

\* finish_request fails, for the length or in the storage: outcome_unknown.
FinishFails(w) ==
  /\ Applied(w)
  /\ workers' = [workers EXCEPT ![w] = Idle]
  /\ UNCHANGED <<request_receipts, now, executions, answers>>

\* The daemon dies and restarts: only the table is left.
Crash ==
  /\ \E w \in Workers : workers[w] # Idle
  /\ workers' = [w \in Workers |-> Idle]
  /\ UNCHANGED <<request_receipts, now, executions, answers>>

Tick ==
  /\ now < MaxTime
  /\ now' = now + 1
  /\ UNCHANGED <<request_receipts, workers, executions, answers>>

Dispatch(w) ==
  \E r \in Requests, d \in Digests :
    Admit(w, r, d) \/ Replay(w, r, d) \/ Refuse(w, r, d)

Next ==
  \/ \E w \in Workers : Dispatch(w)
  \/ \E w \in Workers : Apply(w)
  \/ \E w \in Workers : Finish(w)
  \/ \E w \in Workers : FinishFails(w)
  \/ Crash
  \/ Tick

Spec == Init /\ [][Next]_vars

-----------------------------------------------------------------------------
(* Properties                                                               *)

(* Types; above all, that no recorded response is too long for the frame    *)
(* it has to be replayed in.                                                *)
TypeOK ==
  /\ request_receipts \in [Requests -> Receipt \cup {NoReceipt}]
  /\ workers \in [Workers -> Job \cup {Idle}]
  /\ now \in 0..MaxTime
  /\ executions \in [Requests -> Nat]
  /\ answers \in [Requests -> SUBSET (Digests \X Responses)]

(* COMPATIBILITY.md: "a duplicate-dispatch barrier".  Whatever is retried,  *)
(* duplicated, crashed or expired meanwhile, the mutation of a request id   *)
(* runs at most once while its receipt exists.                              *)
AtMostOnce == \A r \in Requests : executions[r] <= 1

(* "Mutations admit a durable request receipt before changing storage":     *)
(* an id that request.status calls not_found is not being worked on, and    *)
(* has had no effect since it was last forgotten, so it is safe to send.    *)
NothingRunsUnrecorded ==
  \A r \in Requests : ~Present(r) =>
    /\ executions[r] = 0
    /\ \A w \in Workers : workers[w] # Idle => workers[w].id # r

(* Every definite answer given for an id since its admission is the one     *)
(* response recorded under it, and was given for the payload it was         *)
(* admitted with: no two clients get different results of one request.      *)
AnswersAreTheRecord ==
  \A r \in Requests : \A a \in answers[r] :
    /\ Completed(r)
    /\ a = <<request_receipts[r].digest, request_receipts[r].response>>

(* "Receipt data is bounded to 10,000 rows / 64 MiB": a response that is    *)
(* recorded later never pushes the table past what admission reserved.      *)
WithinCapacity == Rows(Requests) <= MaxRows /\ Bytes(Requests) <= MaxBytes

(* "Pending receipts are never evicted", and a completed one keeps its      *)
(* answer until it is older than the retention.                             *)
ReceiptsAreKept ==
  [][\A r \in Requests :
       /\ Pending(r) => Present(r)'
                        /\ request_receipts'[r].digest = request_receipts[r].digest
       /\ Completed(r) /\ request_receipts[r].created >= now - Retention
            => request_receipts'[r] = request_receipts[r]]_vars

(* The receipts implement the promise of OnceOnly.                          *)
Entry(r) ==
  CASE Pending(r) ->
         [state |-> "admitted", digest |-> request_receipts[r].digest]
    [] Completed(r) ->
         [state |-> "completed", digest |-> request_receipts[r].digest,
          response |-> request_receipts[r].response]
    [] OTHER -> [state |-> "absent"]

Ledger == [r \in Requests |-> Entry(r)]

Once == INSTANCE OnceOnly WITH ledger <- Ledger, effects <- executions

ImplementsOnceOnly == Once!Spec
=============================================================================
