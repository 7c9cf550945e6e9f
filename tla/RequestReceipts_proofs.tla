------------------------ MODULE RequestReceipts_proofs ------------------------
(* Proofs about RequestReceipts, for every number of ids, workers and       *)
(* payloads and every capacity and retention.                               *)
EXTENDS RequestReceipts, FiniteSetTheorems, TLAPS

(* Why the barrier works: what a worker is dispatching is pending under the *)
(* payload it was sent with, no second worker is dispatching it, and the    *)
(* mutations counted for it are those this worker has run.                  *)
InFlightRecorded ==
  \A w \in Workers : workers[w] # Idle =>
    /\ Pending(workers[w].id)
    /\ request_receipts[workers[w].id].digest = workers[w].digest
    /\ executions[workers[w].id] = IF workers[w].stage = "admitted" THEN 0 ELSE 1

InFlightAlone ==
  \A v, w \in Workers :
    v # w /\ workers[v] # Idle /\ workers[w] # Idle
      => workers[v].id # workers[w].id

AbsentUntouched == \A r \in Requests : ~Present(r) => executions[r] = 0

IInv == /\ TypeOK
        /\ InFlightRecorded
        /\ InFlightAlone
        /\ AbsentUntouched
        /\ AtMostOnce
        /\ AnswersAreTheRecord

USE CapacityAssumption, ClockAssumption, NamesAssumption

-----------------------------------------------------------------------------
(* The initial state: no id is known and no worker is busy.                 *)
LEMMA InitIInv == Init => IInv
  BY DEF Init, IInv, TypeOK, InFlightRecorded, InFlightAlone, AbsentUntouched,
         AtMostOnce, AnswersAreTheRecord, Present

(* begin_request answering New keeps the invariant: the rows it deletes are *)
(* completed, so no worker is dispatching them.                             *)
LEMMA AdmitIInv ==
  ASSUME IInv, NEW w \in Workers, NEW r \in Requests, NEW d \in Digests,
         Admit(w, r, d)
  PROVE  IInv'
<1> DEFINE row == [digest |-> d, response |-> NoResponse, created |-> now]
           job == [id |-> r, digest |-> d, stage |-> "admitted"]
<1>1. row \in Receipt /\ job \in Job
  BY DEF IInv, TypeOK, Receipt, Job
<1>2. /\ r \notin Expired
      /\ \A q \in Requests : Pending(q) => q \notin Expired
      /\ executions[r] = 0
      /\ answers[r] = {}
  BY DEF IInv, Admit, Expired, Completed, Pending, Present, AbsentUntouched,
         AnswersAreTheRecord
<1>3. /\ request_receipts'[r] = row
      /\ \A q \in Requests \ (Expired \cup {r}) :
           request_receipts'[q] = request_receipts[q]
      /\ \A q \in Expired : request_receipts'[q] = NoReceipt
      /\ request_receipts' = [q \in Requests |-> request_receipts'[q]]
  BY <1>2 DEF Admit, Expired
<1>4. /\ workers'[w] = job
      /\ \A v \in Workers \ {w} : workers'[v] = workers[v]
      /\ workers' \in [Workers -> Job \cup {Idle}]
  BY <1>1 DEF Admit, IInv, TypeOK
<1>5. /\ \A q \in Expired : executions'[q] = 0 /\ answers'[q] = {}
      /\ \A q \in Requests \ Expired : /\ executions'[q] = executions[q]
                                       /\ answers'[q] = answers[q]
  BY DEF Admit, Expired
<1>6. TypeOK'
  <2>1. request_receipts' \in [Requests -> Receipt \cup {NoReceipt}]
    BY <1>1, <1>2, <1>3 DEF IInv, TypeOK, Expired
  <2>2. /\ executions' \in [Requests -> Nat]
        /\ answers' \in [Requests -> SUBSET (Digests \X Responses)]
    BY DEF Admit, IInv, TypeOK
  <2>3. QED
    BY <2>1, <2>2, <1>4 DEF Admit, IInv, TypeOK
<1>7. \A v \in Workers : workers[v] # Idle =>
        workers[v].id \in Requests \ (Expired \cup {r})
  BY <1>2 DEF IInv, TypeOK, InFlightRecorded, Pending, Admit, Job
<1>8. InFlightRecorded'
  <2> SUFFICES ASSUME NEW v \in Workers, workers'[v] # Idle
               PROVE  /\ Pending(workers[v].id)'
                      /\ request_receipts'[workers'[v].id].digest = workers'[v].digest
                      /\ executions'[workers'[v].id] =
                           IF workers'[v].stage = "admitted" THEN 0 ELSE 1
    BY DEF InFlightRecorded
  <2>1. CASE v = w
    BY <2>1, <1>1, <1>2, <1>3, <1>4, <1>5 DEF Pending, Present
  <2>2. CASE v # w
    BY <2>2, <1>3, <1>4, <1>5, <1>7 DEF IInv, InFlightRecorded, Pending, Present
  <2>3. QED
    BY <2>1, <2>2
<1>9. InFlightAlone'
  BY <1>4, <1>7 DEF IInv, InFlightAlone
<1>10. AbsentUntouched' /\ AtMostOnce'
  BY <1>1, <1>2, <1>3, <1>5
     DEF IInv, AbsentUntouched, AtMostOnce, Present, Expired
<1>11. AnswersAreTheRecord'
  BY <1>2, <1>3, <1>5 DEF IInv, AnswersAreTheRecord, Completed, Present
<1>12. QED
  BY <1>6, <1>8, <1>9, <1>10, <1>11 DEF IInv

(* The mutation runs on a row that is pending and has run nothing yet.      *)
LEMMA ApplyIInv ==
  ASSUME IInv, NEW w \in Workers, Apply(w)
  PROVE  IInv'
<1>1. PICK x \in Responses :
        /\ workers[w] # Idle
        /\ workers[w].stage = "admitted"
        /\ workers' = [workers EXCEPT
                         ![w] = [id |-> workers[w].id, digest |-> workers[w].digest,
                                 stage |-> "applied", response |-> x]]
        /\ executions' = [executions EXCEPT ![workers[w].id] = @ + 1]
        /\ UNCHANGED <<request_receipts, now, answers>>
  BY DEF Apply
<1> DEFINE r == workers[w].id
           job == [id |-> r, digest |-> workers[w].digest,
                   stage |-> "applied", response |-> x]
<1>2. workers[w] \in Job /\ r \in Requests /\ job \in Job
  BY <1>1 DEF IInv, TypeOK, Job
<1>3. /\ workers'[w] = job
      /\ \A v \in Workers \ {w} : workers'[v] = workers[v]
      /\ workers' \in [Workers -> Job \cup {Idle}]
  BY <1>1, <1>2 DEF IInv, TypeOK
<1>4. /\ executions[r] = 0
      /\ executions'[r] = 1
      /\ \A q \in Requests \ {r} : executions'[q] = executions[q]
      /\ executions' \in [Requests -> Nat]
  BY <1>1, <1>2 DEF IInv, TypeOK, InFlightRecorded
<1>5. TypeOK'
  BY <1>1, <1>3, <1>4 DEF IInv, TypeOK
<1>6. InFlightRecorded'
  <2> SUFFICES ASSUME NEW v \in Workers, workers'[v] # Idle
               PROVE  /\ Pending(workers[v].id)'
                      /\ request_receipts'[workers'[v].id].digest = workers'[v].digest
                      /\ executions'[workers'[v].id] =
                           IF workers'[v].stage = "admitted" THEN 0 ELSE 1
    BY DEF InFlightRecorded
  <2>1. CASE v = w
    BY <2>1, <1>1, <1>3, <1>4 DEF IInv, InFlightRecorded, Pending, Present
  <2>2. CASE v # w
    <3>1. workers[v] \in Job /\ workers[v].id \in Requests \ {r}
      BY <2>2, <1>1, <1>3 DEF IInv, TypeOK, InFlightAlone, Job
    <3>2. QED
      BY <3>1, <2>2, <1>1, <1>3, <1>4
         DEF IInv, InFlightRecorded, Pending, Present
  <2>3. QED
    BY <2>1, <2>2
<1>7. InFlightAlone'
  BY <1>1, <1>3 DEF IInv, InFlightAlone
<1>8. AbsentUntouched' /\ AtMostOnce'
  BY <1>1, <1>2, <1>4
     DEF IInv, AbsentUntouched, AtMostOnce, InFlightRecorded, Pending, Present
<1>9. AnswersAreTheRecord'
  BY <1>1 DEF IInv, AnswersAreTheRecord, Completed, Present
<1>10. QED
  BY <1>5, <1>6, <1>7, <1>8, <1>9 DEF IInv

(* The response that is recorded is the first and only answer of its row.   *)
LEMMA FinishIInv ==
  ASSUME IInv, NEW w \in Workers, Finish(w)
  PROVE  IInv'
<1> DEFINE r == workers[w].id
           x == workers[w].response
<1>1. /\ workers[w] \in Job
      /\ r \in Requests
      /\ x \in Storable
      /\ Pending(r)
      /\ request_receipts[r].digest = workers[w].digest
      /\ request_receipts[r] \in Receipt
      /\ executions[r] = 1
  BY DEF Finish, Applied, IInv, TypeOK, InFlightRecorded, Job, Pending, Present
<1>2. /\ request_receipts' = [request_receipts EXCEPT ![r].response = x]
      /\ answers' = [answers EXCEPT ![r] = @ \cup {<<workers[w].digest, x>>}]
      /\ workers' = [workers EXCEPT ![w] = Idle]
      /\ UNCHANGED <<now, executions>>
  BY <1>1 DEF Finish
<1>3. /\ request_receipts'[r] = [request_receipts[r] EXCEPT !.response = x]
      /\ \A q \in Requests \ {r} : request_receipts'[q] = request_receipts[q]
  BY <1>1, <1>2 DEF IInv, TypeOK
<1>4. /\ request_receipts'[r] \in Receipt
      /\ request_receipts'[r].response = x
      /\ request_receipts'[r].digest = workers[w].digest
      /\ x # NoResponse
  BY <1>1, <1>3 DEF Receipt, Storable, Responses
<1>5. /\ workers'[w] = Idle
      /\ \A v \in Workers \ {w} : workers'[v] = workers[v]
  BY <1>2 DEF IInv, TypeOK
<1>6. answers[r] = {}
  BY <1>1 DEF IInv, AnswersAreTheRecord, Completed, Pending
<1>7. /\ answers'[r] = {<<workers[w].digest, x>>}
      /\ \A q \in Requests \ {r} : answers'[q] = answers[q]
  BY <1>1, <1>2, <1>6 DEF IInv, TypeOK
<1>8. TypeOK'
  <2>1. request_receipts' \in [Requests -> Receipt \cup {NoReceipt}]
    BY <1>2, <1>3, <1>4 DEF IInv, TypeOK
  <2>2. workers[w].digest \in Digests /\ x \in Responses
    BY <1>1 DEF Job, Storable, Responses
  <2>3. answers' \in [Requests -> SUBSET (Digests \X Responses)]
    <3>1. {<<workers[w].digest, x>>} \in SUBSET (Digests \X Responses)
      BY <2>2
    <3>2. \A q \in Requests : answers'[q] \in SUBSET (Digests \X Responses)
      BY <3>1, <1>7 DEF IInv, TypeOK
    <3>3. answers' = [q \in Requests |-> answers'[q]]
      BY <1>2 DEF IInv, TypeOK
    <3>4. QED
      BY <3>2, <3>3
  <2>4. QED
    BY <1>2, <2>1, <2>3 DEF IInv, TypeOK
<1>9. InFlightRecorded'
  <2> SUFFICES ASSUME NEW v \in Workers, workers'[v] # Idle
               PROVE  /\ Pending(workers[v].id)'
                      /\ request_receipts'[workers'[v].id].digest = workers'[v].digest
                      /\ executions'[workers'[v].id] =
                           IF workers'[v].stage = "admitted" THEN 0 ELSE 1
    BY DEF InFlightRecorded
  <2>1. v # w /\ workers'[v] = workers[v] /\ workers[v].id \in Requests \ {r}
    BY <1>5 DEF IInv, TypeOK, InFlightAlone, Job, Finish, Applied
  <2>2. QED
    BY <2>1, <1>2, <1>3 DEF IInv, InFlightRecorded, Pending, Present
<1>10. InFlightAlone'
  BY <1>5 DEF IInv, InFlightAlone
<1>11. AbsentUntouched' /\ AtMostOnce'
  BY <1>1, <1>2, <1>3, <1>4
     DEF IInv, AbsentUntouched, AtMostOnce, Present, Pending
<1>12. AnswersAreTheRecord'
  <2> SUFFICES ASSUME NEW q \in Requests, NEW a \in answers'[q]
               PROVE  /\ Completed(q)'
                      /\ a = <<request_receipts'[q].digest, request_receipts'[q].response>>
    BY DEF AnswersAreTheRecord
  <2>1. CASE q = r
    <3>1. request_receipts'[q] # NoReceipt
      BY <1>4, <2>1, NamesAssumption
    <3>2. QED
      BY <1>4, <1>7, <2>1, <3>1 DEF Completed, Present
  <2>2. CASE q # r
    BY <1>3, <1>7, <2>2 DEF IInv, AnswersAreTheRecord, Completed, Present
  <2>3. QED
    BY <2>1, <2>2
<1>13. QED
  BY <1>8, <1>9, <1>10, <1>11, <1>12 DEF IInv

(* A replay gives the recorded answer and changes nothing else.             *)
LEMMA ReplayIInv ==
  ASSUME IInv, NEW w \in Workers, NEW r \in Requests, NEW d \in Digests,
         Replay(w, r, d)
  PROVE  IInv'
<1> DEFINE x == request_receipts[r].response
<1>1. /\ request_receipts[r] \in Receipt
      /\ x \in Responses
      /\ request_receipts[r].digest = d
  BY DEF Replay, Completed, Present, IInv, TypeOK, Receipt, Storable, Responses
<1>2. /\ answers'[r] = answers[r] \cup {<<d, x>>}
      /\ \A q \in Requests \ {r} : answers'[q] = answers[q]
      /\ answers' \in [Requests -> SUBSET (Digests \X Responses)]
      /\ UNCHANGED <<request_receipts, workers, now, executions>>
  BY <1>1 DEF Replay, IInv, TypeOK
<1>3. TypeOK'
  BY <1>2 DEF IInv, TypeOK
<1>4. InFlightRecorded' /\ InFlightAlone' /\ AbsentUntouched' /\ AtMostOnce'
  BY <1>2 DEF IInv, InFlightRecorded, InFlightAlone, AbsentUntouched, AtMostOnce,
              Pending, Present
<1>5. AnswersAreTheRecord'
  BY <1>1, <1>2 DEF Replay, IInv, AnswersAreTheRecord, Completed, Present
<1>6. QED
  BY <1>3, <1>4, <1>5 DEF IInv

(* A failed finish_request and the daemon's death only forget workers.      *)
LEMMA ForgetWorkersIInv ==
  ASSUME IInv,
         \A w \in Workers : workers'[w] \in {workers[w], Idle},
         workers' \in [Workers -> Job \cup {Idle}],
         UNCHANGED <<request_receipts, executions, answers>>,
         now' \in 0..MaxTime
  PROVE  IInv'
<1>1. TypeOK'
  BY DEF IInv, TypeOK
<1>2. InFlightRecorded' /\ InFlightAlone'
  BY DEF IInv, InFlightRecorded, InFlightAlone, Pending, Present
<1>3. AbsentUntouched' /\ AtMostOnce' /\ AnswersAreTheRecord'
  BY DEF IInv, AbsentUntouched, AtMostOnce, AnswersAreTheRecord, Completed, Present
<1>4. QED
  BY <1>1, <1>2, <1>3 DEF IInv

(* Every step keeps the invariant.                                          *)
LEMMA NextIInv == IInv /\ [Next]_vars => IInv'
<1> SUFFICES ASSUME IInv, [Next]_vars PROVE IInv'
  OBVIOUS
<1>1. ASSUME NEW w \in Workers, Dispatch(w) PROVE IInv'
  <2>1. PICK r \in Requests, d \in Digests :
          Admit(w, r, d) \/ Replay(w, r, d) \/ Refuse(w, r, d)
    BY <1>1 DEF Dispatch
  <2>2. CASE Refuse(w, r, d)
    BY <2>2, ForgetWorkersIInv DEF Refuse, vars, IInv, TypeOK
  <2>3. QED
    BY <2>1, <2>2, AdmitIInv, ReplayIInv
<1>2. ASSUME NEW w \in Workers, FinishFails(w) PROVE IInv'
  BY <1>2, ForgetWorkersIInv DEF FinishFails, IInv, TypeOK
<1>3. CASE Crash
  BY <1>3, ForgetWorkersIInv DEF Crash, IInv, TypeOK
<1>4. CASE Tick
  BY <1>4, ForgetWorkersIInv DEF Tick, IInv, TypeOK
<1>5. CASE UNCHANGED vars
  BY <1>5, ForgetWorkersIInv DEF vars, IInv, TypeOK
<1>6. QED
  BY <1>1, <1>2, <1>3, <1>4, <1>5, ApplyIInv, FinishIInv DEF Next

(* The invariant holds in every reachable state.                            *)
THEOREM Invariance == Spec => []IInv
  BY InitIInv, NextIInv, PTL DEF Spec

(* The table, the workers and the histories keep their types: in particular *)
(* finish_request never records a response too long to be replayed.         *)
THEOREM TypeCorrect == Spec => []TypeOK
<1>1. IInv => TypeOK
  BY DEF IInv
<1>2. QED
  BY <1>1, Invariance, PTL

(* The duplicate-dispatch barrier: the mutation of a request id runs at     *)
(* most once while begin_request's row for it exists.                       *)
THEOREM AtMostOnceCorrect == Spec => []AtMostOnce
<1>1. IInv => AtMostOnce
  BY DEF IInv
<1>2. QED
  BY <1>1, Invariance, PTL

(* An id without a row has had no effect and is not being worked on, so     *)
(* request.status answering not_found makes it safe to send.                *)
THEOREM NothingRunsUnrecordedCorrect == Spec => []NothingRunsUnrecorded
<1>1. IInv => NothingRunsUnrecorded
  BY DEF IInv, NothingRunsUnrecorded, AbsentUntouched, InFlightRecorded, Pending
<1>2. QED
  BY <1>1, Invariance, PTL

(* Every definite answer to an id is the one response recorded for it.      *)
THEOREM AnswersCorrect == Spec => []AnswersAreTheRecord
<1>1. IInv => AnswersAreTheRecord
  BY DEF IInv
<1>2. QED
  BY <1>1, Invariance, PTL

-----------------------------------------------------------------------------
(* The only rows a step removes are the completed ones past the retention,  *)
(* and the only row it changes is pending and gains its response.           *)
LEMMA NextKeepsReceipts ==
  ASSUME IInv, [Next]_vars
  PROVE  \A r \in Requests :
           /\ Pending(r) => Present(r)'
                            /\ request_receipts'[r].digest = request_receipts[r].digest
           /\ Completed(r) /\ request_receipts[r].created >= now - Retention
                => request_receipts'[r] = request_receipts[r]
<1> DEFINE Kept(r) ==
      /\ Pending(r) => Present(r)'
                       /\ request_receipts'[r].digest = request_receipts[r].digest
      /\ Completed(r) /\ request_receipts[r].created >= now - Retention
           => request_receipts'[r] = request_receipts[r]
<1> SUFFICES ASSUME NEW q \in Requests PROVE Kept(q)
  OBVIOUS
<1>1. CASE UNCHANGED request_receipts
  BY <1>1 DEF Pending, Completed, Present
<1>2. ASSUME NEW w \in Workers, NEW r \in Requests, NEW d \in Digests,
             Admit(w, r, d)
      PROVE  Kept(q)
  <2>1. CASE Present(q) /\ q \notin Expired
    <3>1. q # r
      BY <2>1, <1>2 DEF Admit
    <3>2. request_receipts'[q] = request_receipts[q]
      BY <2>1, <3>1, <1>2 DEF Admit
    <3>3. QED
      BY <2>1, <3>2 DEF Pending, Completed, Present
  <2>2. CASE q \in Expired
    <3>1. /\ request_receipts[q] \in Receipt
          /\ request_receipts[q].created < now - Retention
      BY <2>2 DEF Expired, Completed, Present, IInv, TypeOK
    <3>2. request_receipts[q].created \in Int /\ now \in Int /\ Retention \in Int
      BY <3>1 DEF Receipt, IInv, TypeOK
    <3>3. QED
      BY <2>2, <3>1, <3>2 DEF Expired, Completed, Pending
  <2>3. CASE ~Present(q)
    BY <2>3 DEF Pending, Completed
  <2>4. QED
    BY <2>1, <2>2, <2>3
<1>3. ASSUME NEW w \in Workers, Finish(w) PROVE Kept(q)
  <2> DEFINE r == workers[w].id
  <2>1. r \in Requests /\ Pending(r) /\ request_receipts[r] \in Receipt
    BY <1>3 DEF Finish, Applied, IInv, TypeOK, InFlightRecorded, Job, Pending, Present
  <2>2. request_receipts' =
          [request_receipts EXCEPT ![r].response = workers[w].response]
    BY <1>3, <2>1 DEF Finish
  <2>3. CASE q = r
    <3>1. request_receipts'[r] =
            [request_receipts[r] EXCEPT !.response = workers[w].response]
      BY <2>1, <2>2 DEF IInv, TypeOK
    <3>2. /\ workers[w].response \in Storable
          /\ request_receipts'[r] \in Receipt
          /\ request_receipts'[r].digest = request_receipts[r].digest
      BY <2>1, <3>1, <1>3 DEF Finish, Receipt
    <3>3. QED
      BY <2>1, <2>3, <3>2 DEF Pending, Completed, Present
  <2>4. CASE q # r
    BY <2>2, <2>4 DEF IInv, TypeOK, Pending, Completed, Present
  <2>5. QED
    BY <2>3, <2>4
<1>4. QED
  BY <1>1, <1>2, <1>3
     DEF Next, Dispatch, Replay, Refuse, Apply, FinishFails, Crash, Tick, vars

(* "Pending receipts are never evicted", and a completed one keeps its      *)
(* answer for the retention.                                                *)
THEOREM KeptCorrect == Spec => ReceiptsAreKept
<1>1. IInv /\ [Next]_vars =>
        [\A r \in Requests :
           /\ Pending(r) => Present(r)'
                            /\ request_receipts'[r].digest = request_receipts[r].digest
           /\ Completed(r) /\ request_receipts[r].created >= now - Retention
                => request_receipts'[r] = request_receipts[r]]_vars
  BY NextKeepsReceipts
<1>2. QED
  BY <1>1, Invariance, PTL DEF Spec, ReceiptsAreKept

-----------------------------------------------------------------------------
(* The three steps that are not stutters for a client                       *)

(* What the ledger shows of an id, before and after a step.                 *)
LEMMA LedgerShows ==
  /\ Ledger = [q \in Requests |-> Ledger[q]]
  /\ Ledger' = [q \in Requests |-> Ledger'[q]]
  /\ \A q \in Requests :
       /\ Pending(q) => Ledger[q] = Once!Admitted(request_receipts[q].digest)
       /\ Completed(q) => Ledger[q] = Once!Completed(request_receipts[q].digest,
                                                    request_receipts[q].response)
       /\ ~Present(q) => Ledger[q] = Once!Absent
       /\ Pending(q)' => Ledger'[q] = Once!Admitted(request_receipts'[q].digest)
       /\ Completed(q)' => Ledger'[q] = Once!Completed(request_receipts'[q].digest,
                                                      request_receipts'[q].response)
       /\ ~Present(q)' => Ledger'[q] = Once!Absent
       /\ request_receipts'[q] = request_receipts[q] => Ledger'[q] = Ledger[q]
<1>1. \A q \in Requests : Ledger[q] = Entry(q) /\ Ledger'[q] = Entry(q)'
  BY DEF Ledger
<1>2. /\ Ledger = [q \in Requests |-> Ledger[q]]
      /\ Ledger' = [q \in Requests |-> Ledger'[q]]
  BY <1>1 DEF Ledger
<1>3. ASSUME NEW q \in Requests
      PROVE  /\ Pending(q) => Entry(q) = Once!Admitted(request_receipts[q].digest)
             /\ Completed(q) => Entry(q) = Once!Completed(request_receipts[q].digest,
                                                         request_receipts[q].response)
             /\ ~Present(q) => Entry(q) = Once!Absent
  BY DEF Entry, Once!Admitted, Once!Completed, Once!Absent, Pending, Completed, Present
<1>4. ASSUME NEW q \in Requests
      PROVE  /\ Pending(q)' => Entry(q)' = Once!Admitted(request_receipts'[q].digest)
             /\ Completed(q)' => Entry(q)' = Once!Completed(request_receipts'[q].digest,
                                                           request_receipts'[q].response)
             /\ ~Present(q)' => Entry(q)' = Once!Absent
  BY DEF Entry, Once!Admitted, Once!Completed, Once!Absent, Pending, Completed, Present
<1>5. ASSUME NEW q \in Requests, request_receipts'[q] = request_receipts[q]
      PROVE  Entry(q)' = Entry(q)
  BY <1>5 DEF Entry, Pending, Completed, Present
<1>6. QED
  BY <1>1, <1>2, <1>3, <1>4, <1>5

(* begin_request answering New enters the id, and the expired ids leave.    *)
LEMMA AdmitEnters ==
  ASSUME IInv, NEW w \in Workers, NEW r \in Requests, NEW d \in Digests,
         Admit(w, r, d)
  PROVE  Once!Enter(r, d, Expired)
<1>1. Ledger[r] = Once!Absent
  BY LedgerShows DEF Admit
<1>2. \A e \in Expired : Ledger[e].state = "completed"
  BY LedgerShows DEF Expired, Once!Completed
<1>3. request_receipts'[r] = [digest |-> d, response |-> NoResponse, created |-> now]
  BY DEF Admit
<1>4. request_receipts'[r] # NoReceipt
  BY <1>3 DEF IInv, TypeOK, Receipt
<1>5. Ledger'[r] = Once!Admitted(d)
  BY <1>3, <1>4, LedgerShows DEF Pending, Present
<1>6. \A q \in Expired \ {r} : Ledger'[q] = Once!Absent
  BY LedgerShows DEF Admit, Expired, Present
<1>7. \A q \in Requests \ (Expired \cup {r}) : Ledger'[q] = Ledger[q]
  BY LedgerShows DEF Admit
<1>8. Ledger' = [q \in Requests |-> IF q = r THEN Once!Admitted(d)
                                    ELSE IF q \in Expired THEN Once!Absent
                                    ELSE Ledger[q]]
  BY <1>5, <1>6, <1>7, LedgerShows
<1>9. QED
  BY <1>1, <1>2, <1>8 DEF Admit, Once!Enter

(* The mutation is the effect of an admitted id.                            *)
LEMMA ApplyTakesEffect ==
  ASSUME IInv, NEW w \in Workers, Apply(w)
  PROVE  workers[w].id \in Requests /\ Once!TakeEffect(workers[w].id)
<1> DEFINE r == workers[w].id
<1>1. /\ r \in Requests
      /\ Pending(r)
      /\ executions[r] = 0
      /\ executions' = [executions EXCEPT ![r] = @ + 1]
      /\ UNCHANGED request_receipts
  BY DEF Apply, IInv, TypeOK, InFlightRecorded, Job
<1>2. UNCHANGED Ledger
  BY <1>1, LedgerShows
<1>3. executions' = [executions EXCEPT ![r] = 1]
  BY <1>1 DEF IInv, TypeOK
<1>4. Ledger[r].state = "admitted"
  BY <1>1, LedgerShows DEF Once!Admitted
<1>5. QED
  BY <1>1, <1>2, <1>3, <1>4 DEF Once!TakeEffect

(* finish_request records the answer of an id whose effect has happened.    *)
LEMMA FinishRecords ==
  ASSUME IInv, NEW w \in Workers, Finish(w)
  PROVE  /\ workers[w].id \in Requests
         /\ workers[w].response \in Responses
         /\ Once!Record(workers[w].id, workers[w].response)
<1> DEFINE r == workers[w].id
           x == workers[w].response
<1>1. /\ r \in Requests
      /\ x \in Storable
      /\ Pending(r)
      /\ request_receipts[r] \in Receipt
      /\ executions[r] = 1
      /\ UNCHANGED executions
  BY DEF Finish, Applied, IInv, TypeOK, InFlightRecorded, Job, Pending, Present
<1>2. request_receipts' = [request_receipts EXCEPT ![r].response = x]
  BY <1>1 DEF Finish
<1>3. /\ request_receipts'[r] = [request_receipts[r] EXCEPT !.response = x]
      /\ \A q \in Requests \ {r} : request_receipts'[q] = request_receipts[q]
  BY <1>1, <1>2 DEF IInv, TypeOK
<1>4. /\ request_receipts'[r] \in Receipt
      /\ request_receipts'[r].response = x
      /\ request_receipts'[r].digest = request_receipts[r].digest
      /\ x # NoResponse
      /\ x \in Responses
  BY <1>1, <1>3 DEF Receipt, Storable, Responses
<1>5. /\ Ledger[r].state = "admitted"
      /\ Ledger[r].digest = request_receipts[r].digest
  BY <1>1, LedgerShows DEF Once!Admitted
<1>6. Ledger'[r] = Once!Completed(Ledger[r].digest, x)
  <2>1. \A q \in Requests : q = r => Completed(q)'
    BY <1>4 DEF Completed, Present
  <2>2. QED
    BY <1>1, <1>4, <1>5, <2>1, LedgerShows
<1>7. Ledger' = [Ledger EXCEPT ![r] = Once!Completed(Ledger[r].digest, x)]
  BY <1>1, <1>3, <1>6, LedgerShows
<1>8. QED
  BY <1>1, <1>4, <1>5, <1>7 DEF Once!Record

(* The receipts implement OnceOnly: what a client can tell apart happens    *)
(* in the order the ledger allows, whatever workers, crashes, retries and   *)
(* expiry do.                                                               *)
THEOREM Refinement == Spec => ImplementsOnceOnly
<1>1. Init => Once!Init
  BY LedgerShows DEF Init, Once!Init, Present
<1>2. IInv /\ [Next]_vars => [Once!Next]_<<Ledger, executions>>
  <2> SUFFICES ASSUME IInv, [Next]_vars
               PROVE  Once!Next \/ UNCHANGED <<Ledger, executions>>
    OBVIOUS
  <2>1. CASE UNCHANGED <<request_receipts, executions>>
    BY <2>1, LedgerShows
  <2>2. ASSUME NEW w \in Workers, NEW r \in Requests, NEW d \in Digests,
               Admit(w, r, d)
        PROVE  Once!Next
    <3>1. Expired \in SUBSET Requests
      BY DEF Expired
    <3>2. QED
      BY <3>1, <2>2, AdmitEnters DEF Once!Next
  <2>3. ASSUME NEW w \in Workers, Apply(w) PROVE Once!Next
    BY <2>3, ApplyTakesEffect DEF Once!Next
  <2>4. ASSUME NEW w \in Workers, Finish(w) PROVE Once!Next
    BY <2>4, FinishRecords DEF Once!Next
  <2>5. QED
    BY <2>1, <2>2, <2>3, <2>4
       DEF Next, Dispatch, Replay, Refuse, FinishFails, Crash, Tick, vars
<1>3. QED
  BY <1>1, <1>2, Invariance, PTL DEF Spec, ImplementsOnceOnly, Once!Spec

-----------------------------------------------------------------------------
(* The capacity.  Bytes is a sum over a set; it is proved to be the number   *)
(* of pairs in Units, and sets of pairs can be compared by inclusion.        *)

(* One pair for every unit that a charge of at most m puts on a member of s. *)
Units(c, s, m) == {u \in s \X (1..m) : u[2] <= c[u[1]]}

\* What MapThenSumSet takes next from a set.
Pick(s) == CHOOSE x \in s : TRUE

\* A function that sums c over the subsets of S, one member after the other.
Sums(sum, c, S) ==
  sum = [s \in SUBSET S |-> IF s = {} THEN 0 ELSE c[Pick(s)] + sum[s \ {Pick(s)}]]

(* The units of a set with one member more.                                  *)
LEMMA UnitsOfOneMore ==
  ASSUME NEW s, IsFiniteSet(s), NEW m \in Nat, NEW x \in s, NEW c,
         \A y \in s : c[y] \in 0..m
  PROVE  /\ IsFiniteSet(Units(c, s, m))
         /\ Cardinality(Units(c, s, m)) \in Nat
         /\ Cardinality(Units(c, s, m)) = c[x] + Cardinality(Units(c, s \ {x}, m))
<1> DEFINE rest == Units(c, s \ {x}, m)
           mine == {x} \X (1..c[x])
<1>1. IsFiniteSet(s \X (1..m))
  <2>1. 0 \in Int /\ 1 \in Int /\ m \in Int
    OBVIOUS
  <2>2. IsFiniteSet(1..m)
    BY <2>1, FS_Interval
  <2>3. QED
    BY <2>2, FS_Product
<1>2. Units(c, s, m) \in SUBSET (s \X (1..m)) /\ rest \in SUBSET (s \X (1..m))
  BY DEF Units
<1>3. /\ IsFiniteSet(Units(c, s, m)) /\ IsFiniteSet(rest)
      /\ Cardinality(Units(c, s, m)) \in Nat /\ Cardinality(rest) \in Nat
  BY <1>1, <1>2, FS_Subset, FS_CardinalityType
<1>4. IsFiniteSet(mine) /\ Cardinality(mine) = c[x]
  <2>1. c[x] \in 0..m
    OBVIOUS
  <2> DEFINE n == c[x]
  <2> HIDE DEF n
  <2>6. n \in 0..m
    BY <2>1 DEF n
  <2>7. n \in Nat
    BY <2>6
  <2>2. IsFiniteSet(1..n) /\ Cardinality(1..n) = n
    BY <2>7, FS_Interval
  <2>3. IsFiniteSet({x}) /\ Cardinality({x}) = 1
    BY FS_Singleton
  <2>4. IsFiniteSet({x} \X (1..n)) /\ Cardinality({x} \X (1..n)) = 1 * n
    <3>1. /\ IsFiniteSet({x} \X (1..n))
          /\ Cardinality({x} \X (1..n)) = Cardinality({x}) * Cardinality(1..n)
      BY <2>2, <2>3, FS_Product
    <3>2. QED
      BY <2>2, <2>3, <3>1
  <2>5. QED
    BY <2>4, <2>7 DEF n
<1>5. Units(c, s, m) = rest \cup mine
  BY DEF Units
<1>6. rest \cap mine = {}
  BY DEF Units
<1>7. Cardinality(rest \cap mine) = 0
  BY <1>6, FS_EmptySet
<1> HIDE DEF rest, mine
<1>8. Cardinality(rest \cup mine) = Cardinality(rest) + Cardinality(mine) - 0
  BY <1>3, <1>4, <1>7, FS_Union
<1>9. QED
  BY <1>3, <1>4, <1>5, <1>8 DEF rest

(* A sum that takes one member after the other counts the units: this is     *)
(* the only function that MapThenSumSet can choose.                          *)
LEMMA SumCountsUnits ==
  ASSUME NEW S, IsFiniteSet(S), NEW m \in Nat, NEW c,
         \A y \in S : c[y] \in 0..m,
         NEW sum, Sums(sum, c, S)
  PROVE  sum[S] = Cardinality(Units(c, S, m))
<1> DEFINE count(s) == Cardinality(Units(c, s, m))
           Bad == {s \in SUBSET S : sum[s] # count(s)}
           R == StrictSubsetOrdering(S)
<1>1. IsWellFoundedOn(R, SUBSET S)
  BY FS_StrictSubsetOrderingWellFounded, FS_FiniteSubsetsOfFinite
<1>2. Bad \subseteq SUBSET S
  OBVIOUS
<1>3. SUFFICES ASSUME Bad # {} PROVE FALSE
  OBVIOUS
<1>4. PICK s \in Bad : \A t \in Bad : ~(<<t, s>> \in R)
  <2> HIDE DEF Bad, R
  <2>1. QED
    BY <1>1, <1>2, <1>3, WFMin
<1>5. s \in SUBSET S /\ IsFiniteSet(s)
  BY FS_Subset
<1>6. CASE s = {}
  <2>1. Units(c, s, m) = {}
    BY <1>6 DEF Units
  <2>2. count(s) = 0
    BY <2>1, FS_EmptySet
  <2>3. sum[s] = 0
    BY <1>5, <1>6 DEF Sums
  <2>4. QED
    BY <2>2, <2>3
<1>7. CASE s # {}
  <2>1. Pick(s) \in s
    BY <1>7 DEF Pick
  <2> DEFINE t == s \ {Pick(s)}
  <2>2. t \in SUBSET S /\ <<t, s>> \in R
    BY <1>5, <2>1 DEF StrictSubsetOrdering
  <2>3. sum[t] = count(t)
    BY <1>4, <2>2
  <2>4. sum[s] = c[Pick(s)] + sum[t]
    BY <1>5, <1>7 DEF Sums
  <2>5. count(s) = c[Pick(s)] + count(t)
    BY <1>5, <2>1, UnitsOfOneMore
  <2>6. QED
    BY <2>3, <2>4, <2>5
<1>8. QED
  BY <1>6, <1>7

(* There is such a function.                                                 *)
LEMMA UnitsAreASum ==
  ASSUME NEW S, IsFiniteSet(S), NEW m \in Nat, NEW c,
         \A y \in S : c[y] \in 0..m
  PROVE  \E sum : Sums(sum, c, S)
<1> DEFINE count == [s \in SUBSET S |-> Cardinality(Units(c, s, m))]
<1>1. ASSUME NEW s \in SUBSET S
      PROVE  count[s] = IF s = {} THEN 0 ELSE c[Pick(s)] + count[s \ {Pick(s)}]
  <2>1. CASE s = {}
    <3>1. Units(c, s, m) = {}
      BY <2>1 DEF Units
    <3>2. QED
      BY <2>1, <3>1, FS_EmptySet
  <2>2. CASE s # {}
    <3>1. Pick(s) \in s
      BY <2>2 DEF Pick
    <3>2. IsFiniteSet(s)
      BY FS_Subset
    <3>3. QED
      BY <2>2, <3>1, <3>2, UnitsOfOneMore
  <2>3. QED
    BY <2>1, <2>2
<1>2. Sums(count, c, S)
  BY <1>1 DEF Sums
<1>3. QED
  BY <1>2

Charges == [r \in Requests |-> Charge(r)]

(* The bytes that the table holds are the units of its rows.                 *)
LEMMA BytesCountUnits ==
  ASSUME NEW ids \in SUBSET Requests, \A r \in Requests : Charge(r) \in 0..Reserve
  PROVE  Bytes(ids) = Cardinality(Units(Charges, ids, Reserve))
<1> DEFINE Adds(sum) == sum = [s \in SUBSET ids |->
             IF s = {} THEN 0 ELSE Charge(Pick(s)) + sum[s \ {Pick(s)}]]
           chosen == CHOOSE sum : Adds(sum)
<1>1. \A s \in SUBSET ids : s # {} => Charge(Pick(s)) = Charges[Pick(s)]
  BY DEF Pick, Charges
<1>2. ASSUME NEW sum PROVE Adds(sum) <=> Sums(sum, Charges, ids)
  BY <1>1 DEF Sums
<1>3. IsFiniteSet(ids) /\ Reserve \in Nat
  BY FS_Subset
<1>4. \A r \in ids : Charges[r] \in 0..Reserve
  BY DEF Charges
<1>5. \E sum : Sums(sum, Charges, ids)
  BY <1>3, <1>4, UnitsAreASum
<1>6. \E sum : Adds(sum)
  BY <1>2, <1>5
<1>7. Adds(chosen)
  <2> HIDE DEF Adds
  <2>1. QED
    BY <1>6
<1>8. Sums(chosen, Charges, ids)
  <2> HIDE DEF chosen, Adds
  <2>1. QED
    BY <1>2, <1>7
<1>9. chosen[ids] = Cardinality(Units(Charges, ids, Reserve))
  <2> HIDE DEF chosen
  <2>1. QED
    BY <1>3, <1>4, <1>8, SumCountsUnits
<1>10. Bytes(ids) = chosen[ids]
  BY DEF Bytes, MapThenSumSet, MapThenFoldSet, Pick
<1>11. QED
  BY <1>9, <1>10

\* The units that the rows of some ids hold.
Held(ids) == Units(Charges, ids, Reserve)

(* No row is charged more than a pending one.                                *)
LEMMA ChargeBounds ==
  TypeOK => \A r \in Requests : Charge(r) \in 0..Reserve
<1> SUFFICES ASSUME TypeOK, NEW r \in Requests PROVE Charge(r) \in 0..Reserve
  OBVIOUS
<1>1. CASE Completed(r)
  <2>1. request_receipts[r] \in Receipt
    BY <1>1 DEF Completed, Present, TypeOK
  <2>2. request_receipts[r].response \in 1..Reserve - 1
    BY <1>1, <2>1 DEF Completed, Receipt, Storable
  <2>3. Charge(r) = request_receipts[r].response
    BY <1>1 DEF Charge, Completed, Pending
  <2>4. QED
    BY <2>2, <2>3
<1>2. CASE Pending(r)
  <2>1. Charge(r) = Reserve
    BY <1>2 DEF Charge, Pending, Completed
  <2>2. Reserve \in 0..Reserve
    OBVIOUS
  <2>3. QED
    BY <2>1, <2>2
<1>3. CASE ~Pending(r) /\ ~Completed(r)
  BY <1>3 DEF Charge
<1>4. QED
  BY <1>1, <1>2, <1>3

(* The capacity in units, for the whole table and for what an admission      *)
(* leaves of it.                                                             *)
LEMMA CapacityInUnits ==
  TypeOK =>
    /\ Bytes(Requests) = Cardinality(Held(Requests))
    /\ Bytes(Requests \ Expired) = Cardinality(Held(Requests \ Expired))
<1>1. Requests \in SUBSET Requests /\ Requests \ Expired \in SUBSET Requests
  OBVIOUS
<1>2. QED
  BY <1>1, ChargeBounds, BytesCountUnits DEF Held

(* The rows and the units of some ids are finite sets.                       *)
LEMMA HeldIsFinite ==
  ASSUME NEW ids \in SUBSET Requests
  PROVE  /\ IsFiniteSet(Held(ids)) /\ Cardinality(Held(ids)) \in Nat
         /\ IsFiniteSet({r \in ids : Present(r)}) /\ Rows(ids) \in Nat
<1>1. IsFiniteSet(1..Reserve)
  BY FS_Interval
<1>2. IsFiniteSet(ids)
  BY FS_Subset
<1>3. IsFiniteSet(ids \X (1..Reserve))
  BY <1>1, <1>2, FS_Product
<1>4. Held(ids) \in SUBSET (ids \X (1..Reserve))
  BY DEF Held, Units
<1>5. {r \in ids : Present(r)} \in SUBSET ids
  OBVIOUS
<1>6. QED
  BY <1>2, <1>3, <1>4, <1>5, FS_Subset, FS_CardinalityType DEF Rows

(* begin_request answering New: the reserve that it asked for is the charge  *)
(* of the row that it inserts.                                               *)
LEMMA AdmitWithinCapacity ==
  ASSUME IInv, IInv', NEW w \in Workers, NEW r \in Requests, NEW d \in Digests,
         Admit(w, r, d)
  PROVE  WithinCapacity'
<1> DEFINE kept == Requests \ Expired
           mine == {r} \X (1..Reserve)
           rows == {q \in kept : Present(q)}
<1>1. /\ request_receipts'[r] = [digest |-> d, response |-> NoResponse, created |-> now]
      /\ \A q \in Expired \ {r} : request_receipts'[q] = NoReceipt
      /\ \A q \in kept \ {r} : request_receipts'[q] = request_receipts[q]
  BY DEF Admit, Expired
<1>2. /\ Pending(r)'
      /\ \A q \in Expired \ {r} : ~Present(q)'
      /\ \A q \in kept \ {r} : Present(q)' <=> Present(q)
  BY <1>1 DEF Pending, Present, IInv, TypeOK, Receipt
<1>3. \A q \in Requests \ {r} : Charge(q)' = IF q \in kept THEN Charge(q) ELSE 0
  BY <1>1, <1>2 DEF Charge, Pending, Completed, Present
<1>4. Held(Requests)' \subseteq Held(kept) \cup mine
  <2> SUFFICES ASSUME NEW q \in Requests, NEW i \in 1..Reserve, i <= Charges'[q], q # r
               PROVE  <<q, i>> \in Held(kept)
    BY DEF Held, Units
  <2>1. i <= Charge(q)'
    BY DEF Charges
  <2>2. i <= IF q \in kept THEN Charge(q) ELSE 0
    BY <1>3, <2>1
  <2>3. q \in kept /\ i <= Charges[q]
    BY <2>2 DEF Charges
  <2>4. QED
    BY <2>3 DEF Held, Units
<1>5. {q \in Requests : Present(q)'} \subseteq rows \cup {r}
  BY <1>2
<1>6. IsFiniteSet(mine) /\ Cardinality(mine) = Reserve
  <2>1. IsFiniteSet(1..Reserve) /\ Cardinality(1..Reserve) = Reserve
    BY FS_Interval
  <2>2. IsFiniteSet({r}) /\ Cardinality({r}) = 1
    BY FS_Singleton
  <2>3. IsFiniteSet(mine) /\ Cardinality(mine) = 1 * Reserve
    BY <2>1, <2>2, FS_Product
  <2>4. QED
    BY <2>3
<1>7. /\ IsFiniteSet(Held(kept)) /\ Cardinality(Held(kept)) \in Nat
      /\ IsFiniteSet(rows) /\ Cardinality(rows) \in Nat
      /\ Rows(kept) = Cardinality(rows)
  BY HeldIsFinite DEF Rows
<1>8. Cardinality(rows) < MaxRows /\ Cardinality(Held(kept)) + Reserve <= MaxBytes
  BY <1>7, CapacityInUnits DEF IInv, Admit, HasRoom
<1>9. Cardinality(Held(Requests)') \in Nat
      /\ Cardinality(Held(Requests)') <= Cardinality(Held(kept)) + Reserve
  <2> DEFINE both == Held(kept) \cup mine
  <2>1. IsFiniteSet(both) /\ Cardinality(both)
          = Cardinality(Held(kept)) + Cardinality(mine) - Cardinality(Held(kept) \cap mine)
    BY <1>6, <1>7, FS_Union
  <2>2. Cardinality(Held(kept) \cap mine) \in Nat
    BY <1>7, FS_Intersection, FS_CardinalityType
  <2>3. Cardinality(Held(Requests)') <= Cardinality(both)
    BY <1>4, <2>1, FS_Subset
  <2>4. Cardinality(Held(Requests)') \in Nat
    BY <1>4, <2>1, FS_Subset, FS_CardinalityType
  <2>5. QED
    BY <1>6, <1>7, <2>1, <2>2, <2>3, <2>4
<1>10. Rows(Requests)' \in Nat /\ Rows(Requests)' <= Cardinality(rows) + 1
  <2> HIDE DEF rows
  <2>0. IsFiniteSet(rows \cup {r}) /\ Cardinality(rows \cup {r})
           = IF r \in rows THEN Cardinality(rows) ELSE Cardinality(rows) + 1
    BY <1>7, FS_AddElement
  <2>1. IsFiniteSet(rows \cup {r}) /\ Cardinality(rows \cup {r}) <= Cardinality(rows) + 1
    BY <1>7, <2>0
  <2>2. IsFiniteSet({q \in Requests : Present(q)'})
        /\ Cardinality({q \in Requests : Present(q)'}) <= Cardinality(rows \cup {r})
    BY <1>5, <2>1, FS_Subset
  <2>3. Cardinality({q \in Requests : Present(q)'}) \in Nat
        /\ Cardinality(rows \cup {r}) \in Nat
    BY <2>1, <2>2, FS_CardinalityType
  <2>4. QED
    BY <1>7, <2>1, <2>2, <2>3 DEF Rows
<1>11. /\ Cardinality(Held(Requests)') <= MaxBytes /\ Rows(Requests)' <= MaxRows
  BY <1>7, <1>8, <1>9, <1>10
<1>12. (Bytes(Requests) = Cardinality(Held(Requests)))'
  <2>1. (TypeOK => Bytes(Requests) = Cardinality(Held(Requests)))'
    BY CapacityInUnits, PTL
  <2>2. QED
    BY <2>1 DEF IInv
<1>13. QED
  BY <1>11, <1>12 DEF WithinCapacity

(* A step that removes no row, raises no charge and adds none of either.     *)
LEMMA QuietWithinCapacity ==
  ASSUME TypeOK, TypeOK', WithinCapacity,
         \A q \in Requests : Present(q)' => Present(q),
         \A q \in Requests : Charge(q)' <= Charge(q)
  PROVE  WithinCapacity'
<1> DEFINE before == {q \in Requests : Present(q)}
           after  == {q \in Requests : Present(q)'}
<1>1. after \subseteq before
  OBVIOUS
<1>2. Held(Requests)' \subseteq Held(Requests)
  <2> SUFFICES ASSUME NEW q \in Requests, NEW i \in 1..Reserve, i <= Charges'[q]
               PROVE  <<q, i>> \in Held(Requests)
    BY DEF Held, Units
  <2>1. i <= Charge(q)' /\ Charge(q)' <= Charge(q)
    BY DEF Charges
  <2>2. Charge(q) \in Nat /\ Charge(q)' \in Nat
    <3>1. (TypeOK => \A r \in Requests : Charge(r) \in 0..Reserve)'
      BY ChargeBounds, PTL
    <3>2. Charge(q) \in 0..Reserve /\ Charge(q)' \in 0..Reserve
      BY <3>1, ChargeBounds
    <3>3. QED
      BY <3>2
  <2>3. i <= Charges[q]
    BY <2>1, <2>2 DEF Charges
  <2>4. QED
    BY <2>3 DEF Held, Units
<1>3. /\ IsFiniteSet(Held(Requests)) /\ IsFiniteSet(before)
      /\ Cardinality(Held(Requests)) \in Nat /\ Cardinality(before) \in Nat
  BY HeldIsFinite DEF Rows
<1>4. /\ Cardinality(Held(Requests)') \in Nat /\ Cardinality(after) \in Nat
      /\ Cardinality(Held(Requests)') <= Cardinality(Held(Requests))
      /\ Cardinality(after) <= Cardinality(before)
  BY <1>1, <1>2, <1>3, FS_Subset, FS_CardinalityType
<1>5. Bytes(Requests)' = Cardinality(Held(Requests)')
  <2>1. (TypeOK => Bytes(Requests) = Cardinality(Held(Requests)))'
    BY CapacityInUnits, PTL
  <2>2. QED
    BY <2>1
<1>6. Cardinality(before) <= MaxRows /\ Cardinality(Held(Requests)) <= MaxBytes
  BY CapacityInUnits DEF WithinCapacity, Rows
<1>7. Cardinality(after) <= MaxRows /\ Cardinality(Held(Requests)') <= MaxBytes
  <2> HIDE DEF after, before
  <2>1. QED
    BY <1>3, <1>4, <1>6
<1>8. QED
  BY <1>5, <1>7 DEF WithinCapacity, Rows

(* Every step keeps the table within what admission reserved.               *)
LEMMA NextWithinCapacity ==
  ASSUME IInv, IInv', WithinCapacity, [Next]_vars
  PROVE  WithinCapacity'
<1>1. TypeOK /\ TypeOK'
  BY DEF IInv
<1>2. CASE UNCHANGED request_receipts
  <2>1. \A q \in Requests : Present(q)' <=> Present(q)
    BY <1>2 DEF Present
  <2>2. \A q \in Requests : Charge(q)' = Charge(q)
    BY <1>2 DEF Charge, Pending, Completed, Present
  <2>3. \A q \in Requests : Charge(q)' <= Charge(q)
    BY <1>1, <2>2, ChargeBounds
  <2>4. QED
    BY <1>1, <2>1, <2>3, QuietWithinCapacity
<1>3. ASSUME NEW w \in Workers, Finish(w) PROVE WithinCapacity'
  <2>0. PICK r \in Requests, x \in Storable : r = workers[w].id /\ x = workers[w].response
    BY <1>3 DEF Finish, Applied, IInv, TypeOK, Job
  <2>1. /\ Pending(r)
        /\ request_receipts[r] \in Receipt
        /\ request_receipts' = [request_receipts EXCEPT ![r].response = x]
    BY <1>3, <2>0 DEF Finish, Applied, IInv, TypeOK, InFlightRecorded, Pending, Present
  <2>2. /\ request_receipts'[r] = [request_receipts[r] EXCEPT !.response = x]
        /\ \A q \in Requests \ {r} : request_receipts'[q] = request_receipts[q]
    BY <2>1 DEF IInv, TypeOK
  <2>3. /\ request_receipts'[r] \in Receipt /\ request_receipts'[r].response = x
        /\ x \in Nat /\ x <= Reserve /\ x # NoResponse
    BY <2>1, <2>2 DEF Receipt, Storable, Responses
  <2>4. Charge(r)' = x /\ Charge(r) = Reserve
    <3>1. Completed(r)' /\ ~Pending(r)' /\ Pending(r) /\ ~Completed(r)
      BY <2>1, <2>3 DEF Completed, Pending, Present, Receipt
    <3>2. Charge(r) = Reserve
      BY <3>1 DEF Charge
    <3>3. Charge(r)' = request_receipts'[r].response
      BY <3>1 DEF Charge
    <3>4. QED
      BY <2>3, <3>2, <3>3
  <2>5. \A q \in Requests \ {r} : Charge(q)' = Charge(q) /\ (Present(q)' <=> Present(q))
    BY <2>2 DEF Charge, Completed, Pending, Present
  <2>6. ASSUME NEW q \in Requests PROVE Charge(q)' <= Charge(q)
    <3>1. Charge(q) \in 0..Reserve
      BY <1>1, ChargeBounds
    <3>2. CASE q = r
      <4>1. Charge(q)' = x /\ Charge(q) = Reserve
        BY <2>4, <3>2
      <4>2. QED
        BY <2>3, <4>1
    <3>3. CASE q # r
      BY <2>5, <3>1, <3>3
    <3>4. QED
      BY <3>2, <3>3
  <2>7. \A q \in Requests : Present(q)' => Present(q)
    BY <2>1, <2>5 DEF Pending
  <2>8. QED
    BY <1>1, <2>6, <2>7, QuietWithinCapacity
<1>4. QED
  BY <1>2, <1>3, AdmitWithinCapacity
     DEF Next, Dispatch, Replay, Refuse, Apply, FinishFails, Crash, Tick, vars

(* The table starts empty.                                                  *)
LEMMA InitWithinCapacity == Init => WithinCapacity
<1> SUFFICES ASSUME Init PROVE WithinCapacity
  OBVIOUS
<1>1. TypeOK
  BY InitIInv DEF IInv
<1>2. \A r \in Requests : ~Present(r) /\ Charge(r) = 0
  BY DEF Init, Present, Charge, Pending, Completed
<1>3. {r \in Requests : Present(r)} = {} /\ Held(Requests) = {}
  BY <1>2 DEF Held, Units, Charges
<1>4. Rows(Requests) = 0 /\ Bytes(Requests) = 0
  BY <1>1, <1>3, CapacityInUnits, FS_EmptySet DEF Rows
<1>5. QED
  BY <1>4 DEF WithinCapacity

(* "Receipt data is bounded to 10,000 rows / 64 MiB", for every capacity:    *)
(* what begin_request reserved for a row covers whatever finish_request      *)
(* stores in it.                                                             *)
THEOREM WithinCapacityCorrect == Spec => []WithinCapacity
<1>1. Init => IInv /\ WithinCapacity
  BY InitIInv, InitWithinCapacity
<1>2. IInv /\ WithinCapacity /\ [Next]_vars => IInv' /\ WithinCapacity'
  BY NextIInv, NextWithinCapacity
<1>3. QED
  BY <1>1, <1>2, PTL DEF Spec
=============================================================================
