----------------------------- MODULE MemoryJobs -----------------------------
(***************************************************************************)
(* The durable background jobs of one phase                                 *)
(* (crates/kitt-memory-sqlite/src/evidence.rs) and the workers outside the  *)
(* daemon that lease them.  Each operation is one section under the writer  *)
(* mutex.  A worker may act on a lease it was granted at any later time, or *)
(* die with it; the daemon's own death leaves the table as it is.           *)
(*                                                                          *)
(* Time is relative: lease and wait are what is left of lease_until and     *)
(* next_retry_at, and Tick is one unit of the clock.  The order of claims,  *)
(* (created_at, id), is kept as the set of the jobs ahead of each; where a  *)
(* new job comes in it is open, because created_at is read before the wait  *)
(* for the mutex and ids are random.  attempt is left out: it only chooses  *)
(* the default delay of a retry, and a retry here waits for any delay.      *)
(*                                                                          *)
(* Definitions whose comment starts with "Fault:" are deliberate mistakes   *)
(* for the mutants of PROJECT.json.                                         *)
(***************************************************************************)
EXTENDS Naturals

CONSTANTS
  Jobs,         \* identities (source_id, source_revision, input_digest)
  Owners,       \* names that workers claim under
  NoJob, Nobody,
  MaxLease,     \* longest lease (3600 s)
  MaxDelay,     \* longest delay of a retry (3600 s)
  OwnersReused  \* a name may claim a job that it still holds a grant of

ASSUME TimesAssumption == MaxLease \in Nat \ {0} /\ MaxDelay \in Nat \ {0}
ASSUME ReuseAssumption == OwnersReused \in BOOLEAN

Terminal == {"SUCCEEDED", "FAILED"}
Statuses == {"PENDING", "RUNNING", "RETRY"} \cup Terminal

Row   == [status: Statuses, owner: Owners \cup {Nobody},
          lease: 0..MaxLease, wait: 0..MaxDelay]
Grant == [job: Jobs, owner: Owners, left: 0..MaxLease, current: BOOLEAN]

ASSUME NamesAssumption == NoJob \notin Row /\ Nobody \notin Owners

VARIABLES
  jobs,   \* the table
  ahead,  \* job -> the stored jobs before it in (created_at, id)
  held    \* the grants workers may still act on; current is history: no
          \* later claim of the job happened

vars == <<jobs, ahead, held>>

Init ==
  /\ jobs = [j \in Jobs |-> NoJob]
  /\ ahead = [j \in Jobs |-> {}]
  /\ held = {}

Stored(j)  == jobs[j] # NoJob
Settled(j) == Stored(j) /\ jobs[j].status \in Terminal

Decreased(n) == IF n = 0 THEN 0 ELSE n - 1

-----------------------------------------------------------------------------
(* enqueue_memory_job                                                       *)

NewRow == [status |-> "PENDING", owner |-> Nobody, lease |-> 0, wait |-> 0]

\* A new identity goes before the jobs that were stored while the call waited,
\* and any of its own second: later is an end of the order.
EnqueueNew(j) ==
  \E later \in SUBSET {k \in Jobs : Stored(k)} :
    /\ ~Stored(j)
    /\ \A k \in later, m \in Jobs : k \in ahead[m] => m \in later
    /\ jobs' = [jobs EXCEPT ![j] = NewRow]
    /\ ahead' = [k \in Jobs |->
                   CASE k = j      -> {m \in Jobs : Stored(m)} \ later
                     [] k \in later -> ahead[k] \cup {j}
                     [] OTHER      -> ahead[k]]
    /\ UNCHANGED held

\* Fault: the conflict clause makes the stored job pending again.
EnqueueReviving(j) ==
  /\ Stored(j)
  /\ jobs' = [jobs EXCEPT ![j] = NewRow]
  /\ UNCHANGED <<ahead, held>>

\* ON CONFLICT DO NOTHING: the stored job is the answer, whatever its status.
EnqueueAgain(j) == Stored(j) /\ UNCHANGED vars

-----------------------------------------------------------------------------
(* claim_memory_job                                                         *)

\* Fault: a running job is ready however long its lease lasts.
ReadyWhileLeased(j) ==
  /\ Stored(j)
  /\ \/ jobs[j].status \in {"PENDING", "RUNNING"}
     \/ jobs[j].status = "RETRY" /\ jobs[j].wait = 0

\* Fault: a lapsed lease does not make a job ready.
ReadyUnlessRunning(j) ==
  /\ Stored(j)
  /\ \/ jobs[j].status = "PENDING"
     \/ jobs[j].status = "RETRY" /\ jobs[j].wait = 0

Ready(j) ==
  /\ Stored(j)
  /\ \/ jobs[j].status = "PENDING"
     \/ jobs[j].status = "RETRY" /\ jobs[j].wait = 0
     \/ jobs[j].status = "RUNNING" /\ jobs[j].lease = 0

First(j) == Ready(j) /\ \A k \in ahead[j] : ~Ready(k)

\* What happens to the earlier grants of a job that is claimed again.
Superseded(j) == {IF t.job = j THEN [t EXCEPT !.current = FALSE] ELSE t : t \in held}

\* The first ready job is leased to owner o for n.  Unless names are reused,
\* o is not a name that still holds a grant of the job.
Claim(o, n) ==
  \E j \in Jobs :
    /\ First(j)
    /\ OwnersReused \/ ~ \E t \in held : t.job = j /\ t.owner = o
    /\ jobs' = [jobs EXCEPT ![j] = [status |-> "RUNNING", owner |-> o,
                                    lease |-> n, wait |-> @.wait]]
    /\ held' = Superseded(j)
                 \cup {[job |-> j, owner |-> o, left |-> n, current |-> TRUE]}
    /\ UNCHANGED ahead

-----------------------------------------------------------------------------
(* complete_memory_job, fail_memory_job, terminal_memory_job_failure by the *)
(* holder of grant t                                                        *)

\* Fault: whoever knows the id may settle the job.
AcceptsAnyOwner(t) == Stored(t.job) /\ jobs[t.job].status = "RUNNING"

\* The condition of the three updates: neither the lease nor the attempt.
Accepts(t) ==
  /\ Stored(t.job)
  /\ jobs[t.job].status = "RUNNING"
  /\ jobs[t.job].owner = t.owner

\* The call answers whether it changed the row; the grant is used up.
Settle(t, status, delay) ==
  /\ t \in held
  /\ held' = held \ {t}
  /\ jobs' = IF Accepts(t)
             THEN [jobs EXCEPT ![t.job] =
                     [status |-> status, owner |-> Nobody, lease |-> 0,
                      wait |-> delay]]
             ELSE jobs
  /\ UNCHANGED ahead

\* Fault: the requested delay is not clamped.
FailUnclamped(t) == \E delay \in 1..(MaxDelay + 1) : Settle(t, "RETRY", delay)

Complete(t)     == Settle(t, "SUCCEEDED", 0)
Fail(t)         == \E delay \in 1..MaxDelay : Settle(t, "RETRY", delay)
FailTerminal(t) == Settle(t, "FAILED", 0)

\* The worker dies or gives up.
Lose(t) ==
  /\ t \in held
  /\ held' = held \ {t}
  /\ UNCHANGED <<jobs, ahead>>

-----------------------------------------------------------------------------
(* Maintenance and time                                                     *)

\* periodic_maintenance deletes a job settled 30 days ago; the days are not
\* counted here.
Prune(j) ==
  /\ Settled(j)
  /\ jobs' = [jobs EXCEPT ![j] = NoJob]
  /\ ahead' = [k \in Jobs |-> IF k = j THEN {} ELSE ahead[k] \ {j}]
  /\ UNCHANGED held

Tick ==
  /\ jobs' = [j \in Jobs |->
                IF Stored(j)
                THEN [jobs[j] EXCEPT !.lease = Decreased(@), !.wait = Decreased(@)]
                ELSE NoJob]
  /\ held' = {[t EXCEPT !.left = Decreased(@)] : t \in held}
  /\ UNCHANGED ahead

Next ==
  \/ \E j \in Jobs : EnqueueNew(j)
  \/ \E j \in Jobs : EnqueueAgain(j)
  \/ \E o \in Owners, n \in 1..MaxLease : Claim(o, n)
  \/ \E t \in held : Complete(t)
  \/ \E t \in held : Fail(t)
  \/ \E t \in held : FailTerminal(t)
  \/ \E t \in held : Lose(t)
  \/ \E j \in Jobs : Prune(j)
  \/ Tick

(* Time passes, some worker keeps polling, and a worker whose lease has     *)
(* lapsed is done with it at some point (so that its name becomes free).    *)
Fairness ==
  /\ WF_vars(Tick)
  /\ WF_vars(\E o \in Owners, n \in 1..MaxLease : Claim(o, n))
  /\ \A j \in Jobs, o \in Owners :
       WF_vars(\E t \in held : t.job = j /\ t.owner = o /\ t.left = 0 /\ Lose(t))

Spec == Init /\ [][Next]_vars /\ Fairness

-----------------------------------------------------------------------------
(* Properties                                                               *)

(* Types; and the claim order is an order of the stored jobs, so that there *)
(* is always a first ready one.                                             *)
TypeOK ==
  /\ jobs \in [Jobs -> Row \cup {NoJob}]
  /\ ahead \in [Jobs -> SUBSET Jobs]
  /\ held \in SUBSET Grant
  /\ \A j, k \in Jobs :
       /\ k \in ahead[j] => Stored(j) /\ Stored(k) /\ j \notin ahead[k]
       /\ Stored(j) /\ Stored(k) /\ j # k => j \in ahead[k] \/ k \in ahead[j]

(* README, "worker-safe claiming": two grants of a job never run at once.   *)
LeaseIsExclusive ==
  \A t, u \in held : t.job = u.job /\ t.left > 0 /\ u.left > 0 => t = u

(* While the lease a worker was granted lasts, the job is still its own:    *)
(* nobody has settled it, released it or taken it over.                     *)
LiveLeaseHolds ==
  \A t \in held : t.left > 0 =>
    Stored(t.job) /\ jobs[t.job].status = "RUNNING" /\ jobs[t.job].owner = t.owner

(* A late answer to a job that was claimed again meanwhile has no effect:   *)
(* a settled or retried job was settled by its latest holder.               *)
LateCallsChangeNothing ==
  [][\A t \in held : ~t.current /\ held' = held \ {t} => jobs' = jobs]_vars

(* "Idempotent durable memory jobs": a settled job keeps its outcome and is *)
(* not run again, whatever is enqueued or answered late, until it is pruned.*)
SettledStays ==
  [][\A j \in Jobs : Settled(j) => ~Stored(j)' \/ jobs'[j] = jobs[j]]_vars

(* A job waiting for a worker, also after the loss of the worker it had, is *)
(* leased again once nothing older waits ahead of it, unless a job with an  *)
(* earlier created_at is stored meanwhile.  (A younger job may starve behind *)
(* an older one that keeps failing: the claim order prefers an old job's    *)
(* hundredth attempt to a young job's first.)                               *)
LostWorkIsRecovered ==
  \A j \in Jobs :
    (Stored(j) /\ \A k \in ahead[j] : Settled(k))
      ~> \/ Settled(j)
         \/ Stored(j) /\ jobs[j].status = "RUNNING" /\ jobs[j].lease > 0
         \/ \E k \in ahead[j] : ~Settled(k)
=============================================================================
