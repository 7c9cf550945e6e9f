-------------------------- MODULE MemoryJobs_proofs --------------------------
(* Proofs about MemoryJobs, for every number of jobs and worker names and   *)
(* every length of leases and retries.                                      *)
EXTENDS MemoryJobs, TLAPS

USE TimesAssumption, NamesAssumption

-----------------------------------------------------------------------------
(* Type correctness, whether names are reused or not                        *)

(* Counting down stays in the range.                                        *)
LEMMA DecreasedType == \A m \in Nat : \A n \in 0..m :
                         /\ Decreased(n) \in 0..m
                         /\ n = 0 => Decreased(n) = 0
  BY DEF Decreased

(* A new job takes a place in the claim order of the stored ones.           *)
LEMMA EnqueueNewType ==
  ASSUME TypeOK, NEW j \in Jobs, EnqueueNew(j)
  PROVE  TypeOK'
<1>1. PICK later \in SUBSET {k \in Jobs : Stored(k)} :
        /\ ~Stored(j)
        /\ jobs' = [jobs EXCEPT ![j] = NewRow]
        /\ ahead' = [k \in Jobs |->
                       CASE k = j      -> {m \in Jobs : Stored(m)} \ later
                         [] k \in later -> ahead[k] \cup {j}
                         [] OTHER      -> ahead[k]]
        /\ UNCHANGED held
  BY DEF EnqueueNew
<1>2. NewRow \in Row
  BY DEF NewRow, Row, Statuses
<1>3. /\ \A k \in Jobs : Stored(k)' <=> Stored(k) \/ k = j
      /\ jobs' \in [Jobs -> Row \cup {NoJob}]
  BY <1>1, <1>2 DEF TypeOK, Stored
<1>4. /\ later \subseteq {k \in Jobs : Stored(k)}
      /\ j \notin later
  BY <1>1
<1>5. /\ ahead'[j] = {m \in Jobs : Stored(m)} \ later
      /\ \A k \in later : ahead'[k] = ahead[k] \cup {j}
      /\ \A k \in Jobs \ (later \cup {j}) : ahead'[k] = ahead[k]
      /\ ahead' = [k \in Jobs |-> ahead'[k]]
  BY <1>1, <1>4
<1>6. ahead' \in [Jobs -> SUBSET Jobs]
  <2>1. \A k \in Jobs : ahead'[k] \in SUBSET Jobs
    BY <1>4, <1>5 DEF TypeOK
  <2>2. QED
    BY <1>5, <2>1
<1>7. \A m, k \in Jobs :
        /\ k \in ahead'[m] => Stored(m)' /\ Stored(k)' /\ m \notin ahead'[k]
        /\ Stored(m)' /\ Stored(k)' /\ m # k => m \in ahead'[k] \/ k \in ahead'[m]
  <2> SUFFICES ASSUME NEW m \in Jobs, NEW k \in Jobs
               PROVE  /\ k \in ahead'[m] => Stored(m)' /\ Stored(k)' /\ m \notin ahead'[k]
                      /\ Stored(m)' /\ Stored(k)' /\ m # k
                           => m \in ahead'[k] \/ k \in ahead'[m]
    OBVIOUS
  <2>1. /\ k \in ahead[m] => Stored(m) /\ Stored(k) /\ m \notin ahead[k]
        /\ m \in ahead[k] => Stored(m) /\ Stored(k) /\ k \notin ahead[m]
        /\ Stored(m) /\ Stored(k) /\ m # k => m \in ahead[k] \/ k \in ahead[m]
    BY DEF TypeOK
  <2>2. CASE m = j /\ k = j
    BY <2>2, <1>1, <1>5
  <2>3. CASE m = j /\ k # j
    <3>1. CASE k \in later
      BY <2>1, <2>3, <3>1, <1>1, <1>3, <1>4, <1>5
    <3>2. CASE k \notin later
      BY <2>1, <2>3, <3>2, <1>1, <1>3, <1>4, <1>5
    <3>3. QED
      BY <3>1, <3>2
  <2>4. CASE m # j /\ k = j
    <3>1. CASE m \in later
      BY <2>1, <2>4, <3>1, <1>1, <1>3, <1>4, <1>5
    <3>2. CASE m \notin later
      BY <2>1, <2>4, <3>2, <1>1, <1>3, <1>4, <1>5
    <3>3. QED
      BY <3>1, <3>2
  <2>5. CASE m # j /\ k # j
    <3>1. /\ k \in ahead'[m] <=> k \in ahead[m]
          /\ m \in ahead'[k] <=> m \in ahead[k]
      BY <2>5, <1>5
    <3>2. QED
      BY <2>1, <2>5, <3>1, <1>3
  <2>6. QED
    BY <2>2, <2>3, <2>4, <2>5
<1>8. QED
  BY <1>1, <1>3, <1>6, <1>7 DEF TypeOK

(* A claim writes a row and a grant of the claimed job.                     *)
LEMMA ClaimType ==
  ASSUME TypeOK, NEW o \in Owners, NEW n \in 1..MaxLease, Claim(o, n)
  PROVE  TypeOK'
<1>1. PICK j \in Jobs :
        /\ First(j)
        /\ jobs' = [jobs EXCEPT ![j] = [status |-> "RUNNING", owner |-> o,
                                        lease |-> n, wait |-> @.wait]]
        /\ held' = Superseded(j)
                     \cup {[job |-> j, owner |-> o, left |-> n, current |-> TRUE]}
        /\ UNCHANGED ahead
  BY DEF Claim
<1>2. jobs[j] \in Row
  BY <1>1 DEF First, Ready, Stored, TypeOK
<1>3. [status |-> "RUNNING", owner |-> o, lease |-> n, wait |-> jobs[j].wait] \in Row
  BY <1>2 DEF Row, Statuses
<1>4. /\ jobs' \in [Jobs -> Row \cup {NoJob}]
      /\ \A k \in Jobs : Stored(k)' <=> Stored(k)
  BY <1>1, <1>2, <1>3 DEF TypeOK, Stored
<1>5. Superseded(j) \in SUBSET Grant
  <2>1. ASSUME NEW t \in held
        PROVE  t \in Grant /\ [t EXCEPT !.current = FALSE] \in Grant
    <3>1. t \in Grant /\ FALSE \in BOOLEAN
      BY DEF TypeOK
    <3>2. QED
      BY <3>1, Zenon DEF Grant
  <2>2. QED
    BY <2>1 DEF Superseded
<1>6. [job |-> j, owner |-> o, left |-> n, current |-> TRUE] \in Grant
  BY DEF Grant
<1>7. held' \in SUBSET Grant
  BY <1>1, <1>5, <1>6
<1>8. QED
  BY <1>1, <1>4, <1>7 DEF TypeOK

(* An answer of a worker writes at most the row of its job.                 *)
LEMMA SettleType ==
  ASSUME TypeOK, NEW t \in held, NEW status \in Statuses,
         NEW delay \in 0..MaxDelay, Settle(t, status, delay)
  PROVE  TypeOK'
<1> DEFINE row == [status |-> status, owner |-> Nobody, lease |-> 0, wait |-> delay]
<1>1. row \in Row
  BY DEF Row
<1>2. t.job \in Jobs
  BY DEF TypeOK, Grant
<1>3. /\ jobs' \in [Jobs -> Row \cup {NoJob}]
      /\ \A k \in Jobs : Stored(k)' <=> Stored(k)
  BY <1>1, <1>2 DEF Settle, Accepts, TypeOK, Stored
<1>4. QED
  BY <1>3 DEF Settle, TypeOK

(* The three answers are of that form.                                      *)
LEMMA AnswersSettle ==
  ASSUME NEW t \in held, Complete(t) \/ Fail(t) \/ FailTerminal(t)
  PROVE  \E status \in Statuses \ {"PENDING", "RUNNING"}, delay \in 0..MaxDelay :
           /\ Settle(t, status, delay)
           /\ status \in Terminal => delay = 0
<1>1. CASE Complete(t) \/ FailTerminal(t)
  BY <1>1 DEF Complete, FailTerminal, Statuses, Terminal
<1>2. CASE Fail(t)
  <2>1. PICK delay \in 1..MaxDelay : Settle(t, "RETRY", delay)
    BY <1>2 DEF Fail
  <2>2. /\ delay \in 0..MaxDelay
        /\ "RETRY" \in Statuses \ {"PENDING", "RUNNING"}
        /\ "RETRY" \notin Terminal
    BY DEF Statuses, Terminal
  <2>3. QED
    BY <2>1, <2>2
<1>3. QED
  BY <1>1, <1>2

(* A pruned job leaves the claim order.                                     *)
LEMMA PruneType ==
  ASSUME TypeOK, NEW j \in Jobs, Prune(j)
  PROVE  TypeOK'
<1>1. \A k \in Jobs : Stored(k)' <=> Stored(k) /\ k # j
  BY DEF Prune, Stored, TypeOK
<1>2. /\ ahead'[j] = {}
      /\ \A k \in Jobs \ {j} : ahead'[k] = ahead[k] \ {j}
      /\ ahead' \in [Jobs -> SUBSET Jobs]
  BY DEF Prune, TypeOK
<1>3. \A m, k \in Jobs :
        /\ k \in ahead'[m] => Stored(m)' /\ Stored(k)' /\ m \notin ahead'[k]
        /\ Stored(m)' /\ Stored(k)' /\ m # k => m \in ahead'[k] \/ k \in ahead'[m]
  BY <1>1, <1>2 DEF TypeOK
<1>4. QED
  BY <1>1, <1>2, <1>3 DEF Prune, TypeOK

(* The clock only counts down, and removes no row.                          *)
LEMMA TickType ==
  ASSUME TypeOK, Tick
  PROVE  TypeOK' /\ \A k \in Jobs : Stored(k)' <=> Stored(k)
<1>1. \A k \in Jobs : /\ jobs'[k] \in Row \cup {NoJob}
                      /\ Stored(k)' <=> Stored(k)
  <2> SUFFICES ASSUME NEW k \in Jobs
               PROVE  jobs'[k] \in Row \cup {NoJob} /\ (Stored(k)' <=> Stored(k))
    OBVIOUS
  <2>1. CASE Stored(k)
    <3>1. jobs[k] \in Row
      BY <2>1 DEF Stored, TypeOK
    <3>2. Decreased(jobs[k].lease) \in 0..MaxLease /\ Decreased(jobs[k].wait) \in 0..MaxDelay
      BY <3>1, DecreasedType DEF Row
    <3>3. jobs'[k] = [jobs[k] EXCEPT !.lease = Decreased(jobs[k].lease),
                                     !.wait = Decreased(jobs[k].wait)]
      BY <2>1 DEF Tick
    <3>4. jobs'[k] \in Row
      BY <3>1, <3>2, <3>3 DEF Row
    <3>5. QED
      BY <2>1, <3>4 DEF Stored
  <2>2. CASE ~Stored(k)
    BY <2>2 DEF Tick, Stored
  <2>3. QED
    BY <2>1, <2>2
<1>2. held' \in SUBSET Grant
  <2>1. ASSUME NEW t \in held
        PROVE  [t EXCEPT !.left = Decreased(@)] \in Grant
    <3>1. t \in Grant
      BY DEF TypeOK
    <3>2. Decreased(t.left) \in 0..MaxLease
      BY <3>1, DecreasedType DEF Grant
    <3>3. QED
      BY <3>1, <3>2 DEF Grant
  <2>2. QED
    BY <2>1 DEF Tick
<1>3. QED
  BY <1>1, <1>2 DEF Tick, TypeOK

(* Every step keeps the types.                                              *)
LEMMA NextType == TypeOK /\ [Next]_vars => TypeOK'
<1> SUFFICES ASSUME TypeOK, [Next]_vars PROVE TypeOK'
  OBVIOUS
<1>1. CASE UNCHANGED vars
  BY <1>1 DEF vars, TypeOK, Stored
<1>2. ASSUME NEW t \in held, Complete(t) \/ Fail(t) \/ FailTerminal(t)
      PROVE  TypeOK'
  BY <1>2, AnswersSettle, SettleType
<1>3. ASSUME NEW t \in held, Lose(t) PROVE TypeOK'
  BY <1>3 DEF Lose, TypeOK, Stored
<1>4. QED
  BY <1>1, <1>2, <1>3, EnqueueNewType, ClaimType, PruneType, TickType
     DEF Next, EnqueueAgain

(* The table, the grants and the claim order keep their shape.              *)
THEOREM TypeCorrect == Spec => []TypeOK
<1>1. Init => TypeOK
  BY DEF Init, TypeOK, Stored
<1>2. QED
  BY <1>1, NextType, PTL DEF Spec

-----------------------------------------------------------------------------
(* Leases, when no name claims a job that it still holds a grant of         *)

(* The current grant of a job agrees with its row, an earlier one has       *)
(* lapsed, and a name has one grant of a job: the owner that the updates    *)
(* compare is then as good as the number of the attempt.                    *)
OneGrantPerName ==
  \A t, u \in held : t.job = u.job /\ t.owner = u.owner => t = u

CurrentIsTheRow ==
  \A t \in held : t.current =>
    /\ Stored(t.job)
    /\ jobs[t.job].status = "RUNNING"
    /\ jobs[t.job].owner = t.owner
    /\ jobs[t.job].lease = t.left

LateIsLapsed == \A t \in held : ~t.current => t.left = 0

LeaseInv == OneGrantPerName /\ CurrentIsTheRow /\ LateIsLapsed

(* A claim supersedes only lapsed grants and adds the one of its name.      *)
LEMMA ClaimKeepsLeases ==
  ASSUME ~OwnersReused, TypeOK, LeaseInv,
         NEW o \in Owners, NEW n \in 1..MaxLease, Claim(o, n)
  PROVE  LeaseInv'
<1>1. PICK j \in Jobs :
        /\ First(j)
        /\ ~ \E t \in held : t.job = j /\ t.owner = o
        /\ jobs' = [jobs EXCEPT ![j] = [status |-> "RUNNING", owner |-> o,
                                        lease |-> n, wait |-> @.wait]]
        /\ held' = Superseded(j)
                     \cup {[job |-> j, owner |-> o, left |-> n, current |-> TRUE]}
  BY DEF Claim
<1> DEFINE new == [job |-> j, owner |-> o, left |-> n, current |-> TRUE]
<1>2. /\ Stored(j)'
      /\ jobs'[j].status = "RUNNING"
      /\ jobs'[j].owner = o
      /\ jobs'[j].lease = n
      /\ \A k \in Jobs \ {j} : jobs'[k] = jobs[k]
  <2>1. jobs[j] \in Row
    BY <1>1 DEF First, Ready, Stored, TypeOK
  <2>2. jobs'[j] = [status |-> "RUNNING", owner |-> o, lease |-> n, wait |-> jobs[j].wait]
    BY <1>1 DEF TypeOK
  <2>3. jobs'[j] \in Row
    BY <2>1, <2>2 DEF Row, Statuses
  <2>4. QED
    BY <1>1, <2>2, <2>3 DEF TypeOK, Stored
<1>3. \A t \in held : t.job = j => t.left = 0
  <2> SUFFICES ASSUME NEW t \in held, t.job = j, t.current PROVE t.left = 0
    BY DEF LeaseInv, LateIsLapsed
  <2>1. jobs[j].status = "RUNNING" /\ jobs[j].lease = t.left
    BY DEF LeaseInv, CurrentIsTheRow
  <2>2. QED
    BY <1>1, <2>1 DEF First, Ready
<1>4. \A u \in held' :
        \/ u = new
        \/ /\ u \in held
           /\ u.job # j
        \/ \E t \in held : /\ t.job = j
                           /\ u = [t EXCEPT !.current = FALSE]
                           /\ u.job = j /\ u.owner = t.owner
                           /\ u.left = 0 /\ ~u.current
  <2>1. ASSUME NEW t \in held, t.job = j
        PROVE  LET u == [t EXCEPT !.current = FALSE]
               IN  u.job = j /\ u.owner = t.owner /\ u.left = 0 /\ ~u.current
    <3>1. t \in Grant /\ t.left = 0
      BY <2>1, <1>3 DEF TypeOK
    <3>2. QED
      BY <2>1, <3>1 DEF Grant
  <2>2. QED
    BY <1>1, <2>1 DEF Superseded
<1>5. OneGrantPerName'
  <2> SUFFICES ASSUME NEW t \in held', NEW u \in held',
                      t.job = u.job, t.owner = u.owner
               PROVE  t = u
    BY DEF OneGrantPerName
  <2>1. \A v \in held' : v.job = j => \/ v = new
                                      \/ \E x \in held : /\ x.job = j
                                                          /\ x.owner = v.owner
                                                          /\ v = [x EXCEPT !.current = FALSE]
    BY <1>4
  <2>2. \A v \in held' : v.job # j => v \in held
    BY <1>4
  <2>3. CASE t.job # j
    BY <2>2, <2>3 DEF LeaseInv, OneGrantPerName
  <2>4. CASE t.job = j
    <3>1. new.owner = o
      OBVIOUS
    <3>2. CASE t.owner = o
      <4>1. ASSUME NEW v \in held', v.job = j, v.owner = o PROVE v = new
        BY <4>1, <1>1, <2>1
      <4>2. t = new /\ u = new
        BY <4>1, <2>4, <3>2
      <4>3. QED
        BY <4>2
    <3>3. CASE t.owner # o
      <4>1. PICK x \in held : x.job = j /\ x.owner = t.owner /\ t = [x EXCEPT !.current = FALSE]
        BY <2>1, <2>4, <3>1, <3>3
      <4>2. PICK y \in held : y.job = j /\ y.owner = u.owner /\ u = [y EXCEPT !.current = FALSE]
        BY <2>1, <2>4, <3>1, <3>3
      <4>3. x = y
        BY <4>1, <4>2 DEF LeaseInv, OneGrantPerName
      <4>4. QED
        BY <4>1, <4>2, <4>3
    <3>4. QED
      BY <3>2, <3>3
  <2>5. QED
    BY <2>3, <2>4
<1>6. CurrentIsTheRow'
  <2> SUFFICES ASSUME NEW u \in held', u.current
               PROVE  /\ Stored(u.job)'
                      /\ jobs'[u.job].status = "RUNNING"
                      /\ jobs'[u.job].owner = u.owner
                      /\ jobs'[u.job].lease = u.left
    BY DEF CurrentIsTheRow
  <2>1. CASE u = new
    BY <2>1, <1>2
  <2>2. CASE u \in held /\ u.job # j
    <3>1. u.job \in Jobs \ {j}
      BY <2>2 DEF TypeOK, Grant
    <3>2. QED
      BY <2>2, <3>1, <1>2 DEF LeaseInv, CurrentIsTheRow, Stored
  <2>3. QED
    BY <2>1, <2>2, <1>4
<1>7. LateIsLapsed'
  BY <1>4 DEF LeaseInv, LateIsLapsed
<1>8. QED
  BY <1>5, <1>6, <1>7 DEF LeaseInv

(* An answer that is accepted is that of the current grant.                 *)
LEMMA SettleKeepsLeases ==
  ASSUME TypeOK, LeaseInv, NEW t \in held, NEW status, NEW delay,
         Settle(t, status, delay)
  PROVE  LeaseInv'
<1>1. held' = held \ {t}
  BY DEF Settle
<1>2. OneGrantPerName' /\ LateIsLapsed'
  BY <1>1 DEF LeaseInv, OneGrantPerName, LateIsLapsed
<1>3. CurrentIsTheRow'
  <2> SUFFICES ASSUME NEW u \in held', u.current
               PROVE  /\ Stored(u.job)'
                      /\ jobs'[u.job].status = "RUNNING"
                      /\ jobs'[u.job].owner = u.owner
                      /\ jobs'[u.job].lease = u.left
    BY DEF CurrentIsTheRow
  <2>1. /\ u \in held /\ u # t /\ u.job \in Jobs
        /\ Stored(u.job)
        /\ jobs[u.job].status = "RUNNING"
        /\ jobs[u.job].owner = u.owner
        /\ jobs[u.job].lease = u.left
    BY <1>1 DEF LeaseInv, CurrentIsTheRow, TypeOK, Grant
  <2>2. jobs'[u.job] = jobs[u.job]
    <3>1. CASE Accepts(t)
      <4>1. u.job # t.job
        BY <2>1, <3>1 DEF Accepts, LeaseInv, OneGrantPerName
      <4>2. QED
        BY <4>1, <2>1, <3>1 DEF Settle, TypeOK
    <3>2. CASE ~Accepts(t)
      BY <3>2 DEF Settle
    <3>3. QED
      BY <3>1, <3>2
  <2>3. QED
    BY <2>1, <2>2 DEF Stored
<1>4. QED
  BY <1>2, <1>3 DEF LeaseInv

(* The row and its current grant count down together.                       *)
LEMMA TickKeepsLeases ==
  ASSUME TypeOK, LeaseInv, Tick
  PROVE  LeaseInv'
<1>1. \A u \in held' : \E t \in held :
        /\ u = [t EXCEPT !.left = Decreased(t.left)]
        /\ t \in Grant
        /\ u.job = t.job /\ u.owner = t.owner /\ u.current = t.current
        /\ u.left = Decreased(t.left)
  <2> SUFFICES ASSUME NEW u \in held'
               PROVE  \E t \in held :
                        /\ u = [t EXCEPT !.left = Decreased(t.left)]
                        /\ t \in Grant
                        /\ u.job = t.job /\ u.owner = t.owner /\ u.current = t.current
                        /\ u.left = Decreased(t.left)
    OBVIOUS
  <2>1. PICK t \in held : u = [t EXCEPT !.left = Decreased(t.left)]
    BY DEF Tick
  <2>2. t \in Grant
    BY DEF TypeOK
  <2>3. QED
    BY <2>1, <2>2 DEF Grant
<1>2. OneGrantPerName'
  <2> SUFFICES ASSUME NEW u \in held', NEW v \in held',
                      u.job = v.job, u.owner = v.owner
               PROVE  u = v
    BY DEF OneGrantPerName
  <2>1. PICK t \in held : /\ u = [t EXCEPT !.left = Decreased(t.left)]
                          /\ u.job = t.job /\ u.owner = t.owner
    BY <1>1
  <2>2. PICK x \in held : /\ v = [x EXCEPT !.left = Decreased(x.left)]
                          /\ v.job = x.job /\ v.owner = x.owner
    BY <1>1
  <2>3. t = x
    BY <2>1, <2>2 DEF LeaseInv, OneGrantPerName
  <2>4. QED
    BY <2>1, <2>2, <2>3
<1>3. CurrentIsTheRow'
  <2> SUFFICES ASSUME NEW u \in held', u.current
               PROVE  /\ Stored(u.job)'
                      /\ jobs'[u.job].status = "RUNNING"
                      /\ jobs'[u.job].owner = u.owner
                      /\ jobs'[u.job].lease = u.left
    BY DEF CurrentIsTheRow
  <2>1. PICK t \in held : /\ t \in Grant /\ t.current
                          /\ u.job = t.job /\ u.owner = t.owner
                          /\ u.left = Decreased(t.left)
    BY <1>1
  <2>2. /\ t.job \in Jobs
        /\ Stored(t.job)
        /\ jobs[t.job].status = "RUNNING"
        /\ jobs[t.job].owner = t.owner
        /\ jobs[t.job].lease = t.left
        /\ jobs[t.job] \in Row
    BY <2>1 DEF LeaseInv, CurrentIsTheRow, Grant, TypeOK, Stored
  <2>3. jobs'[t.job] = [jobs[t.job] EXCEPT !.lease = Decreased(jobs[t.job].lease),
                                           !.wait = Decreased(jobs[t.job].wait)]
    BY <2>2 DEF Tick
  <2>4. Stored(t.job)'
    BY <2>2, TickType
  <2>5. /\ jobs'[t.job].status = jobs[t.job].status
        /\ jobs'[t.job].owner = jobs[t.job].owner
        /\ jobs'[t.job].lease = Decreased(jobs[t.job].lease)
    BY <2>2, <2>3 DEF Row
  <2>6. QED
    BY <2>1, <2>2, <2>4, <2>5 DEF Stored
<1>4. LateIsLapsed'
  BY <1>1, DecreasedType DEF LeaseInv, LateIsLapsed, Decreased
<1>5. QED
  BY <1>2, <1>3, <1>4 DEF LeaseInv

(* Every step keeps the grants and the rows in agreement.                   *)
LEMMA NextKeepsLeases ==
  ASSUME ~OwnersReused, TypeOK, LeaseInv, [Next]_vars
  PROVE  LeaseInv'
<1>1. CASE UNCHANGED vars
  BY <1>1 DEF vars, LeaseInv, OneGrantPerName, CurrentIsTheRow, LateIsLapsed, Stored
<1>2. ASSUME NEW j \in Jobs, EnqueueNew(j) PROVE LeaseInv'
  <2>1. /\ ~Stored(j)
        /\ UNCHANGED held
        /\ \A k \in Jobs \ {j} : jobs'[k] = jobs[k]
    BY <1>2 DEF EnqueueNew, TypeOK
  <2>2. \A t \in held : t.job \in Jobs
    BY DEF TypeOK, Grant
  <2>3. QED
    BY <2>1, <2>2 DEF LeaseInv, OneGrantPerName, CurrentIsTheRow, LateIsLapsed, Stored
<1>3. ASSUME NEW t \in held, Complete(t) \/ Fail(t) \/ FailTerminal(t)
      PROVE  LeaseInv'
  BY <1>3, AnswersSettle, SettleKeepsLeases
<1>4. ASSUME NEW t \in held, Lose(t) PROVE LeaseInv'
  BY <1>4 DEF Lose, LeaseInv, OneGrantPerName, CurrentIsTheRow, LateIsLapsed, Stored
<1>5. ASSUME NEW j \in Jobs, Prune(j) PROVE LeaseInv'
  <2>1. /\ Stored(j) /\ jobs[j].status # "RUNNING"
        /\ UNCHANGED held
        /\ \A k \in Jobs \ {j} : jobs'[k] = jobs[k]
    BY <1>5 DEF Prune, Settled, Terminal, TypeOK
  <2>2. \A t \in held : t.job \in Jobs
    BY DEF TypeOK, Grant
  <2>3. QED
    BY <2>1, <2>2 DEF LeaseInv, OneGrantPerName, CurrentIsTheRow, LateIsLapsed, Stored
<1>6. QED
  BY <1>1, <1>2, <1>3, <1>4, <1>5, ClaimKeepsLeases, TickKeepsLeases
     DEF Next, EnqueueAgain

(* The grants and the rows agree in every reachable state.                  *)
THEOREM LeasesAgree ==
  ASSUME ~OwnersReused PROVE Spec => []LeaseInv
<1>1. Init => LeaseInv
  BY DEF Init, LeaseInv, OneGrantPerName, CurrentIsTheRow, LateIsLapsed
<1>2. TypeOK /\ LeaseInv /\ [Next]_vars => LeaseInv'
  BY NextKeepsLeases
<1>3. QED
  BY <1>1, <1>2, TypeCorrect, PTL DEF Spec

(* claim_memory_job never lets two grants of a job run at once, provided no *)
(* name claims a job that it still holds a grant of.                        *)
THEOREM LeaseIsExclusiveCorrect ==
  ASSUME ~OwnersReused PROVE Spec => []LeaseIsExclusive
<1>1. LeaseInv => LeaseIsExclusive
  BY DEF LeaseInv, OneGrantPerName, CurrentIsTheRow, LateIsLapsed, LeaseIsExclusive
<1>2. QED
  BY <1>1, LeasesAgree, PTL

(* Under the same proviso, a job stays its worker's while the lease lasts.  *)
THEOREM LiveLeaseHoldsCorrect ==
  ASSUME ~OwnersReused PROVE Spec => []LiveLeaseHolds
<1>1. TypeOK /\ LeaseInv => LiveLeaseHolds
  BY DEF TypeOK, Grant, LeaseInv, CurrentIsTheRow, LateIsLapsed, LiveLeaseHolds
<1>2. QED
  BY <1>1, TypeCorrect, LeasesAgree, PTL

-----------------------------------------------------------------------------
(* Late answers and settled jobs                                            *)

(* The owner of a running row is never the name of a superseded grant.      *)
LateIsFenced == \A t \in held : ~t.current => ~Accepts(t)

(* Every step keeps superseded grants from being accepted.                  *)
LEMMA NextKeepsFence ==
  ASSUME ~OwnersReused, TypeOK, LateIsFenced, [Next]_vars
  PROVE  LateIsFenced'
<1>0. \A t \in held : t \in Grant /\ t.job \in Jobs
  BY DEF TypeOK, Grant
<1>1. CASE UNCHANGED vars
  BY <1>1 DEF vars, LateIsFenced, Accepts, Stored
<1>2. ASSUME NEW j \in Jobs, EnqueueNew(j) PROVE LateIsFenced'
  <2>1. /\ UNCHANGED held
        /\ \A k \in Jobs \ {j} : jobs'[k] = jobs[k]
        /\ jobs'[j].status = "PENDING"
    BY <1>2 DEF EnqueueNew, TypeOK, NewRow
  <2>2. QED
    BY <1>0, <2>1 DEF LateIsFenced, Accepts, Stored
<1>3. ASSUME NEW o \in Owners, NEW n \in 1..MaxLease, Claim(o, n)
      PROVE  LateIsFenced'
  <2>1. PICK j \in Jobs :
          /\ ~ \E t \in held : t.job = j /\ t.owner = o
          /\ jobs' = [jobs EXCEPT ![j] = [status |-> "RUNNING", owner |-> o,
                                          lease |-> n, wait |-> @.wait]]
          /\ held' = Superseded(j)
                       \cup {[job |-> j, owner |-> o, left |-> n, current |-> TRUE]}
    BY <1>3 DEF Claim
  <2>2. jobs'[j].owner = o /\ \A k \in Jobs \ {j} : jobs'[k] = jobs[k]
    BY <2>1 DEF TypeOK
  <2>3. ASSUME NEW u \in held', ~u.current PROVE ~Accepts(u)'
    <3>1. PICK t \in held : u = IF t.job = j THEN [t EXCEPT !.current = FALSE] ELSE t
      BY <2>1, <2>3 DEF Superseded
    <3>2. CASE t.job = j
      <4>1. u.job = j /\ u.owner = t.owner
        BY <1>0, <3>1, <3>2 DEF Grant
      <4>2. QED
        BY <4>1, <3>2, <2>1, <2>2 DEF Accepts
    <3>3. CASE t.job # j
      BY <1>0, <2>2, <2>3, <3>1, <3>3 DEF LateIsFenced, Accepts, Stored
    <3>4. QED
      BY <3>2, <3>3
  <2>4. QED
    BY <2>3 DEF LateIsFenced
<1>4. ASSUME NEW t \in held, Complete(t) \/ Fail(t) \/ FailTerminal(t)
      PROVE  LateIsFenced'
  <2>1. PICK status \in Statuses \ {"PENDING", "RUNNING"}, delay \in 0..MaxDelay :
          Settle(t, status, delay)
    BY <1>4, AnswersSettle
  <2>2. \A k \in Jobs : jobs'[k] = jobs[k] \/ jobs'[k].status = status
    BY <2>1 DEF Settle, TypeOK
  <2>3. held' \subseteq held
    BY <2>1 DEF Settle
  <2>4. QED
    BY <1>0, <2>1, <2>2, <2>3 DEF LateIsFenced, Accepts, Stored
<1>5. ASSUME NEW t \in held, Lose(t) PROVE LateIsFenced'
  BY <1>5 DEF Lose, LateIsFenced, Accepts, Stored
<1>6. ASSUME NEW j \in Jobs, Prune(j) PROVE LateIsFenced'
  <2>1. /\ UNCHANGED held
        /\ \A k \in Jobs \ {j} : jobs'[k] = jobs[k]
        /\ ~Stored(j)'
    BY <1>6 DEF Prune, TypeOK, Stored
  <2>2. QED
    BY <1>0, <2>1 DEF LateIsFenced, Accepts, Stored
<1>7. CASE Tick
  <2>1. ASSUME NEW u \in held', ~u.current PROVE ~Accepts(u)'
    <3>1. PICK t \in held : u = [t EXCEPT !.left = Decreased(t.left)]
      BY <1>7 DEF Tick
    <3>2. u.job = t.job /\ u.owner = t.owner /\ u.current = t.current
      BY <1>0, <3>1 DEF Grant
    <3>3. ~Accepts(t) /\ t.job \in Jobs
      BY <1>0, <2>1, <3>2 DEF LateIsFenced
    <3>4. CASE Stored(t.job)
      <4>1. /\ jobs[t.job] \in Row
            /\ jobs'[t.job] = [jobs[t.job] EXCEPT !.lease = Decreased(jobs[t.job].lease),
                                                  !.wait = Decreased(jobs[t.job].wait)]
        BY <1>7, <3>3, <3>4 DEF Tick, TypeOK, Stored
      <4>2. /\ jobs'[t.job].status = jobs[t.job].status
            /\ jobs'[t.job].owner = jobs[t.job].owner
        BY <4>1 DEF Row
      <4>3. QED
        BY <3>2, <3>3, <3>4, <4>2 DEF Accepts
    <3>5. CASE ~Stored(t.job)
      BY <1>7, <3>2, <3>3, <3>5 DEF Tick, Accepts, Stored
    <3>6. QED
      BY <3>4, <3>5
  <2>2. QED
    BY <2>1 DEF LateIsFenced
<1>8. QED
  BY <1>1, <1>2, <1>3, <1>4, <1>5, <1>6, <1>7 DEF Next, EnqueueAgain

(* A step that uses up a superseded grant leaves the table as it is.        *)
LEMMA NextIgnoresLate ==
  ASSUME ~OwnersReused, TypeOK, LateIsLapsed, LateIsFenced, Next,
         NEW t \in held, ~t.current, held' = held \ {t}
  PROVE  jobs' = jobs
<1>1. t \notin held' /\ t \in Grant
  BY DEF TypeOK
<1>2. ASSUME NEW u \in held, Complete(u) \/ Fail(u) \/ FailTerminal(u)
      PROVE  jobs' = jobs
  <2>1. PICK status \in Statuses, delay \in 0..MaxDelay : Settle(u, status, delay)
    BY <1>2, AnswersSettle
  <2>2. u = t
    BY <1>1, <2>1 DEF Settle
  <2>3. QED
    BY <2>1, <2>2 DEF Settle, LateIsFenced
<1>3. ASSUME NEW o \in Owners, NEW n \in 1..MaxLease, Claim(o, n)
      PROVE  FALSE
  <2>1. PICK j \in Jobs :
          /\ ~ \E u \in held : u.job = j /\ u.owner = o
          /\ [job |-> j, owner |-> o, left |-> n, current |-> TRUE] \in held'
    BY <1>3 DEF Claim
  <2>2. [job |-> j, owner |-> o, left |-> n, current |-> TRUE] \in held
    BY <2>1
  <2>3. QED
    BY <2>1, <2>2
<1>4. CASE Tick
  <2>1. t.left = 0
    BY DEF LateIsLapsed
  <2>2. [t EXCEPT !.left = Decreased(t.left)] = t
    BY <1>1, <2>1 DEF Grant, Decreased
  <2>3. [t EXCEPT !.left = Decreased(t.left)] \in held'
    BY <1>4 DEF Tick
  <2>4. QED
    BY <1>1, <2>2, <2>3
<1>5. QED
  BY <1>1, <1>2, <1>3, <1>4
     DEF Next, EnqueueNew, EnqueueAgain, Lose, Prune, vars

(* An answer to a job that was claimed again meanwhile has no effect on the *)
(* table, provided no name claims a job that it still holds a grant of.     *)
THEOREM LateCallsCorrect ==
  ASSUME ~OwnersReused PROVE Spec => LateCallsChangeNothing
<1>1. Init => LateIsFenced
  BY DEF Init, LateIsFenced
<1>2. TypeOK /\ LateIsFenced /\ [Next]_vars => LateIsFenced'
  BY NextKeepsFence
<1>3. TypeOK /\ LeaseInv /\ LateIsFenced /\ [Next]_vars =>
        [\A t \in held : ~t.current /\ held' = held \ {t} => jobs' = jobs]_vars
  BY NextIgnoresLate DEF LeaseInv
<1>4. QED
  BY <1>1, <1>2, <1>3, TypeCorrect, LeasesAgree, PTL DEF Spec, LateCallsChangeNothing

(* Nothing is left to count down in the row of a settled job.               *)
SettledAtRest ==
  \A j \in Jobs : Settled(j) => jobs[j].lease = 0 /\ jobs[j].wait = 0

(* A settled job is out of reach of every step but prune, and stays at rest.*)
LEMMA NextKeepsSettled ==
  ASSUME TypeOK, SettledAtRest, [Next]_vars
  PROVE  /\ SettledAtRest'
         /\ \A j \in Jobs : Settled(j) => ~Stored(j)' \/ jobs'[j] = jobs[j]
<1> DEFINE Kept(j) == /\ Settled(j)' => jobs'[j].lease = 0 /\ jobs'[j].wait = 0
                      /\ Settled(j) => ~Stored(j)' \/ jobs'[j] = jobs[j]
<1> SUFFICES ASSUME NEW q \in Jobs PROVE Kept(q)
  BY DEF SettledAtRest
<1>0. Settled(q) => jobs[q].lease = 0 /\ jobs[q].wait = 0
  BY DEF SettledAtRest
<1>1. CASE jobs'[q] = jobs[q]
  BY <1>0, <1>1 DEF Settled, Stored
<1>2. ASSUME NEW j \in Jobs, EnqueueNew(j) PROVE Kept(q)
  <2>1. CASE q = j
    <3>1. ~Stored(j) /\ jobs'[j] = NewRow
      BY <1>2 DEF EnqueueNew, TypeOK
    <3>2. QED
      BY <2>1, <3>1 DEF Settled, NewRow, Terminal
  <2>2. CASE q # j
    BY <1>1, <1>2, <2>2 DEF EnqueueNew, TypeOK
  <2>3. QED
    BY <2>1, <2>2
<1>3. ASSUME NEW o \in Owners, NEW n \in 1..MaxLease, Claim(o, n) PROVE Kept(q)
  <2>1. PICK j \in Jobs :
          /\ First(j)
          /\ jobs' = [jobs EXCEPT ![j] = [status |-> "RUNNING", owner |-> o,
                                          lease |-> n, wait |-> @.wait]]
    BY <1>3 DEF Claim
  <2>2. CASE q = j
    <3>1. ~Settled(q) /\ jobs'[q].status = "RUNNING"
      BY <2>1, <2>2 DEF First, Ready, Settled, Terminal, TypeOK
    <3>2. QED
      BY <3>1 DEF Settled, Terminal
  <2>3. CASE q # j
    BY <1>1, <2>1, <2>3 DEF TypeOK
  <2>4. QED
    BY <2>2, <2>3
<1>4. ASSUME NEW t \in held, Complete(t) \/ Fail(t) \/ FailTerminal(t)
      PROVE  Kept(q)
  <2>1. PICK status \in Statuses \ {"PENDING", "RUNNING"}, delay \in 0..MaxDelay :
          /\ Settle(t, status, delay)
          /\ status \in Terminal => delay = 0
    BY <1>4, AnswersSettle
  <2>2. CASE Accepts(t) /\ q = t.job
    <3>1. jobs'[q] = [status |-> status, owner |-> Nobody, lease |-> 0, wait |-> delay]
      BY <2>1, <2>2 DEF Settle, TypeOK
    <3>2. ~Settled(q)
      BY <2>2 DEF Accepts, Settled, Terminal
    <3>3. QED
      BY <2>1, <3>1, <3>2 DEF Settled
  <2>3. CASE ~(Accepts(t) /\ q = t.job)
    BY <1>1, <2>1, <2>3 DEF Settle, TypeOK
  <2>4. QED
    BY <2>2, <2>3
<1>5. ASSUME NEW j \in Jobs, Prune(j) PROVE Kept(q)
  <2>1. jobs'[q] = jobs[q] \/ ~Stored(q)'
    BY <1>5 DEF Prune, TypeOK, Stored
  <2>2. QED
    BY <1>1, <2>1 DEF Settled
<1>6. CASE Tick
  <2>1. CASE Stored(q)
    <3>1. /\ jobs[q] \in Row
          /\ jobs'[q] = [jobs[q] EXCEPT !.lease = Decreased(jobs[q].lease),
                                        !.wait = Decreased(jobs[q].wait)]
      BY <1>6, <2>1 DEF Tick, TypeOK, Stored
    <3>2. CASE Settled(q)
      <4>1. jobs'[q] = jobs[q]
        <5>1. /\ Decreased(jobs[q].lease) = jobs[q].lease
              /\ Decreased(jobs[q].wait) = jobs[q].wait
          BY <1>0, <3>2 DEF Decreased
        <5>2. jobs'[q] = [jobs[q] EXCEPT !.lease = jobs[q].lease,
                                         !.wait = jobs[q].wait]
          BY <3>1, <5>1
        <5>3. QED
          BY <3>1, <5>2 DEF Row
      <4>2. QED
        BY <4>1, <1>1
    <3>3. CASE ~Settled(q)
      <4>1. jobs'[q].status = jobs[q].status
        BY <3>1 DEF Row
      <4>2. QED
        BY <2>1, <3>3, <4>1 DEF Settled
    <3>4. QED
      BY <3>2, <3>3
  <2>2. CASE ~Stored(q)
    BY <1>6, <2>2 DEF Tick, Stored, Settled
  <2>3. QED
    BY <2>1, <2>2
<1>7. CASE UNCHANGED jobs
  BY <1>1, <1>7
<1>8. QED
  BY <1>2, <1>3, <1>4, <1>5, <1>6, <1>7 DEF Next, EnqueueAgain, Lose, vars

(* A settled job keeps its outcome and is not run again until it is pruned, *)
(* whatever is enqueued or answered late.                                   *)
THEOREM SettledCorrect == Spec => SettledStays
<1>1. Init => SettledAtRest
  BY DEF Init, SettledAtRest, Settled, Stored
<1>2. TypeOK /\ SettledAtRest /\ [Next]_vars => SettledAtRest'
  BY NextKeepsSettled
<1>3. TypeOK /\ SettledAtRest /\ [Next]_vars =>
        [\A j \in Jobs : Settled(j) => ~Stored(j)' \/ jobs'[j] = jobs[j]]_vars
  BY NextKeepsSettled
<1>4. QED
  BY <1>1, <1>2, <1>3, TypeCorrect, PTL DEF Spec, SettledStays
=============================================================================
