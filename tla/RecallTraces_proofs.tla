------------------------- MODULE RecallTraces_proofs -------------------------
(* What receipts can rely on, for any number of threads, traces, memories,  *)
(* failures and crashes.                                                    *)
EXTENDS RecallTraces, FiniteSetTheorems, WellFoundedInduction, TLAPS

-----------------------------------------------------------------------------
(* Numbers and sequences                                                    *)

(* The bounds are naturals.                                                 *)
LEMMA BoundsAreNaturals ==
  /\ Capacity \in Nat \ {0} /\ Retention \in Nat /\ MaxTime \in Nat
  /\ MaxAccess \in Nat /\ MaxFailures \in Nat /\ MaxCrashes \in Nat
BY SizesAssumption

(* Max(S) is the greatest element of a bounded set that is not empty.       *)
LEMMA MaxFacts ==
  ASSUME NEW n \in Nat, NEW S \in SUBSET (0..n), S # {}
  PROVE  Max(S) \in S /\ \A y \in S : y <= Max(S)
<1> DEFINE R == OpToRel(<, Nat)
           T == {n - x : x \in S}
<1>1. IsWellFoundedOn(R, Nat)
  BY NatLessThanWellFounded
<1>2. \A x, y \in Nat : <<y, x>> \in R <=> y < x
  BY DEF OpToRel
<1>0. \A x \in S : x \in Nat /\ n - x \in Nat
  OBVIOUS
<1>3. T \in SUBSET Nat /\ T # {}
  <2>1. T \in SUBSET Nat
    BY <1>0
  <2>2. PICK z \in S : TRUE
    OBVIOUS
  <2>3. n - z \in T
    OBVIOUS
  <2> QED
    BY <2>1, <2>3
<1> HIDE DEF R, T
<1>4. PICK x \in T : \A y \in T : ~(<<y, x>> \in R)
  BY <1>1, <1>3, WFMin
<1>5. \A y \in T : x <= y
  <2> SUFFICES ASSUME NEW y \in T PROVE x <= y
    OBVIOUS
  <2>1. x \in Nat /\ y \in Nat
    BY <1>3
  <2>2. ~(y < x)
    BY <1>2, <1>4, <2>1
  <2> QED
    BY <2>1, <2>2
<1>6. PICK m \in S : x = n - m
  BY DEF T
<1>7. ASSUME NEW y \in S PROVE y <= m
  <2>1. x <= n - y
    BY <1>5 DEF T
  <2> QED
    BY <1>0, <1>6, <2>1
<1> QED
  BY <1>6, <1>7 DEF Max

(* The elements of a sequence after an append.                              *)
LEMMA InAppend ==
  ASSUME NEW s \in Seq(Traces), NEW t \in Traces
  PROVE  Append(s, t) \in Seq(Traces) /\ InSeq(Append(s, t)) = InSeq(s) \cup {t}
<1>1. /\ Append(s, t) \in Seq(Traces)
      /\ DOMAIN Append(s, t) = 1..Len(s) + 1
      /\ Append(s, t)[Len(s) + 1] = t
      /\ \A i \in 1..Len(s) : Append(s, t)[i] = s[i]
      /\ DOMAIN s = 1..Len(s) /\ Len(s) \in Nat
  OBVIOUS
<1> QED
  BY <1>1 DEF InSeq

(* The elements of a sequence without its head.                             *)
LEMMA InTail ==
  ASSUME NEW s \in Seq(Traces), Len(s) > 0
  PROVE  /\ Tail(s) \in Seq(Traces) /\ InSeq(Tail(s)) \subseteq InSeq(s)
         /\ Head(s) \in InSeq(s)
<1>1. /\ Tail(s) \in Seq(Traces)
      /\ DOMAIN Tail(s) = 1..Len(s) - 1
      /\ \A i \in 1..Len(s) - 1 : Tail(s)[i] = s[i + 1]
      /\ Head(s) = s[1]
      /\ DOMAIN s = 1..Len(s) /\ Len(s) \in Nat
  OBVIOUS
<1> QED
  BY <1>1 DEF InSeq

(* The elements of a batch that is put back before the buffer.              *)
LEMMA InConcatenation ==
  ASSUME NEW s \in Seq(Traces), NEW t \in Seq(Traces)
  PROVE  s \o t \in Seq(Traces) /\ InSeq(s \o t) = InSeq(s) \cup InSeq(t)
<1>1. /\ s \o t \in Seq(Traces)
      /\ DOMAIN (s \o t) = 1..Len(s) + Len(t)
      /\ \A i \in 1..Len(s) + Len(t) :
           (s \o t)[i] = IF i <= Len(s) THEN s[i] ELSE t[i - Len(s)]
      /\ DOMAIN s = 1..Len(s) /\ Len(s) \in Nat
      /\ DOMAIN t = 1..Len(t) /\ Len(t) \in Nat
  OBVIOUS
<1>2. InSeq(s \o t) \subseteq InSeq(s) \cup InSeq(t)
  BY <1>1 DEF InSeq
<1>3. ASSUME NEW i \in DOMAIN s PROVE s[i] \in InSeq(s \o t)
  BY <1>1 DEF InSeq
<1>4. ASSUME NEW i \in DOMAIN t PROVE t[i] \in InSeq(s \o t)
  <2>1. Len(s) + i \in 1..Len(s) + Len(t) /\ (s \o t)[Len(s) + i] = t[i]
    BY <1>1
  <2> QED
    BY <1>1, <2>1 DEF InSeq
<1> QED
  BY <1>1, <1>2, <1>3, <1>4 DEF InSeq

(* Nothing is in the empty sequence, and only traces are in one of traces.  *)
LEMMA InSequences ==
  /\ InSeq(<<>>) = {}
  /\ \A s \in Seq(Traces) : InSeq(s) \subseteq Traces
BY DEF InSeq

(* The accesses that a batch counts are a number.                           *)
LEMMA AccessesType ==
  ASSUME NEW batch \in Seq(Receipt), NEW m
  PROVE  Accesses(batch, m) \in Nat
<1> DEFINE ids == {i \in DOMAIN batch : /\ batch[i].memory = m
                                        /\ batch[i].referenced \/ batch[i].used}
<1>1. DOMAIN batch = 1..Len(batch) /\ Len(batch) \in Nat
  OBVIOUS
<1>2. IsFiniteSet(DOMAIN batch)
  BY <1>1, FS_Interval
<1>3. ids \in SUBSET DOMAIN batch
  OBVIOUS
<1>4. IsFiniteSet(ids)
  BY <1>2, <1>3, FS_Subset
<1> QED
  BY <1>4, FS_CardinalityType DEF Accesses

-----------------------------------------------------------------------------
(* Merging receipts                                                         *)

GoodRow == {x \in Row : Valid(x)}

(* A row after some valid receipts is a valid row that takes nothing back.  *)
LEMMA MergedFacts ==
  ASSUME NEW row \in GoodRow \cup {NoReceipt},
         NEW batch \in Seq(Receipt), \A i \in DOMAIN batch : Valid(batch[i]),
         NEW ids \in SUBSET DOMAIN batch, ids # {}
  PROVE  LET new == Merged(row, batch, ids)
         IN  /\ new \in GoodRow
             /\ row # NoReceipt =>
                  /\ row.presented  => new.presented
                  /\ row.referenced => new.referenced
                  /\ row.used       => new.used
                  /\ row.outcome # NoOutcome => new.outcome # NoOutcome
                  /\ new.consumed >= row.consumed
<1> DEFINE old      == {x \in {row} : x # NoReceipt}
           outcomes == {i \in ids : batch[i].outcome # NoOutcome}
           presented  == (\E x \in old : x.presented)
                           \/ \E i \in ids : batch[i].presented
           referenced == (\E x \in old : x.referenced)
                           \/ \E i \in ids : batch[i].referenced
           used       == (\E x \in old : x.used) \/ \E i \in ids : batch[i].used
           outcome    == IF outcomes # {} THEN batch[Max(outcomes)].outcome
                         ELSE IF row = NoReceipt THEN NoOutcome ELSE row.outcome
           times      == {batch[i].consumed : i \in ids}
                           \cup {x.consumed : x \in old}
           new        == [presented |-> presented, referenced |-> referenced,
                          used |-> used, outcome |-> outcome,
                          consumed |-> Max(times)]
<1>1. Merged(row, batch, ids) = new
  BY DEF Merged
<1>2. /\ DOMAIN batch = 1..Len(batch) /\ Len(batch) \in Nat
      /\ \A i \in ids : batch[i] \in Receipt
      /\ \A x \in old : x = row /\ x \in Row /\ Valid(x)
  BY DEF GoodRow
<1>3. /\ \A i \in ids : /\ batch[i].outcome \in Outcomes \cup {NoOutcome}
                        /\ batch[i].consumed \in 0..MaxTime
                        /\ batch[i].used => batch[i].presented
      /\ \A x \in old : /\ x.outcome \in Outcomes \cup {NoOutcome}
                        /\ x.consumed \in 0..MaxTime
                        /\ x.used => x.presented
  BY <1>2 DEF Receipt, Row, Instants, Valid
<1>4. Max(times) \in 0..MaxTime /\ \A y \in times : y <= Max(times)
  <2>1. times \in SUBSET (0..MaxTime)
    BY <1>3
  <2>2. PICK i \in ids : TRUE
    OBVIOUS
  <2>3. batch[i].consumed \in times
    OBVIOUS
  <2> HIDE DEF times
  <2> QED
    BY <2>1, <2>3, MaxFacts, BoundsAreNaturals
<1>5. outcomes # {} => Max(outcomes) \in outcomes
  <2>1. outcomes \in SUBSET (0..Len(batch))
    BY <1>2
  <2> HIDE DEF outcomes
  <2> QED
    BY <1>2, <2>1, MaxFacts
<1>6. /\ outcome \in Outcomes \cup {NoOutcome}
      /\ row # NoReceipt /\ row.outcome # NoOutcome => outcome # NoOutcome
  <2>1. CASE outcomes # {}
    BY <1>3, <1>5, <2>1
  <2>2. CASE outcomes = {} /\ row = NoReceipt
    BY <2>2
  <2>3. CASE outcomes = {} /\ row # NoReceipt
    BY <1>3, <2>3
  <2> QED
    BY <2>1, <2>2, <2>3
<1>7. presented \in BOOLEAN /\ referenced \in BOOLEAN /\ used \in BOOLEAN
  OBVIOUS
<1>8. used => presented
  BY <1>3
<1>9. row # NoReceipt => /\ row.presented  => presented
                         /\ row.referenced => referenced
                         /\ row.used       => used
  OBVIOUS
<1>10. row # NoReceipt => row.consumed \in times
  OBVIOUS
<1>11. row # NoReceipt => row.consumed \in Int
  BY <1>3
<1> HIDE DEF presented, referenced, used, outcome, times
<1>12. new \in Row
  BY <1>4, <1>6, <1>7 DEF Row, Instants
<1>13. Valid(new)
  BY <1>8 DEF Valid
<1>14. row # NoReceipt =>
                  /\ row.presented  => new.presented
                  /\ row.referenced => new.referenced
                  /\ row.used       => new.used
                  /\ row.outcome # NoOutcome => new.outcome # NoOutcome
                  /\ new.consumed >= row.consumed
  BY <1>4, <1>6, <1>9, <1>10, <1>11
<1> HIDE DEF new
<1> QED
  BY <1>1, <1>12, <1>13, <1>14 DEF GoodRow

-----------------------------------------------------------------------------
(* The inductive invariant                                                  *)

(* The traces that a thread is about to commit.                             *)
InBatch(p) == IF threads[p] = Idle THEN {} ELSE InSeq(threads[p].batch)

(* Types; what a thread will record is valid.                               *)
Types ==
  /\ TypeOK
  /\ \A p \in Threads : threads[p] # Idle =>
       \A i \in DOMAIN threads[p].sent : Valid(threads[p].sent[i])

(* A trace is answered before it is anywhere, and it is in one place: a     *)
(* flush never meets a trace that is stored.                                *)
Placed ==
  /\ \A t \in InSeq(trace_buffer) : served[t] # Unserved /\ t \notin recall_traces
  /\ \A t \in recall_traces : served[t] # Unserved
  /\ \A p \in Threads : \A t \in InBatch(p) :
       /\ served[t] # Unserved
       /\ t \notin recall_traces
       /\ t \notin InSeq(trace_buffer)
  /\ \A p, q \in Threads : p # q => InBatch(p) \cap InBatch(q) = {}

IInv == Types /\ Placed /\ ReceiptsHaveTraces

(* Nothing is answered at the start.                                        *)
LEMMA IInvInit == Init => IInv
<1> SUFFICES ASSUME Init PROVE IInv
  OBVIOUS
<1>1. TypeOK
  BY BoundsAreNaturals DEF Init, TypeOK, Instants
<1>2. \A p \in Threads : threads[p] = Idle
  BY DEF Init
<1>3. \A p \in Threads : InBatch(p) = {}
  BY <1>2 DEF InBatch
<1>4. Placed
  BY <1>3, InSequences DEF Init, Placed
<1>5. ReceiptsHaveTraces
  BY DEF Init, ReceiptsHaveTraces
<1> QED
  BY <1>1, <1>2, <1>4, <1>5 DEF IInv, Types

(* A batch is a sequence of receipts.                                       *)
LEMMA BatchesAreReceipts ==
  \A sent \in Batches \cup {<<>>} : sent \in Seq(Receipt)
<1>1. <<>> \in Seq(Receipt)
  OBVIOUS
<1>2. \A sent \in Batches : sent \in Seq(Receipt)
  BY BatchesAssumption
<1> QED
  BY <1>1, <1>2

(* A step that only takes thread p off its batch and its receipts, or gives *)
(* it others that were nowhere else, as far as the threads are concerned.   *)
LEMMA BatchAfter ==
  ASSUME NEW p \in Threads, NEW th, threads \in [Threads -> Thread \cup {Idle}],
         threads' = [threads EXCEPT ![p] = th]
  PROVE  /\ \A q \in Threads \ {p} : InBatch(q)' = InBatch(q)
         /\ InBatch(p)' = IF th = Idle THEN {} ELSE InSeq(th.batch)
BY DEF InBatch

(* Draining moves the buffer into the thread.                               *)
LEMMA DrainOK ==
  ASSUME IInv, NEW p \in Threads, NEW call \in Calls,
         NEW sent \in Batches \cup {<<>>}, \A i \in DOMAIN sent : Valid(sent[i]),
         Drain(p, call, sent)
  PROVE  IInv'
<1> DEFINE th == [call |-> call, sent |-> sent, batch |-> trace_buffer]
<1>1. /\ threads[p] = Idle
      /\ threads' = [threads EXCEPT ![p] = th]
      /\ trace_buffer' = <<>>
      /\ UNCHANGED <<tables, now, served, gone, counts>>
  BY DEF Drain
<1>2. /\ threads \in [Threads -> Thread \cup {Idle}]
      /\ trace_buffer \in Seq(Traces)
  BY DEF IInv, Types, TypeOK
<1>3. th \in Thread /\ th.sent = sent /\ th.batch = trace_buffer
  BY <1>2 DEF Thread
<1> HIDE DEF th
<1>4. TypeOK'
  BY <1>1, <1>2, <1>3 DEF IInv, Types, TypeOK, tables, counts
<1>5. Types'
  BY <1>1, <1>2, <1>3, <1>4 DEF IInv, Types
<1>6. /\ \A q \in Threads \ {p} : InBatch(q)' = InBatch(q)
      /\ InBatch(p)' = IF th = Idle THEN {} ELSE InSeq(th.batch)
  BY <1>1, <1>2, BatchAfter
<1>7. InSeq(trace_buffer)' = {}
  BY <1>1, InSequences
<1>8. Placed'
  <2>1. InBatch(p)' \subseteq InSeq(trace_buffer)
    BY <1>3, <1>6
  <2>2. \A q \in Threads \ {p} : InBatch(q) \cap InSeq(trace_buffer) = {}
    BY DEF IInv, Placed
  <2> QED
    BY <1>1, <1>6, <1>7, <2>1, <2>2 DEF IInv, Placed, tables
<1>9. ReceiptsHaveTraces'
  BY <1>1 DEF IInv, ReceiptsHaveTraces, tables
<1> QED
  BY <1>5, <1>8, <1>9 DEF IInv

(* A thread that ends its call without a change of the tables, whatever     *)
(* becomes of its batch.                                                    *)
LEMMA EndOK ==
  ASSUME IInv, NEW p \in Threads,
         threads' = [threads EXCEPT ![p] = Idle],
         recall_traces' \subseteq recall_traces,
         trace_buffer' \in Seq(Traces),
         InSeq(trace_buffer') \subseteq InSeq(trace_buffer) \cup InBatch(p),
         UNCHANGED served,
         receipts' \in [Keys -> GoodRow \cup {NoReceipt}],
         \A k \in Keys : receipts'[k] # NoReceipt => k[1] \in recall_traces',
         access_count' \in [Memories -> 0..MaxAccess],
         now' \in Instants, gone' \subseteq Traces,
         failures' \in 0..MaxFailures, crashes' \in 0..MaxCrashes
  PROVE  IInv'
<1>1. threads \in [Threads -> Thread \cup {Idle}]
  BY DEF IInv, Types, TypeOK
<1>2. TypeOK'
  BY <1>1 DEF IInv, Types, TypeOK, GoodRow
<1>3. Types'
  BY <1>1, <1>2 DEF IInv, Types
<1>4. /\ \A q \in Threads \ {p} : InBatch(q)' = InBatch(q)
      /\ InBatch(p)' = {}
  BY <1>1, BatchAfter
<1>5. Placed'
  <2>1. \A t \in InSeq(trace_buffer)' :
          served[t] # Unserved /\ t \notin recall_traces'
    BY DEF IInv, Placed, InSeq
  <2>2. \A q \in Threads \ {p} : \A t \in InBatch(q) :
          /\ served[t] # Unserved /\ t \notin recall_traces
          /\ t \notin InSeq(trace_buffer')
    BY DEF IInv, Placed
  <2> QED
    BY <1>4, <2>1, <2>2 DEF IInv, Placed, InSeq
<1>6. ReceiptsHaveTraces'
  BY DEF ReceiptsHaveTraces
<1> QED
  BY <1>3, <1>5, <1>6 DEF IInv

(* Serving puts a trace that was nowhere into the buffer.                   *)
LEMMA ServeOK ==
  ASSUME IInv, NEW t \in Traces, Serve(t)
  PROVE  IInv'
<1>1. /\ served[t] = Unserved
      /\ served' = [served EXCEPT ![t] = now]
      /\ UNCHANGED <<threads, tables, now, counts>>
  BY DEF Serve
<1>2. /\ trace_buffer \in Seq(Traces) /\ served \in [Traces -> Instants \cup {Unserved}]
      /\ now \in Instants /\ now # Unserved /\ gone \subseteq Traces
  BY NamesAssumption DEF IInv, Types, TypeOK
<1>3. /\ trace_buffer' \in Seq(Traces)
      /\ InSeq(trace_buffer') \subseteq InSeq(trace_buffer) \cup {t}
      /\ gone' \subseteq Traces
  <2>1. CASE Len(trace_buffer) >= Capacity
    <3>1. Len(trace_buffer) > 0
      BY <1>2, <2>1, BoundsAreNaturals
    <3>2. /\ Tail(trace_buffer) \in Seq(Traces)
          /\ InSeq(Tail(trace_buffer)) \subseteq InSeq(trace_buffer)
          /\ Head(trace_buffer) \in InSeq(trace_buffer)
      BY <1>2, <3>1, InTail
    <3>3. Head(trace_buffer) \in Traces
      BY <1>2, <3>2, InSequences
    <3>4. /\ Append(Tail(trace_buffer), t) \in Seq(Traces)
          /\ InSeq(Append(Tail(trace_buffer), t))
               = InSeq(Tail(trace_buffer)) \cup {t}
      BY <3>2, InAppend
    <3>5. /\ trace_buffer' = Append(Tail(trace_buffer), t)
          /\ gone' = gone \cup {Head(trace_buffer)}
      BY <2>1 DEF Serve
    <3> QED
      BY <1>2, <3>2, <3>3, <3>4, <3>5
  <2>2. CASE ~(Len(trace_buffer) >= Capacity)
    <3>1. trace_buffer' = Append(trace_buffer, t) /\ gone' = gone
      BY <2>2 DEF Serve
    <3> QED
      BY <1>2, <3>1, InAppend
  <2> QED
    BY <2>1, <2>2
<1>4. TypeOK'
  BY <1>1, <1>2, <1>3 DEF IInv, Types, TypeOK, tables, counts
<1>5. Types'
  BY <1>1, <1>4 DEF IInv, Types
<1>6. \A q \in Threads : InBatch(q)' = InBatch(q)
  BY <1>1 DEF InBatch
<1>7. /\ t \notin InSeq(trace_buffer) /\ t \notin recall_traces
      /\ \A q \in Threads : t \notin InBatch(q)
  BY <1>1 DEF IInv, Placed
<1>8. \A u \in Traces : u # t => served'[u] = served[u]
  BY <1>1, <1>2
<1>9. served'[t] # Unserved
  BY <1>1, <1>2
<1>10. /\ InSeq(trace_buffer) \subseteq Traces /\ recall_traces \subseteq Traces
       /\ \A q \in Threads : InBatch(q) \subseteq Traces
  BY <1>2, InSequences DEF IInv, Types, TypeOK, InBatch, Thread
<1>11. Placed'
  <2>1. \A u \in InSeq(trace_buffer') : served'[u] # Unserved /\ u \notin recall_traces
    BY <1>3, <1>7, <1>8, <1>9, <1>10 DEF IInv, Placed
  <2>2. \A u \in recall_traces : served'[u] # Unserved
    BY <1>7, <1>8, <1>10 DEF IInv, Placed
  <2>3. \A q \in Threads : \A u \in InBatch(q) :
          /\ served'[u] # Unserved /\ u \notin recall_traces
          /\ u \notin InSeq(trace_buffer')
    BY <1>3, <1>7, <1>8, <1>10 DEF IInv, Placed
  <2>4. recall_traces' = recall_traces /\ InSeq(trace_buffer)' = InSeq(trace_buffer')
    BY <1>1 DEF tables, InSeq
  <2>5. \A p, q \in Threads : p # q => InBatch(p)' \cap InBatch(q)' = {}
    BY <1>6 DEF IInv, Placed
  <2> QED
    BY <1>6, <2>1, <2>2, <2>3, <2>4, <2>5 DEF Placed
<1>12. ReceiptsHaveTraces'
  BY <1>1 DEF IInv, ReceiptsHaveTraces, tables
<1> QED
  BY <1>5, <1>11, <1>12 DEF IInv

(* A flush stores traces that were not stored, and deletes no receipt.      *)
LEMMA FlushOK ==
  ASSUME IInv, NEW p \in Threads, FlushCommits(p)
  PROVE  IInv' /\ receipts' = receipts
<1> DEFINE batch == InSeq(threads[p].batch)
           th == IF threads[p].call = "flush" THEN Idle
                 ELSE [call |-> threads[p].call, sent |-> threads[p].sent,
                       batch |-> <<>>]
<1>1. threads \in [Threads -> Thread \cup {Idle}]
  BY DEF IInv, Types, TypeOK
<1>2. /\ threads[p] # Idle
      /\ recall_traces' = recall_traces \cup batch
      /\ receipts' = [k \in Keys |-> IF k[1] \in batch \cap recall_traces
                                      THEN NoReceipt ELSE receipts[k]]
      /\ threads' = [threads EXCEPT ![p] = th]
      /\ UNCHANGED <<trace_buffer, access_count, now, served, gone, counts>>
  BY <1>1 DEF FlushCommits, Flushing
<1>3. threads[p] \in Thread /\ batch = InBatch(p)
  BY <1>1, <1>2 DEF InBatch
<1>4. th \in Thread \cup {Idle}
      /\ (th # Idle => th.sent = threads[p].sent /\ th.batch = <<>>)
  BY <1>3 DEF Thread
<1>5. batch \subseteq Traces
  BY <1>3, InSequences DEF Thread
<1> HIDE DEF batch, th
<1>6. batch \cap recall_traces = {}
  BY <1>3 DEF IInv, Placed
<1>7. receipts' = receipts
  BY <1>2, <1>6 DEF IInv, Types, TypeOK
<1>8. TypeOK'
  BY <1>1, <1>2, <1>4, <1>5, <1>7 DEF IInv, Types, TypeOK, counts
<1>9. Types'
  BY <1>1, <1>2, <1>4, <1>8 DEF IInv, Types
<1>10. /\ \A q \in Threads \ {p} : InBatch(q)' = InBatch(q)
       /\ InBatch(p)' = {}
  <2>1. /\ \A q \in Threads \ {p} : InBatch(q)' = InBatch(q)
        /\ InBatch(p)' = IF th = Idle THEN {} ELSE InSeq(th.batch)
    BY <1>1, <1>2, BatchAfter
  <2>2. th # Idle => InSeq(th.batch) = {}
    <3>1. th # Idle => InSeq(th.batch) = InSeq(<<>>)
      BY <1>4
    <3> QED
      BY <3>1, InSequences
  <2> QED
    BY <2>1, <2>2
<1>11. Placed'
  <2>1. \A t \in batch : served[t] # Unserved /\ t \notin InSeq(trace_buffer)
    BY <1>3 DEF IInv, Placed
  <2>2. \A q \in Threads \ {p} : InBatch(q) \cap batch = {}
    BY <1>3 DEF IInv, Placed
  <2> QED
    BY <1>2, <1>10, <2>1, <2>2 DEF IInv, Placed, InSeq
<1>12. ReceiptsHaveTraces'
  BY <1>2, <1>7 DEF IInv, ReceiptsHaveTraces
<1> QED
  BY <1>7, <1>9, <1>11, <1>12 DEF IInv

(* Recording takes nothing back, and leaves valid rows of stored traces.    *)
LEMMA RecordOK ==
  ASSUME IInv, NEW p \in Threads, Record(p)
  PROVE  /\ IInv'
         /\ \A k \in Keys : receipts[k] # NoReceipt =>
              /\ receipts'[k] # NoReceipt
              /\ receipts[k].presented  => receipts'[k].presented
              /\ receipts[k].referenced => receipts'[k].referenced
              /\ receipts[k].used       => receipts'[k].used
              /\ receipts[k].outcome # NoOutcome => receipts'[k].outcome # NoOutcome
              /\ receipts'[k].consumed >= receipts[k].consumed
<1> DEFINE batch == threads[p].sent
<1>1. /\ threads[p] # Idle
      /\ TracesStored(batch)
      /\ \A m \in Memories : access_count[m] + Accesses(batch, m) <= MaxAccess
      /\ receipts' = [k \in Keys |-> IF For(batch, k) = {} THEN receipts[k]
                                      ELSE Merged(receipts[k], batch, For(batch, k))]
      /\ access_count' = [m \in Memories |-> access_count[m] + Accesses(batch, m)]
      /\ threads' = [threads EXCEPT ![p] = Idle]
      /\ UNCHANGED <<trace_buffer, recall_traces, now, served, gone, counts>>
  BY DEF Record, Recording
<1>2. threads[p] \in Thread
  BY <1>1 DEF IInv, Types, TypeOK
<1>3. /\ batch \in Seq(Receipt)
      /\ \A i \in DOMAIN batch : Valid(batch[i])
  BY <1>1, <1>2, BatchesAreReceipts DEF IInv, Types, Thread
<1>4. receipts \in [Keys -> GoodRow \cup {NoReceipt}]
  BY DEF IInv, Types, TypeOK, GoodRow
<1>5. /\ access_count \in [Memories -> 0..MaxAccess]
      /\ \A m \in Memories : Accesses(batch, m) \in Nat
  BY <1>3, AccessesType DEF IInv, Types, TypeOK
<1> HIDE DEF batch
<1>6. access_count' \in [Memories -> 0..MaxAccess]
  BY <1>1, <1>5, BoundsAreNaturals
<1>7. ASSUME NEW k \in Keys, For(batch, k) # {}
      PROVE  /\ receipts'[k] \in GoodRow
             /\ receipts'[k] = Merged(receipts[k], batch, For(batch, k))
             /\ receipts[k] # NoReceipt =>
              /\ receipts[k].presented  => receipts'[k].presented
              /\ receipts[k].referenced => receipts'[k].referenced
              /\ receipts[k].used       => receipts'[k].used
              /\ receipts[k].outcome # NoOutcome => receipts'[k].outcome # NoOutcome
              /\ receipts'[k].consumed >= receipts[k].consumed
             /\ k[1] \in recall_traces
  <2>1. receipts'[k] = Merged(receipts[k], batch, For(batch, k))
    BY <1>1, <1>7
  <2>2. For(batch, k) \in SUBSET DOMAIN batch
    BY DEF For
  <2>3. receipts[k] \in GoodRow \cup {NoReceipt}
    BY <1>4
  <2>4. k[1] \in recall_traces
    BY <1>1, <1>7 DEF TracesStored, For
  <2> QED
    BY <1>3, <1>7, <2>1, <2>2, <2>3, <2>4, MergedFacts
<1>8. \A k \in Keys : For(batch, k) = {} => receipts'[k] = receipts[k]
  BY <1>1
<1>9. \A x \in GoodRow : x # NoReceipt /\ x.consumed \in Int
  BY NamesAssumption DEF GoodRow, Row, Instants
<1>10. receipts' \in [Keys -> GoodRow \cup {NoReceipt}]
  <2>1. receipts' = [k \in Keys |-> receipts'[k]]
    BY <1>1
  <2> QED
    BY <1>4, <1>7, <1>8, <2>1
<1>11. \A k \in Keys : receipts'[k] # NoReceipt => k[1] \in recall_traces'
  BY <1>1, <1>7, <1>8 DEF IInv, ReceiptsHaveTraces
<1>12. IInv'
  BY <1>1, <1>6, <1>10, <1>11, EndOK DEF IInv, Types, TypeOK, counts, InSeq
<1>13. \A k \in Keys : receipts[k] # NoReceipt =>
              /\ receipts'[k] # NoReceipt
              /\ receipts[k].presented  => receipts'[k].presented
              /\ receipts[k].referenced => receipts'[k].referenced
              /\ receipts[k].used       => receipts'[k].used
              /\ receipts[k].outcome # NoOutcome => receipts'[k].outcome # NoOutcome
              /\ receipts'[k].consumed >= receipts[k].consumed
  BY <1>4, <1>7, <1>8, <1>9
<1> QED
  BY <1>12, <1>13

(* The maintenance deletes receipts by age, and traces with their receipts. *)
LEMMA PruneOK ==
  ASSUME IInv, Prune \/ PruneFails
  PROVE  /\ IInv'
         /\ \A k \in Keys : receipts[k] # NoReceipt =>
              \/ receipts'[k] = receipts[k]
              \/ receipts'[k] = NoReceipt /\ (OldReceipt(k) \/ served[k[1]] < Cutoff)
<1>1. /\ threads' = [threads EXCEPT ![Maintainer] = Idle]
      /\ UNCHANGED <<trace_buffer, access_count, now, served, crashes>>
  BY DEF Prune, PruneFails, counts
<1>2. receipts \in [Keys -> GoodRow \cup {NoReceipt}]
  BY DEF IInv, Types, TypeOK, GoodRow
<1>3. CASE Prune
  <2>1. /\ recall_traces' = recall_traces \ Old
        /\ receipts' = [k \in Keys |-> IF OldReceipt(k) \/ k[1] \in Old
                                        THEN NoReceipt ELSE receipts[k]]
        /\ gone' = gone \cup Old
        /\ UNCHANGED failures
    BY <1>3 DEF Prune, counts
  <2>2. Old \subseteq Traces /\ \A t \in Old : served[t] < Cutoff
    BY DEF Old, IInv, Types, TypeOK
  <2> HIDE DEF Old
  <2>3. receipts' \in [Keys -> GoodRow \cup {NoReceipt}]
    BY <1>2, <2>1
  <2>4. \A k \in Keys : receipts'[k] # NoReceipt => k[1] \in recall_traces'
    BY <2>1 DEF IInv, ReceiptsHaveTraces
  <2>5. gone' \subseteq Traces
    BY <2>1, <2>2 DEF IInv, Types, TypeOK
  <2>6. Maintainer \in Threads
    BY DEF Threads
  <2>7. IInv'
    BY <1>1, <2>1, <2>3, <2>4, <2>5, <2>6, EndOK DEF IInv, Types, TypeOK
  <2>8. \A k \in Keys : receipts[k] # NoReceipt =>
              \/ receipts'[k] = receipts[k]
              \/ receipts'[k] = NoReceipt /\ (OldReceipt(k) \/ served[k[1]] < Cutoff)
    BY <2>1, <2>2
  <2> QED
    BY <2>7, <2>8
<1>4. CASE PruneFails
  <2>1. /\ receipts' = [k \in Keys |-> IF OldReceipt(k) THEN NoReceipt
                                        ELSE receipts[k]]
        /\ failures < MaxFailures /\ failures' = failures + 1
        /\ UNCHANGED <<recall_traces, gone>>
    BY <1>4 DEF PruneFails
  <2>2. receipts' \in [Keys -> GoodRow \cup {NoReceipt}]
    BY <1>2, <2>1
  <2>3. \A k \in Keys : receipts'[k] # NoReceipt => k[1] \in recall_traces'
    BY <2>1 DEF IInv, ReceiptsHaveTraces
  <2>4. failures' \in 0..MaxFailures
    BY <2>1, BoundsAreNaturals DEF IInv, Types, TypeOK
  <2>5. Maintainer \in Threads
    BY DEF Threads
  <2>6. IInv'
    BY <1>1, <2>1, <2>2, <2>3, <2>4, <2>5, EndOK DEF IInv, Types, TypeOK
  <2>7. \A k \in Keys : receipts[k] # NoReceipt =>
              \/ receipts'[k] = receipts[k]
              \/ receipts'[k] = NoReceipt /\ (OldReceipt(k) \/ served[k[1]] < Cutoff)
    BY <2>1
  <2> QED
    BY <2>6, <2>7
<1> QED
  BY <1>3, <1>4

(* A failed flush loses its batch or puts it back; a refusal loses nothing. *)
LEMMA FailuresOK ==
  ASSUME IInv, NEW p \in Threads,
         InsertFails(p) \/ CommitFails(p) \/ RefuseReceipts(p)
  PROVE  IInv' /\ UNCHANGED tables
<1>1. /\ threads' = [threads EXCEPT ![p] = Idle]
      /\ UNCHANGED tables
      /\ UNCHANGED <<now, served, crashes>>
  BY DEF InsertFails, CommitFails, RefuseReceipts, counts
<1>2. threads[p] # Idle
  BY DEF InsertFails, CommitFails, RefuseReceipts, Flushing, Recording
<1>3. threads[p] \in Thread /\ trace_buffer \in Seq(Traces)
  BY <1>2 DEF IInv, Types, TypeOK
<1>4. /\ threads[p].batch \in Seq(Traces)
      /\ InBatch(p) = InSeq(threads[p].batch)
      /\ InBatch(p) \subseteq Traces
  BY <1>2, <1>3, InSequences DEF Thread, InBatch
<1>5. /\ trace_buffer' \in Seq(Traces)
      /\ InSeq(trace_buffer') \subseteq InSeq(trace_buffer) \cup InBatch(p)
  <2>1. CASE InsertFails(p)
    BY <1>3, <1>4, <2>1, InConcatenation DEF InsertFails
  <2>2. CASE ~InsertFails(p)
    <3>1. trace_buffer' = trace_buffer
      BY <2>2 DEF CommitFails, RefuseReceipts
    <3> QED
      BY <1>3, <3>1
  <2> QED
    BY <2>1, <2>2
<1>6. gone' \subseteq Traces
  BY <1>4 DEF InsertFails, CommitFails, RefuseReceipts, IInv, Types, TypeOK
<1>7. failures' \in 0..MaxFailures
  BY BoundsAreNaturals
     DEF InsertFails, CommitFails, RefuseReceipts, counts, IInv, Types, TypeOK
<1>8. /\ receipts' \in [Keys -> GoodRow \cup {NoReceipt}]
      /\ \A k \in Keys : receipts'[k] # NoReceipt => k[1] \in recall_traces'
      /\ recall_traces' \subseteq recall_traces
      /\ access_count' \in [Memories -> 0..MaxAccess]
  BY <1>1 DEF tables, IInv, Types, TypeOK, GoodRow, ReceiptsHaveTraces
<1>9. now' \in Instants /\ crashes' \in 0..MaxCrashes
  BY <1>1 DEF IInv, Types, TypeOK
<1> QED
  BY <1>1, <1>5, <1>6, <1>7, <1>8, <1>9, EndOK

(* A step that leaves the traces where they are keeps the invariant when it *)
(* keeps the types.                                                         *)
LEMMA NothingMoves ==
  ASSUME IInv, TypeOK',
         UNCHANGED <<trace_buffer, threads, recall_traces, receipts, served>>
  PROVE  IInv'
<1>1. \A q \in Threads : InBatch(q)' = InBatch(q)
  BY DEF InBatch
<1>2. InSeq(trace_buffer)' = InSeq(trace_buffer)
  OBVIOUS
<1>3. Types'
  BY DEF IInv, Types
<1>4. Placed'
  BY <1>1, <1>2 DEF IInv, Placed
<1>5. ReceiptsHaveTraces'
  BY DEF IInv, ReceiptsHaveTraces
<1> QED
  BY <1>3, <1>4, <1>5 DEF IInv

(* A crash empties the memory, and the clock and memory.get leave it.       *)
LEMMA OutsideOK ==
  ASSUME IInv, Crash \/ Tick \/ \E m \in Memories : Touch(m)
  PROVE  IInv' /\ UNCHANGED <<recall_traces, receipts>>
<1>1. CASE Crash
  <2>1. /\ trace_buffer' = <<>> /\ threads' = [q \in Threads |-> Idle]
        /\ crashes < MaxCrashes /\ crashes' = crashes + 1
        /\ gone' = gone \cup InMemory
        /\ UNCHANGED <<recall_traces, receipts, access_count, now, served, failures>>
    BY <1>1 DEF Crash, tables
  <2>2. InMemory \subseteq Traces
    BY InSequences DEF InMemory, IInv, Types, TypeOK, Thread
  <2>3. crashes' \in 0..MaxCrashes
    BY <2>1, BoundsAreNaturals DEF IInv, Types, TypeOK
  <2>4. trace_buffer' \in Seq(Traces)
    BY <2>1
  <2> HIDE DEF InMemory
  <2>5. TypeOK'
    BY <2>1, <2>2, <2>3, <2>4 DEF IInv, Types, TypeOK
  <2>6. \A q \in Threads : InBatch(q)' = {}
    BY <2>1 DEF InBatch
  <2>7. InSeq(trace_buffer)' = {}
    BY <2>1, InSequences
  <2> QED
    BY <2>1, <2>5, <2>6, <2>7 DEF IInv, Types, Placed, ReceiptsHaveTraces
<1>2. CASE Tick
  <2>1. now' \in Instants
    BY <1>2, BoundsAreNaturals DEF Tick, Instants, IInv, Types, TypeOK
  <2>2. UNCHANGED <<trace_buffer, threads, recall_traces, receipts, access_count,
                    served, gone, failures, crashes>>
    BY <1>2 DEF Tick, tables, counts
  <2>3. TypeOK'
    BY <2>1, <2>2 DEF IInv, Types, TypeOK
  <2> QED
    BY <2>2, <2>3, NothingMoves
<1>3. ASSUME NEW m \in Memories, Touch(m)
      PROVE  IInv' /\ UNCHANGED <<recall_traces, receipts>>
  <2>1. access_count' \in [Memories -> 0..MaxAccess]
    BY <1>3, BoundsAreNaturals DEF Touch, IInv, Types, TypeOK
  <2>2. UNCHANGED <<trace_buffer, threads, recall_traces, receipts, now,
                    served, gone, failures, crashes>>
    BY <1>3 DEF Touch, counts
  <2>3. TypeOK'
    BY <2>1, <2>2 DEF IInv, Types, TypeOK
  <2> QED
    BY <2>2, <2>3, NothingMoves
<1> QED
  BY <1>1, <1>2, <1>3

-----------------------------------------------------------------------------
(* The theorems                                                             *)

(* What becomes of a receipt in one step.                                   *)
Kept(k) ==
  receipts[k] # NoReceipt =>
    \/ receipts'[k] = NoReceipt /\ (OldReceipt(k) \/ served[k[1]] < Cutoff)
    \/ /\ receipts'[k] # NoReceipt
       /\ receipts[k].presented  => receipts'[k].presented
       /\ receipts[k].referenced => receipts'[k].referenced
       /\ receipts[k].used       => receipts'[k].used
       /\ receipts[k].outcome # NoOutcome => receipts'[k].outcome # NoOutcome
       /\ receipts'[k].consumed >= receipts[k].consumed

(* Every step keeps the invariant, and every receipt as Kept says.          *)
LEMMA IInvNext == IInv /\ [Next]_vars => IInv' /\ \A k \in Keys : Kept(k)
<1> SUFFICES ASSUME IInv, [Next]_vars
             PROVE  IInv' /\ \A k \in Keys : Kept(k)
  OBVIOUS
<1>0. \A k \in Keys : receipts[k] # NoReceipt => receipts[k].consumed \in Int
  BY DEF IInv, Types, TypeOK, Row, Instants
<1>1. UNCHANGED receipts => \A k \in Keys : Kept(k)
  BY <1>0 DEF Kept
<1>2. ASSUME NEW t \in Traces, Serve(t)
      PROVE  IInv' /\ UNCHANGED receipts
  BY <1>2, ServeOK DEF Serve, tables
<1>3. ASSUME NEW p \in Threads, StartFlush(p)
      PROVE  IInv' /\ UNCHANGED receipts
  <2>1. Drain(p, "flush", <<>>) /\ "flush" \in Calls
    BY <1>3 DEF StartFlush, Calls
  <2>2. <<>> \in Batches \cup {<<>>} /\ DOMAIN <<>> = {}
    OBVIOUS
  <2> QED
    BY <2>1, <2>2, DrainOK DEF Drain, tables
<1>4. ASSUME StartMaintenance
      PROVE  IInv' /\ UNCHANGED receipts
  <2>1. Drain(Maintainer, "maintain", <<>>) /\ "maintain" \in Calls
        /\ Maintainer \in Threads
    BY <1>4 DEF StartMaintenance, Calls, Threads
  <2>2. <<>> \in Batches \cup {<<>>} /\ DOMAIN <<>> = {}
    OBVIOUS
  <2> QED
    BY <2>1, <2>2, DrainOK DEF Drain, tables
<1>5. ASSUME NEW p \in Workers, NEW sent \in Batches, StartRecord(p, sent)
      PROVE  IInv' /\ UNCHANGED receipts
  <2>1. Drain(p, "record", sent) /\ "record" \in Calls /\ p \in Threads
        /\ \A i \in DOMAIN sent : Valid(sent[i])
    BY <1>5 DEF StartRecord, Calls, Threads
  <2> QED
    BY <2>1, DrainOK DEF Drain, tables
<1>6. ASSUME NEW p \in Threads, FlushCommits(p)
      PROVE  IInv' /\ UNCHANGED receipts
  BY <1>6, FlushOK
<1>7. ASSUME NEW p \in Threads,
             InsertFails(p) \/ CommitFails(p) \/ RefuseReceipts(p)
      PROVE  IInv' /\ UNCHANGED receipts
  BY <1>7, FailuresOK DEF tables
<1>8. ASSUME NEW p \in Threads, Record(p)
      PROVE  IInv' /\ \A k \in Keys : Kept(k)
  BY <1>8, RecordOK DEF Kept
<1>9. CASE Prune \/ PruneFails
  <2> IInv' /\ \A k \in Keys : receipts[k] # NoReceipt =>
              \/ receipts'[k] = receipts[k]
              \/ receipts'[k] = NoReceipt /\ (OldReceipt(k) \/ served[k[1]] < Cutoff)
    BY <1>9, PruneOK
  <2> QED
    BY <1>0 DEF Kept
<1>10. CASE Crash \/ Tick \/ \E m \in Memories : Touch(m)
  BY <1>1, <1>10, OutsideOK
<1>11. CASE UNCHANGED vars
  <2>1. UNCHANGED <<trace_buffer, threads, recall_traces, receipts, access_count,
                    now, served, gone, failures, crashes>>
    BY <1>11 DEF vars, tables, counts
  <2>2. TypeOK'
    BY <2>1 DEF IInv, Types, TypeOK
  <2>3. IInv'
    BY <2>1, <2>2, NothingMoves
  <2> QED
    BY <1>1, <2>1, <2>3
<1> QED
  BY <1>1, <1>2, <1>3, <1>4, <1>5, <1>6, <1>7, <1>8, <1>9, <1>10, <1>11
     DEF Next

(* TypeOK for any number of threads and failures: no sequence of receipts   *)
(* leaves a memory used that was not presented.                             *)
THEOREM TraceTypeCorrect == Spec => []TypeOK
<1>1. IInv => TypeOK
  BY DEF IInv, Types
<1>2. IInv /\ [Next]_vars => IInv'
  BY IInvNext
<1> QED
  BY <1>1, <1>2, IInvInit, PTL DEF Spec

(* ReceiptsHaveTraces: the prune of traces takes their receipts along, and  *)
(* no receipt is stored before its trace.                                   *)
THEOREM ReceiptsHaveTracesCorrect == Spec => []ReceiptsHaveTraces
<1>1. IInv => ReceiptsHaveTraces
  BY DEF IInv
<1>2. IInv /\ [Next]_vars => IInv'
  BY IInvNext
<1> QED
  BY <1>1, <1>2, IInvInit, PTL DEF Spec

(* ReceiptsAreKept: a trace is in one place only, so no flush ever replaces *)
(* a stored trace and with it deletes the receipts.                         *)
THEOREM ReceiptsKeptCorrect == Spec => ReceiptsAreKept
<1>1. IInv /\ [Next]_vars =>
        [\A k \in Keys : receipts[k] # NoReceipt /\ receipts'[k] = NoReceipt
           => OldReceipt(k) \/ served[k[1]] < Cutoff]_vars
  BY IInvNext DEF Kept
<1>2. IInv /\ [Next]_vars => IInv'
  BY IInvNext
<1> QED
  BY <1>1, <1>2, IInvInit, PTL DEF Spec, ReceiptsAreKept

(* ReceiptsAreMonotonic, whatever order the receipts of a turn come in and  *)
(* however often they are repeated.                                         *)
THEOREM ReceiptsMonotonicCorrect == Spec => ReceiptsAreMonotonic
<1>1. IInv /\ [Next]_vars =>
        [\A k \in Keys : receipts[k] # NoReceipt /\ receipts'[k] # NoReceipt =>
           /\ receipts[k].presented  => receipts'[k].presented
           /\ receipts[k].referenced => receipts'[k].referenced
           /\ receipts[k].used       => receipts'[k].used
           /\ receipts[k].outcome # NoOutcome => receipts'[k].outcome # NoOutcome
           /\ receipts'[k].consumed >= receipts[k].consumed]_vars
  BY IInvNext DEF Kept
<1>2. IInv /\ [Next]_vars => IInv'
  BY IInvNext
<1> QED
  BY <1>1, <1>2, IInvInit, PTL DEF Spec, ReceiptsAreMonotonic

-----------------------------------------------------------------------------
(* Every trace in exactly one place.                                        *)

(* No trace twice in a sequence.                                            *)
Distinct(s) == \A i, j \in DOMAIN s : s[i] = s[j] => i = j

(* A trace that is not in the sequence may be appended.                     *)
LEMMA DistinctAppend ==
  ASSUME NEW s \in Seq(Traces), Distinct(s), NEW t \in Traces, t \notin InSeq(s)
  PROVE  Distinct(Append(s, t))
<1>1. /\ DOMAIN Append(s, t) = 1..Len(s) + 1
      /\ Append(s, t)[Len(s) + 1] = t
      /\ \A i \in 1..Len(s) : Append(s, t)[i] = s[i]
      /\ DOMAIN s = 1..Len(s) /\ Len(s) \in Nat
  OBVIOUS
<1>2. \A i \in 1..Len(s) : s[i] # t
  BY <1>1 DEF InSeq
<1>3. \A i \in 1..Len(s) + 1 : i \in 1..Len(s) \/ i = Len(s) + 1
  BY <1>1
<1> QED
  BY <1>1, <1>2, <1>3 DEF Distinct

(* The head is nowhere else.                                                *)
LEMMA DistinctTail ==
  ASSUME NEW s \in Seq(Traces), Distinct(s), Len(s) > 0
  PROVE  Distinct(Tail(s)) /\ InSeq(Tail(s)) = InSeq(s) \ {Head(s)}
<1>1. /\ DOMAIN Tail(s) = 1..Len(s) - 1
      /\ \A i \in 1..Len(s) - 1 : Tail(s)[i] = s[i + 1]
      /\ Head(s) = s[1]
      /\ DOMAIN s = 1..Len(s) /\ Len(s) \in Nat
  OBVIOUS
<1>2. \A i \in 1..Len(s) - 1 : i + 1 \in 1..Len(s) /\ i + 1 # 1
  BY <1>1
<1>3. \A i \in 1..Len(s) : i # 1 => i - 1 \in 1..Len(s) - 1 /\ (i - 1) + 1 = i
  BY <1>1
<1>4. \A i, j \in 1..Len(s) - 1 : i + 1 = j + 1 => i = j
  BY <1>1
<1>5. Distinct(Tail(s))
  BY <1>1, <1>2, <1>4 DEF Distinct
<1>6. \A x : x \in InSeq(Tail(s)) => x \in InSeq(s) /\ x # Head(s)
  <2> SUFFICES ASSUME NEW i \in 1..Len(s) - 1
               PROVE  s[i + 1] \in InSeq(s) /\ s[i + 1] # Head(s)
    BY <1>1 DEF InSeq
  <2>1. 1 \in 1..Len(s)
    BY <1>1
  <2> QED
    BY <1>1, <1>2, <2>1 DEF InSeq, Distinct
<1>7. \A x : x \in InSeq(s) /\ x # Head(s) => x \in InSeq(Tail(s))
  <2> SUFFICES ASSUME NEW i \in 1..Len(s), i # 1
               PROVE  s[i] \in InSeq(Tail(s))
    BY <1>1 DEF InSeq
  <2>1. Tail(s)[i - 1] = s[i] /\ i - 1 \in DOMAIN Tail(s)
    BY <1>1, <1>3
  <2> QED
    BY <2>1 DEF InSeq
<1> QED
  BY <1>5, <1>6, <1>7

(* Two sequences that share nothing may be put one after the other.         *)
LEMMA DistinctConcatenation ==
  ASSUME NEW s \in Seq(Traces), NEW t \in Seq(Traces), Distinct(s), Distinct(t),
         InSeq(s) \cap InSeq(t) = {}
  PROVE  Distinct(s \o t)
<1> DEFINE n == Len(s)
           m == Len(t)
<1>1. /\ DOMAIN (s \o t) = 1..n + m
      /\ \A i \in 1..n + m : (s \o t)[i] = IF i <= n THEN s[i] ELSE t[i - n]
      /\ DOMAIN s = 1..n /\ n \in Nat
      /\ DOMAIN t = 1..m /\ m \in Nat
  OBVIOUS
<1> HIDE DEF n, m
<1>2. \A i \in 1..n + m : i <= n => i \in 1..n
  BY <1>1
<1>3. \A i \in 1..n + m : ~(i <= n) => i - n \in 1..m
  BY <1>1
<1>4. \A i, j \in 1..n + m : i - n = j - n => i = j
  BY <1>1
<1>5. \A i \in 1..n, j \in 1..m : s[i] # t[j]
  BY <1>1 DEF InSeq
<1> SUFFICES ASSUME NEW i \in 1..n + m, NEW j \in 1..n + m, (s \o t)[i] = (s \o t)[j]
             PROVE  i = j
  BY <1>1 DEF Distinct
<1>6. CASE i <= n /\ j <= n
  BY <1>1, <1>2, <1>6 DEF Distinct
<1>7. CASE ~(i <= n) /\ ~(j <= n)
  <2>1. t[i - n] = t[j - n]
    BY <1>1, <1>7
  <2>2. i - n = j - n
    BY <1>1, <1>3, <1>7, <2>1 DEF Distinct
  <2> QED
    BY <1>4, <2>2
<1>8. CASE i <= n /\ ~(j <= n)
  BY <1>1, <1>2, <1>3, <1>5, <1>8
<1>9. CASE ~(i <= n) /\ j <= n
  BY <1>1, <1>2, <1>3, <1>5, <1>9
<1> QED
  BY <1>6, <1>7, <1>8, <1>9

(* The places where a trace is counted once.                                *)
LEMMA CountInSequence ==
  ASSUME NEW s \in Seq(Traces), Distinct(s), NEW t
  PROVE  Times(s, t) = IF t \in InSeq(s) THEN 1 ELSE 0
<1>1. CASE t \in InSeq(s)
  <2>1. PICK i \in DOMAIN s : s[i] = t
    BY <1>1 DEF InSeq
  <2>2. {j \in DOMAIN s : s[j] = t} = {i}
    BY <2>1 DEF Distinct
  <2> QED
    BY <1>1, <2>2, FS_Singleton DEF Times
<1>2. CASE t \notin InSeq(s)
  <2>1. {j \in DOMAIN s : s[j] = t} = {}
    BY <1>2 DEF InSeq
  <2> QED
    BY <1>2, <2>1, FS_EmptySet DEF Times
<1> QED
  BY <1>1, <1>2

-----------------------------------------------------------------------------
(* MapThenSumSet where at most one member counts, and counts one.           *)

\* What MapThenSumSet takes next from a set.
Pick(s) == CHOOSE x \in s : TRUE

\* A function that sums over the subsets of S the members that are in H.
Sums(sum, H, S) ==
  sum = [s \in SUBSET S |-> IF s = {} THEN 0
                            ELSE (IF Pick(s) \in H THEN 1 ELSE 0) + sum[s \ {Pick(s)}]]

(* There is such a function, as at most one member counts.                  *)
LEMMA SomeSum ==
  ASSUME NEW S, NEW H, \A p, q \in H : p = q
  PROVE  \E sum : Sums(sum, H, S)
<1> DEFINE one == [s \in SUBSET S |-> IF s \cap H = {} THEN 0 ELSE 1]
<1>1. ASSUME NEW s \in SUBSET S, s # {}
      PROVE  one[s] = (IF Pick(s) \in H THEN 1 ELSE 0) + one[s \ {Pick(s)}]
  <2>1. Pick(s) \in s /\ s \ {Pick(s)} \in SUBSET S
    BY <1>1 DEF Pick
  <2>2. CASE Pick(s) \in H
    <3>1. (s \ {Pick(s)}) \cap H = {} /\ s \cap H # {}
      BY <2>1, <2>2
    <3> QED
      BY <2>1, <2>2, <3>1
  <2>3. CASE Pick(s) \notin H
    <3>1. (s \ {Pick(s)}) \cap H = s \cap H
      BY <2>1, <2>3
    <3> QED
      BY <2>1, <2>3, <3>1
  <2> QED
    BY <2>2, <2>3
<1>2. one[{}] = 0
  OBVIOUS
<1>3. Sums(one, H, S)
  BY <1>1, <1>2 DEF Sums
<1> QED
  BY <1>3

(* And every such function finds the member that counts.                    *)
LEMMA SumFindsOne ==
  ASSUME NEW S, IsFiniteSet(S), NEW H, \A p, q \in H : p = q,
         NEW sum, Sums(sum, H, S)
  PROVE  sum[S] = IF S \cap H = {} THEN 0 ELSE 1
<1> DEFINE Bad == {s \in SUBSET S : sum[s] # IF s \cap H = {} THEN 0 ELSE 1}
           R == StrictSubsetOrdering(S)
<1>1. IsWellFoundedOn(R, SUBSET S)
  BY FS_StrictSubsetOrderingWellFounded, FS_FiniteSubsetsOfFinite
<1>2. Bad \subseteq SUBSET S
  OBVIOUS
<1>3. SUFFICES ASSUME Bad # {} PROVE FALSE
  OBVIOUS
<1>4. PICK s \in Bad : \A t \in Bad : ~(<<t, s>> \in R)
  <2> HIDE DEF Bad, R
  <2> QED
    BY <1>1, <1>2, <1>3, WFMin
<1>5. s # {}
  BY DEF Sums
<1>6. Pick(s) \in s
  BY <1>5 DEF Pick
<1> DEFINE t == s \ {Pick(s)}
<1>7. t \in SUBSET S /\ <<t, s>> \in R
  BY <1>6 DEF StrictSubsetOrdering
<1>8. sum[t] = IF t \cap H = {} THEN 0 ELSE 1
  BY <1>4, <1>7
<1>9. sum[s] = (IF Pick(s) \in H THEN 1 ELSE 0) + sum[t]
  BY <1>5 DEF Sums
<1>10. sum[s] = IF s \cap H = {} THEN 0 ELSE 1
  <2>1. CASE Pick(s) \in H
    <3>1. t \cap H = {} /\ s \cap H # {}
      BY <1>6, <2>1
    <3> QED
      BY <1>8, <1>9, <2>1, <3>1
  <2>2. CASE Pick(s) \notin H
    <3>1. t \cap H = s \cap H
      BY <1>6, <2>2
    <3> QED
      BY <1>8, <1>9, <2>2, <3>1
  <2> QED
    BY <2>1, <2>2
<1> QED
  BY <1>10

(* The threads are as many as the daemon started.                           *)
LEMMA ThreadsAreFinite == IsFiniteSet(Threads)
<1>1. IsFiniteSet(Workers \cup {Maintainer})
  BY SizesAssumption, FS_AddElement
<1> QED
  BY <1>1 DEF Threads

\* How often a trace is in the batch of a thread.
Carries(p, t) == IF threads[p] = Idle THEN 0 ELSE Times(threads[p].batch, t)

(* The threads carry a trace once, or not at all.                           *)
LEMMA CountInBatches ==
  ASSUME NEW t,
         \A p \in Threads : Carries(p, t) = IF t \in InBatch(p) THEN 1 ELSE 0,
         \A p, q \in Threads : t \in InBatch(p) /\ t \in InBatch(q) => p = q
  PROVE  Carried(t) = IF \E p \in Threads : t \in InBatch(p) THEN 1 ELSE 0
<1> DEFINE H == {p \in Threads : t \in InBatch(p)}
           Adds(sum) == sum = [s \in SUBSET Threads |-> IF s = {} THEN 0
                                 ELSE Carries(Pick(s), t) + sum[s \ {Pick(s)}]]
           chosen == CHOOSE sum : Adds(sum)
<1>1. \A p, q \in H : p = q
  OBVIOUS
<1>2. \A s \in SUBSET Threads : s # {} =>
        Carries(Pick(s), t) = IF Pick(s) \in H THEN 1 ELSE 0
  BY DEF Pick
<1>3. ASSUME NEW sum PROVE Adds(sum) <=> Sums(sum, H, Threads)
  <2> HIDE DEF H
  <2> QED
    BY <1>2 DEF Sums
<1> HIDE DEF H
<1>4. \E sum : Sums(sum, H, Threads)
  BY <1>1, SomeSum
<1>5. Adds(chosen)
  <2>1. \E sum : Adds(sum)
    BY <1>3, <1>4
  <2> HIDE DEF Adds
  <2> QED
    BY <2>1
<1>6. Sums(chosen, H, Threads)
  <2> HIDE DEF chosen, Adds
  <2> QED
    BY <1>3, <1>5
<1>7. chosen[Threads] = IF Threads \cap H = {} THEN 0 ELSE 1
  <2> HIDE DEF chosen
  <2> QED
    BY <1>1, <1>6, ThreadsAreFinite, SumFindsOne
<1>8. Carried(t) = chosen[Threads]
  BY DEF Carried, MapThenSumSet, MapThenFoldSet, Pick, Carries
<1>9. Threads \cap H = {} <=> ~ \E p \in Threads : t \in InBatch(p)
  BY DEF H
<1> QED
  BY <1>7, <1>8, <1>9

-----------------------------------------------------------------------------
(* The invariant: with Placed, every answered trace has one place.           *)

(* No sequence repeats a trace.                                              *)
Unrepeated ==
  /\ Distinct(trace_buffer)
  /\ \A p \in Threads : threads[p] # Idle => Distinct(threads[p].batch)

(* A trace that is gone is nowhere else, and an answered one is somewhere.   *)
Settled ==
  /\ \A t \in gone : /\ served[t] # Unserved
                      /\ t \notin InSeq(trace_buffer)
                      /\ t \notin recall_traces
                      /\ \A p \in Threads : t \notin InBatch(p)
  /\ \A t \in Traces : served[t] # Unserved =>
       \/ t \in InSeq(trace_buffer)
       \/ t \in recall_traces
       \/ t \in gone
       \/ \E p \in Threads : t \in InBatch(p)

Accounts == Unrepeated /\ Settled

(* The invariant is what TracesAreAccountedFor counts.                       *)
LEMMA AccountsCount == IInv /\ Accounts => TracesAreAccountedFor
<1> SUFFICES ASSUME IInv, Accounts, NEW t \in Traces
             PROVE  Times(trace_buffer, t) + Carried(t)
          + ((IF t \in recall_traces THEN 1 ELSE 0)
          + (IF t \in gone THEN 1 ELSE 0)) = IF served[t] = Unserved THEN 0 ELSE 1
  BY DEF TracesAreAccountedFor
<1>1. Times(trace_buffer, t) = IF t \in InSeq(trace_buffer) THEN 1 ELSE 0
  BY CountInSequence DEF IInv, Types, TypeOK, Accounts, Unrepeated
<1>2. ASSUME NEW p \in Threads
      PROVE  Carries(p, t) = IF t \in InBatch(p) THEN 1 ELSE 0
  <2>1. CASE threads[p] = Idle
    BY <2>1 DEF Carries, InBatch
  <2>2. CASE threads[p] # Idle
    <3>1. threads[p].batch \in Seq(Traces) /\ Distinct(threads[p].batch)
      BY <2>2 DEF IInv, Types, TypeOK, Thread, Accounts, Unrepeated
    <3> QED
      BY <2>2, <3>1, CountInSequence DEF Carries, InBatch
  <2> QED
    BY <2>1, <2>2
<1>3. \A p, q \in Threads : t \in InBatch(p) /\ t \in InBatch(q) => p = q
  BY DEF IInv, Placed
<1>4. Carried(t) = IF \E p \in Threads : t \in InBatch(p) THEN 1 ELSE 0
  BY <1>2, <1>3, CountInBatches
<1> DEFINE buffered == t \in InSeq(trace_buffer)
           carried  == \E p \in Threads : t \in InBatch(p)
           stored   == t \in recall_traces
           left     == t \in gone
           answered == served[t] # Unserved
<1>5. /\ answered <=> buffered \/ carried \/ stored \/ left
      /\ ~(buffered /\ carried) /\ ~(buffered /\ stored) /\ ~(buffered /\ left)
      /\ ~(carried /\ stored) /\ ~(carried /\ left) /\ ~(stored /\ left)
  BY DEF IInv, Placed, Accounts, Settled
<1>6. (IF buffered THEN 1 ELSE 0) + (IF carried THEN 1 ELSE 0)
        + ((IF stored THEN 1 ELSE 0) + (IF left THEN 1 ELSE 0))
        = IF answered THEN 1 ELSE 0
  <2> HIDE DEF buffered, carried, stored, left, answered
  <2> QED
    BY <1>5
<1> QED
  BY <1>1, <1>4, <1>6

(* Nothing is answered at the start, and nothing is anywhere.                *)
LEMMA AccountsInit == Init => Accounts
<1> SUFFICES ASSUME Init PROVE Accounts
  OBVIOUS
<1>1. DOMAIN trace_buffer = {} /\ \A p \in Threads : threads[p] = Idle
  BY DEF Init
<1> QED
  BY <1>1 DEF Init, Accounts, Unrepeated, Distinct, Settled

(* A step that takes thread p off its call: its batch goes where it goes as  *)
(* a whole, and what was in the table may go.                                *)
LEMMA EndAccounts ==
  ASSUME IInv, Accounts, NEW p \in Threads, NEW th \in Thread \cup {Idle},
         th = Idle \/ th.batch = <<>>,
         threads' = [threads EXCEPT ![p] = th],
         UNCHANGED served,
         Distinct(trace_buffer'),
         gone' \subseteq Traces, recall_traces' \subseteq Traces,
         InSeq(trace_buffer) \subseteq InSeq(trace_buffer'),
         gone \subseteq gone',
         InSeq(trace_buffer') \cup recall_traces' \cup gone'
           = InSeq(trace_buffer) \cup recall_traces \cup gone \cup InBatch(p),
         InSeq(trace_buffer') \cap gone' = {},
         recall_traces' \cap gone' = {}
  PROVE  Accounts'
<1>1. threads \in [Threads -> Thread \cup {Idle}]
  BY DEF IInv, Types, TypeOK
<1>2. /\ \A q \in Threads \ {p} : InBatch(q)' = InBatch(q)
      /\ InBatch(p)' = {}
  BY <1>1, BatchAfter, InSequences
<1>3. Unrepeated'
  <2>1. DOMAIN <<>> = {}
    OBVIOUS
  <2>2. \A q \in Threads : threads'[q] # Idle => Distinct(threads'[q].batch)
    <3> SUFFICES ASSUME NEW q \in Threads, threads'[q] # Idle
                 PROVE  Distinct(threads'[q].batch)
      OBVIOUS
    <3>1. CASE q = p
      <4>1. threads'[q].batch = <<>>
        BY <1>1, <3>1
      <4> QED
        BY <2>1, <4>1 DEF Distinct
    <3>2. CASE q # p
      BY <1>1, <3>2 DEF Accounts, Unrepeated
    <3> QED
      BY <3>1, <3>2
  <2> QED
    BY <2>2 DEF Unrepeated, Distinct
<1>4. \A q \in Threads \ {p} : InBatch(q) \cap
         (InSeq(trace_buffer) \cup recall_traces \cup gone \cup InBatch(p)) = {}
  BY DEF IInv, Placed, Accounts, Settled
<1>5. \A t \in InSeq(trace_buffer) \cup recall_traces \cup gone \cup InBatch(p) :
         served[t] # Unserved
  BY DEF IInv, Placed, Accounts, Settled
<1>6. InSeq(trace_buffer)' = InSeq(trace_buffer')
  BY DEF InSeq
<1>7. Settled'
  BY <1>2, <1>4, <1>5, <1>6 DEF Accounts, Settled
<1> QED
  BY <1>3, <1>7 DEF Accounts

(* Serving puts a new trace last, and the oldest out when there is no room.  *)
LEMMA ServeAccounts ==
  ASSUME IInv, Accounts, NEW t \in Traces, Serve(t)
  PROVE  Accounts'
<1>1. /\ served[t] = Unserved
      /\ served' = [served EXCEPT ![t] = now]
      /\ UNCHANGED <<threads, recall_traces>>
  BY DEF Serve, tables
<1>2. /\ trace_buffer \in Seq(Traces) /\ served \in [Traces -> Instants \cup {Unserved}]
      /\ now # Unserved /\ gone \subseteq Traces
      /\ Distinct(trace_buffer)
  BY NamesAssumption DEF IInv, Types, TypeOK, Accounts, Unrepeated
<1>3. /\ t \notin InSeq(trace_buffer) /\ t \notin recall_traces /\ t \notin gone
      /\ \A q \in Threads : t \notin InBatch(q)
  BY <1>1 DEF IInv, Placed, Accounts, Settled
<1>4. PICK out \in SUBSET InSeq(trace_buffer) :
        /\ Distinct(trace_buffer')
        /\ InSeq(trace_buffer') = (InSeq(trace_buffer) \ out) \cup {t}
        /\ gone' = gone \cup out
  <2>1. CASE Len(trace_buffer) >= Capacity
    <3> DEFINE rest == Tail(trace_buffer)
               h == Head(trace_buffer)
    <3>1. Len(trace_buffer) > 0
      BY <1>2, <2>1, BoundsAreNaturals
    <3>2. /\ rest \in Seq(Traces) /\ Distinct(rest)
          /\ InSeq(rest) = InSeq(trace_buffer) \ {h} /\ h \in InSeq(trace_buffer)
      BY <1>2, <3>1, InTail, DistinctTail
    <3>3. trace_buffer' = Append(rest, t) /\ gone' = gone \cup {h}
      BY <2>1 DEF Serve
    <3> HIDE DEF rest, h
    <3>4. t \notin InSeq(rest)
      BY <1>3, <3>2
    <3>5. Distinct(Append(rest, t)) /\ InSeq(Append(rest, t)) = InSeq(rest) \cup {t}
      BY <3>2, <3>4, InAppend, DistinctAppend
    <3>6. {h} \in SUBSET InSeq(trace_buffer)
      BY <3>2
    <3> QED
      BY <3>2, <3>3, <3>5, <3>6
  <2>2. CASE ~(Len(trace_buffer) >= Capacity)
    <3>1. trace_buffer' = Append(trace_buffer, t) /\ gone' = gone
      BY <2>2 DEF Serve
    <3>2. /\ Distinct(Append(trace_buffer, t))
          /\ InSeq(Append(trace_buffer, t)) = InSeq(trace_buffer) \cup {t}
      BY <1>2, <1>3, InAppend, DistinctAppend
    <3>3. {} \in SUBSET InSeq(trace_buffer)
      OBVIOUS
    <3> QED
      BY <3>1, <3>2, <3>3
  <2> QED
    BY <2>1, <2>2
<1>5. Unrepeated'
  <2>1. \A p \in Threads : threads'[p] # Idle => Distinct(threads'[p].batch)
    BY <1>1 DEF Accounts, Unrepeated
  <2> QED
    BY <1>4, <2>1 DEF Unrepeated, Distinct
<1>6. \A q \in Threads : InBatch(q)' = InBatch(q)
  BY <1>1 DEF InBatch
<1>7. /\ \A u \in Traces : u # t => served'[u] = served[u]
      /\ served'[t] # Unserved
  BY <1>1, <1>2
<1>8. /\ InSeq(trace_buffer) \subseteq Traces
      /\ InSeq(trace_buffer)' = InSeq(trace_buffer')
  BY <1>2, InSequences DEF InSeq
<1>9. /\ \A u \in InSeq(trace_buffer) : /\ served[u] # Unserved
                                         /\ u \notin recall_traces
                                         /\ \A q \in Threads : u \notin InBatch(q)
  BY DEF IInv, Placed
<1>10. Settled'
  <2>1. ASSUME NEW u \in gone'
        PROVE  /\ served'[u] # Unserved
               /\ u \notin InSeq(trace_buffer')
               /\ u \notin recall_traces
               /\ \A p \in Threads : u \notin InBatch(p)
    <3>1. u \in gone \cup out /\ u # t /\ u \in Traces
      BY <1>2, <1>3, <1>4, <1>8
    <3>2. u \notin InSeq(trace_buffer')
      BY <1>4, <3>1 DEF Accounts, Settled
    <3>3. served[u] # Unserved
      BY <1>9, <3>1 DEF Accounts, Settled
    <3> QED
      BY <1>4, <1>7, <1>9, <3>1, <3>2, <3>3 DEF Accounts, Settled
  <2>2. ASSUME NEW u \in Traces, served'[u] # Unserved
        PROVE  \/ u \in InSeq(trace_buffer')
               \/ u \in recall_traces
               \/ u \in gone'
               \/ \E p \in Threads : u \in InBatch(p)
    BY <1>4, <1>7, <2>2 DEF Accounts, Settled
  <2> QED
    BY <1>1, <1>6, <1>8, <2>1, <2>2 DEF Settled
<1> QED
  BY <1>5, <1>10 DEF Accounts

(* Draining hands the whole buffer to a thread that had nothing.             *)
LEMMA DrainAccounts ==
  ASSUME IInv, Accounts, NEW p \in Threads, NEW call \in Calls,
         NEW sent \in Batches \cup {<<>>}, Drain(p, call, sent)
  PROVE  Accounts'
<1> DEFINE th == [call |-> call, sent |-> sent, batch |-> trace_buffer]
<1>1. /\ threads[p] = Idle
      /\ threads' = [threads EXCEPT ![p] = th]
      /\ trace_buffer' = <<>>
      /\ UNCHANGED <<recall_traces, served, gone>>
  BY DEF Drain, tables
<1>2. /\ threads \in [Threads -> Thread \cup {Idle}]
      /\ trace_buffer \in Seq(Traces)
  BY DEF IInv, Types, TypeOK
<1>3. th \in Thread /\ th.batch = trace_buffer
  BY <1>2 DEF Thread
<1>4. th # Idle => InSeq(th.batch) = InSeq(trace_buffer)
  BY <1>3
<1> HIDE DEF th
<1>5. /\ \A q \in Threads \ {p} : InBatch(q)' = InBatch(q)
      /\ InBatch(p)' = IF th = Idle THEN {} ELSE InSeq(th.batch)
  BY <1>1, <1>2, BatchAfter
<1>6. InSeq(trace_buffer)' = {} /\ InBatch(p) = {}
  BY <1>1, InSequences DEF InBatch
<1>7. Unrepeated'
  <2>1. Distinct(<<>>)
    BY DEF Distinct
  <2>2. \A q \in Threads : threads'[q] # Idle => Distinct(threads'[q].batch)
    BY <1>1, <1>2, <1>3 DEF Accounts, Unrepeated
  <2> QED
    BY <1>1, <2>1, <2>2 DEF Unrepeated, Distinct
<1>8. InBatch(p)' = InSeq(trace_buffer)
  BY <1>3, <1>5, NamesAssumption
<1>9. Settled'
  BY <1>1, <1>5, <1>6, <1>8 DEF Accounts, Settled
<1> QED
  BY <1>7, <1>9 DEF Accounts

(* A commit stores the batch.                                                *)
LEMMA FlushAccounts ==
  ASSUME IInv, Accounts, NEW p \in Threads, FlushCommits(p)
  PROVE  Accounts'
<1> DEFINE th == IF threads[p].call = "flush" THEN Idle
                 ELSE [call |-> threads[p].call, sent |-> threads[p].sent,
                       batch |-> <<>>]
<1>1. threads \in [Threads -> Thread \cup {Idle}] /\ recall_traces \subseteq Traces
      /\ gone \subseteq Traces
  BY DEF IInv, Types, TypeOK
<1>2. /\ threads[p] # Idle
      /\ recall_traces' = recall_traces \cup InSeq(threads[p].batch)
      /\ threads' = [threads EXCEPT ![p] = th]
      /\ UNCHANGED <<trace_buffer, served, gone>>
  BY <1>1 DEF FlushCommits, Flushing
<1>3. threads[p] \in Thread /\ InBatch(p) = InSeq(threads[p].batch)
  BY <1>1, <1>2 DEF InBatch
<1>4. th \in Thread \cup {Idle} /\ (th = Idle \/ th.batch = <<>>)
  BY <1>3 DEF Thread
<1>5. InBatch(p) \subseteq Traces
  BY <1>3, InSequences DEF Thread
<1> HIDE DEF th
<1>6. /\ InSeq(trace_buffer') = InSeq(trace_buffer)
      /\ Distinct(trace_buffer')
  BY <1>2 DEF Accounts, Unrepeated
<1>7. /\ InSeq(trace_buffer) \cap gone = {}
      /\ (recall_traces \cup InBatch(p)) \cap gone = {}
  BY DEF Accounts, Settled
<1> QED
  BY <1>1, <1>2, <1>3, <1>4, <1>5, <1>6, <1>7, EndAccounts

(* A failed INSERT puts the batch back in front of the buffer, a failed      *)
(* commit loses it, and a refusal has none.                                  *)
LEMMA FailuresAccount ==
  ASSUME IInv, Accounts, NEW p \in Threads,
         InsertFails(p) \/ CommitFails(p) \/ RefuseReceipts(p)
  PROVE  Accounts'
<1>1. /\ threads' = [threads EXCEPT ![p] = Idle]
      /\ UNCHANGED <<recall_traces, served>>
  BY DEF InsertFails, CommitFails, RefuseReceipts, tables
<1>2. threads[p] # Idle
  BY DEF InsertFails, CommitFails, RefuseReceipts, Flushing, Recording
<1>3. /\ threads[p] \in Thread /\ trace_buffer \in Seq(Traces)
      /\ recall_traces \subseteq Traces /\ gone \subseteq Traces
      /\ Distinct(trace_buffer) /\ Distinct(threads[p].batch)
  BY <1>2 DEF IInv, Types, TypeOK, Accounts, Unrepeated
<1>4. /\ threads[p].batch \in Seq(Traces)
      /\ InBatch(p) = InSeq(threads[p].batch)
      /\ InBatch(p) \subseteq Traces
  BY <1>2, <1>3, InSequences DEF Thread, InBatch
<1>5. /\ InSeq(trace_buffer) \cap gone = {} /\ InBatch(p) \cap gone = {}
      /\ recall_traces \cap gone = {}
      /\ InSeq(trace_buffer) \cap InBatch(p) = {}
      /\ recall_traces \cap InBatch(p) = {}
  BY DEF IInv, Placed, Accounts, Settled
<1>6. CASE InsertFails(p)
  <2>1. /\ trace_buffer' = threads[p].batch \o trace_buffer
        /\ UNCHANGED gone
    BY <1>6 DEF InsertFails
  <2>2. /\ InSeq(trace_buffer') = InBatch(p) \cup InSeq(trace_buffer)
        /\ Distinct(trace_buffer')
    BY <1>3, <1>4, <1>5, <2>1, InConcatenation, DistinctConcatenation
  <2> QED
    BY <1>1, <1>3, <1>4, <1>5, <2>1, <2>2, EndAccounts
<1>7. CASE CommitFails(p)
  <2>1. gone' = gone \cup InBatch(p) /\ UNCHANGED trace_buffer
    BY <1>4, <1>7 DEF CommitFails
  <2> QED
    BY <1>1, <1>3, <1>4, <1>5, <2>1, EndAccounts
<1>8. CASE RefuseReceipts(p)
  <2>1. UNCHANGED <<gone, trace_buffer>> /\ threads[p].batch = <<>>
    BY <1>8 DEF RefuseReceipts, Recording
  <2>2. InBatch(p) = {}
    BY <1>4, <2>1, InSequences
  <2> QED
    BY <1>1, <1>3, <1>5, <2>1, <2>2, EndAccounts
<1> QED
  BY <1>6, <1>7, <1>8

(* Recording and pruning hold no batch; a prune takes old traces away.       *)
LEMMA SettledCallsAccount ==
  ASSUME IInv, Accounts, NEW p \in Threads,
         Record(p) \/ (p = Maintainer /\ (Prune \/ PruneFails))
  PROVE  Accounts'
<1>1. /\ threads' = [threads EXCEPT ![p] = Idle]
      /\ UNCHANGED <<trace_buffer, served>>
      /\ threads[p] # Idle /\ threads[p].batch = <<>>
  BY DEF Record, Recording, Prune, PruneFails, Maintaining
<1>2. InBatch(p) = {}
  BY <1>1, InSequences DEF InBatch
<1>3. /\ recall_traces \subseteq Traces /\ gone \subseteq Traces
      /\ Distinct(trace_buffer)
  BY DEF IInv, Types, TypeOK, Accounts, Unrepeated
<1>4. PICK old \in SUBSET recall_traces :
        recall_traces' = recall_traces \ old /\ gone' = gone \cup old
  <2>1. CASE Prune
    <3>1. Old \in SUBSET recall_traces
      BY DEF Old
    <3> QED
      BY <2>1, <3>1 DEF Prune
  <2>2. CASE ~Prune
    <3>1. UNCHANGED <<recall_traces, gone>>
      BY <2>2 DEF Record, PruneFails
    <3>2. {} \in SUBSET recall_traces
      OBVIOUS
    <3> QED
      BY <3>1, <3>2
  <2> QED
    BY <2>1, <2>2
<1>5. /\ InSeq(trace_buffer) \cap gone = {} /\ recall_traces \cap gone = {}
      /\ InSeq(trace_buffer) \cap recall_traces = {}
  BY DEF IInv, Placed, Accounts, Settled
<1> QED
  BY <1>1, <1>2, <1>3, <1>4, <1>5, EndAccounts

(* A crash takes with it what was only in memory.                            *)
LEMMA CrashAccounts ==
  ASSUME IInv, Accounts, Crash
  PROVE  Accounts'
<1>1. /\ trace_buffer' = <<>> /\ threads' = [q \in Threads |-> Idle]
      /\ gone' = gone \cup InMemory
      /\ UNCHANGED <<recall_traces, served>>
  BY DEF Crash, tables
<1>2. \A t : t \in InMemory <=>
        t \in InSeq(trace_buffer) \/ \E p \in Threads : t \in InBatch(p)
  BY DEF InMemory, InBatch
<1> HIDE DEF InMemory
<1>3. \A q \in Threads : InBatch(q)' = {}
  BY <1>1 DEF InBatch
<1>4. InSeq(trace_buffer)' = {}
  BY <1>1, InSequences
<1>5. \A t \in InMemory : served[t] # Unserved /\ t \notin recall_traces
  BY <1>2 DEF IInv, Placed
<1>6. Settled'
  BY <1>1, <1>2, <1>3, <1>4, <1>5 DEF Accounts, Settled
<1>7. Unrepeated'
  <2>1. Distinct(<<>>)
    BY DEF Distinct
  <2> QED
    BY <1>1, <2>1 DEF Unrepeated, Distinct
<1> QED
  BY <1>6, <1>7 DEF Accounts

(* What leaves the traces alone leaves their account.                        *)
LEMMA QuietAccounts ==
  ASSUME Accounts, UNCHANGED <<trace_buffer, threads, recall_traces, served, gone>>
  PROVE  Accounts'
<1>1. \A q \in Threads : InBatch(q)' = InBatch(q)
  BY DEF InBatch
<1>2. InSeq(trace_buffer)' = InSeq(trace_buffer)
  BY DEF InSeq
<1> QED
  BY <1>1, <1>2 DEF Accounts, Unrepeated, Distinct, Settled

(* Every step keeps the account.                                             *)
LEMMA AccountsNext == IInv /\ Accounts /\ [Next]_vars => Accounts'
<1> SUFFICES ASSUME IInv, Accounts, [Next]_vars PROVE Accounts'
  OBVIOUS
<1>1. ASSUME NEW t \in Traces, Serve(t) PROVE Accounts'
  BY <1>1, ServeAccounts
<1>2. ASSUME NEW p \in Threads, StartFlush(p) PROVE Accounts'
  BY <1>2, DrainAccounts DEF StartFlush, Calls
<1>3. CASE StartMaintenance
  BY <1>3, DrainAccounts DEF StartMaintenance, Calls, Threads
<1>4. ASSUME NEW p \in Workers, NEW sent \in Batches, StartRecord(p, sent)
      PROVE  Accounts'
  BY <1>4, DrainAccounts DEF StartRecord, Calls, Threads
<1>5. ASSUME NEW p \in Threads, FlushCommits(p) PROVE Accounts'
  BY <1>5, FlushAccounts
<1>6. ASSUME NEW p \in Threads,
             InsertFails(p) \/ CommitFails(p) \/ RefuseReceipts(p)
      PROVE  Accounts'
  BY <1>6, FailuresAccount
<1>7. ASSUME NEW p \in Threads, Record(p) PROVE Accounts'
  BY <1>7, SettledCallsAccount
<1>8. CASE Prune \/ PruneFails
  BY <1>8, SettledCallsAccount DEF Threads
<1>9. CASE Crash
  BY <1>9, CrashAccounts
<1>10. CASE Tick \/ (\E m \in Memories : Touch(m)) \/ UNCHANGED vars
  <2>1. UNCHANGED <<trace_buffer, threads, recall_traces, served, gone>>
    BY <1>10 DEF Tick, Touch, vars, tables
  <2> QED
    BY <2>1, QuietAccounts
<1> QED
  BY <1>1, <1>2, <1>3, <1>4, <1>5, <1>6, <1>7, <1>8, <1>9, <1>10 DEF Next

(* TracesAreAccountedFor, for any number of threads, failures and crashes:   *)
(* the hand-over of a batch between the buffer, a thread and the table       *)
(* neither loses nor doubles a trace.                                        *)
THEOREM AccountedForCorrect == Spec => []TracesAreAccountedFor
<1>1. Init => IInv /\ Accounts
  BY IInvInit, AccountsInit
<1>2. IInv /\ Accounts /\ [Next]_vars => IInv' /\ Accounts'
  BY IInvNext, AccountsNext
<1> QED
  BY <1>1, <1>2, AccountsCount, PTL DEF Spec
=============================================================================
