---------------------------- MODULE Server_proofs ----------------------------
(* What the transport promises whatever its clients do, for any number of   *)
(* clients and workers and any bounds: a connection has one worker, a frame *)
(* has one deadline, and answers follow the frames.                         *)
EXTENDS Server, WellFoundedInduction, TLAPS

-----------------------------------------------------------------------------
(* Sequences                                                                *)

(* A sequence within its bound, as a function.                              *)
LEMMA BoundedSequences ==
  ASSUME NEW S, NEW n \in Nat, NEW s \in Seq(S), Len(s) <= n
  PROVE  s \in UNION {[1..k -> S] : k \in 0..n}
<1>1. s \in [1..Len(s) -> S] /\ Len(s) \in 0..n
  OBVIOUS
<1> QED
  BY <1>1

(* What a prefix of a sequence holds.                                       *)
LEMMA PrefixFacts ==
  ASSUME NEW S, NEW s \in Seq(S), NEW k \in 0..Len(s)
  PROVE  /\ SubSeq(s, 1, k) \in Seq(S) /\ Len(SubSeq(s, 1, k)) = k
         /\ \A i \in 1..k : SubSeq(s, 1, k)[i] = s[i]
OBVIOUS

(* What the rest of a sequence holds.                                       *)
LEMMA RestFacts ==
  ASSUME NEW S, NEW s \in Seq(S), NEW k \in 0..Len(s)
  PROVE  LET rest == SubSeq(s, k + 1, Len(s))
         IN  /\ rest \in Seq(S) /\ Len(rest) = Len(s) - k
             /\ \A i \in 1..Len(s) - k : rest[i] = s[i + k]
OBVIOUS

(* A chunk up to its newline is a prefix of the chunk.                      *)
LEMMA NewlineFacts ==
  ASSUME NEW chunk \in Seq(Piece), Len(chunk) > 0
  PROVE  \E k \in 1..Len(chunk) : UpToNewline(chunk) = SubSeq(chunk, 1, k)
<1>1. DOMAIN chunk = 1..Len(chunk) /\ Len(chunk) \in Nat
  OBVIOUS
<1>2. CASE \E k \in DOMAIN chunk : chunk[k].last
  <2> DEFINE R    == OpToRel(<, Nat)
             Ends == {k \in 1..Len(chunk) : chunk[k].last}
  <2>1. IsWellFoundedOn(R, Nat)
    BY NatLessThanWellFounded
  <2>2. \A x, y \in Nat : <<y, x>> \in R <=> y < x
    BY DEF OpToRel
  <2>3. Ends \in SUBSET Nat /\ Ends # {}
    BY <1>1, <1>2
  <2> HIDE DEF R
  <2>4. PICK k \in Ends : \A y \in Ends : ~(<<y, k>> \in R)
    BY <2>1, <2>3, WFMin
  <2>5. /\ k \in DOMAIN chunk /\ chunk[k].last
        /\ \A j \in 1..k - 1 : ~chunk[j].last
    <3>1. k \in 1..Len(chunk) /\ chunk[k].last
      OBVIOUS
    <3>2. ASSUME NEW j \in 1..k - 1, chunk[j].last PROVE FALSE
      <4>1. j \in Ends /\ j < k
        BY <1>1, <3>1, <3>2
      <4> QED
        BY <2>2, <2>3, <2>4, <4>1
    <3> QED
      BY <1>1, <3>1, <3>2
  <2> DEFINE e == CHOOSE j \in DOMAIN chunk :
                    chunk[j].last /\ \A i \in 1..j - 1 : ~chunk[i].last
  <2>6. e \in DOMAIN chunk
    BY <2>5
  <2>7. UpToNewline(chunk) = SubSeq(chunk, 1, e)
    BY <1>2 DEF UpToNewline
  <2> QED
    BY <1>1, <2>6, <2>7
<1>3. CASE ~ \E k \in DOMAIN chunk : chunk[k].last
  <2>1. UpToNewline(chunk) = SubSeq(chunk, 1, Len(chunk))
    BY <1>3 DEF UpToNewline
  <2>2. Len(chunk) \in 1..Len(chunk)
    BY <1>1
  <2> QED
    BY <2>1, <2>2
<1> QED
  BY <1>2, <1>3

-----------------------------------------------------------------------------
(* The inductive invariant                                                  *)

ClientRec == [status: {"closed", "queued", "open"}, gone: BOOLEAN,
              stream: Seq(Piece), unfinished: BOOLEAN, sent: 0..MaxFrames,
              awaiting: Seq(Numbers)]

WorkerRec == [stage: {"idle", "receiving", "reading", "handling"},
              conn: Clients \cup {Nobody}, line: Seq(Piece),
              left: 0..Deadline, age: 0..Deadline]

Types ==
  /\ clients \in [Clients -> ClientRec]
  /\ workers \in [Workers -> WorkerRec]
  /\ queue \in Seq(Clients) /\ Len(queue) <= MaxConnections
  /\ receiver \in Workers \cup {Nobody}

\* The pieces of a sequence belong to frames that are still awaited.
Awaited(frames, pieces) ==
  \A i \in 1..Len(pieces) : \E k \in 1..Len(frames) : frames[k] = pieces[i].frame

\* Piece p may come before piece q: nothing follows the end of a frame, and
\* frames come in the order in which they are awaited.
Before(frames, p, q) ==
  /\ p.frame = q.frame => ~p.last
  /\ p.frame # q.frame => /\ Len(frames) = 2
                          /\ frames[1] = p.frame /\ frames[2] = q.frame

InOrder(frames, pieces) ==
  \A i, j \in 1..Len(pieces) : i < j => Before(frames, pieces[i], pieces[j])

\* While a frame is unfinished, none of its pieces is an end.
NoEnd(x, pieces) ==
  x.unfinished => \A i \in 1..Len(pieces) :
                    pieces[i].frame = x.awaiting[Len(x.awaiting)] => ~pieces[i].last

GoodPieces(x, pieces) ==
  Awaited(x.awaiting, pieces) /\ InOrder(x.awaiting, pieces) /\ NoEnd(x, pieces)

GoodClient(x) ==
  /\ Len(x.stream) <= MaxBuffered
  /\ Len(x.awaiting) <= 2
  /\ Len(x.awaiting) = 2 => x.awaiting[1] # x.awaiting[2]
  /\ x.unfinished => x.awaiting # <<>>
  /\ x.status = "closed" => x = NoConnection
  /\ GoodPieces(x, x.stream)

\* What a worker has read of a connection comes before what is to be read.
GoodLine(x, line) ==
  /\ GoodPieces(x, line)
  /\ \A i \in 1..Len(line), j \in 1..Len(x.stream) :
       Before(x.awaiting, line[i], x.stream[j])

GoodWorker(x) ==
  /\ Len(x.line) <= MaxFramePieces
  /\ x.left + x.age <= Deadline
  /\ x.stage \in {"reading", "handling"} <=> x.conn # Nobody
  /\ x.stage = "handling" => Len(x.line) > 0 /\ x.line[Len(x.line)].last

Good ==
  /\ \A c \in Clients : GoodClient(clients[c])
  /\ \A w \in Workers :
       /\ GoodWorker(workers[w])
       /\ workers[w].conn # Nobody =>
            GoodLine(clients[workers[w].conn], workers[w].line)

\* A connection is queued once, or served by one worker.
Assigned ==
  /\ \A c \in Clients :
       /\ clients[c].status = "open" <=> \E w \in Workers : workers[w].conn = c
       /\ clients[c].status = "queued" <=> \E k \in 1..Len(queue) : queue[k] = c
  /\ \A j, k \in 1..Len(queue) : j # k => queue[j] # queue[k]
  /\ \A v, w \in Workers :
       v # w /\ workers[v].conn = workers[w].conn => workers[v].conn = Nobody

IInv == Types /\ Good /\ Assigned

(* The bounds are positive.                                                 *)
LEMMA BoundsAreNaturals ==
  /\ MaxConnections \in Nat \ {0} /\ MaxFramePieces \in Nat \ {0}
  /\ Deadline \in Nat \ {0} /\ MaxBuffered \in Nat \ {0}
  /\ MaxFrames \in Nat /\ Ahead \in [Clients -> 1..2]
  /\ Nobody \notin Clients /\ Nobody \notin Workers
BY ServerAssumption

(* Nobody is connected at the start.                                        *)
LEMMA IInvInit == Init => IInv
<1> SUFFICES ASSUME Init PROVE IInv
  OBVIOUS
<1>1. NoConnection \in ClientRec /\ IdleWorker \in WorkerRec
  BY BoundsAreNaturals DEF NoConnection, IdleWorker, ClientRec, WorkerRec
<1>2. Types
  BY <1>1, BoundsAreNaturals DEF Init, Types
<1>3. GoodClient(NoConnection)
  BY BoundsAreNaturals
     DEF NoConnection, GoodClient, GoodPieces, Awaited, InOrder, NoEnd
<1>4. GoodWorker(IdleWorker) /\ IdleWorker.conn = Nobody
  BY BoundsAreNaturals DEF IdleWorker, GoodWorker
<1>5. Good
  BY <1>3, <1>4 DEF Init, Good
<1>6. Assigned
  BY <1>4, BoundsAreNaturals DEF Init, Assigned, NoConnection
<1> QED
  BY <1>2, <1>5, <1>6 DEF IInv

(* What a client does changes nothing but its own end of its connection.    *)
LEMMA ClientStep ==
  ASSUME IInv, NEW c \in Clients, NEW x \in ClientRec,
         x.status = clients[c].status, GoodClient(x),
         \A line \in Seq(Piece) : GoodLine(clients[c], line) => GoodLine(x, line),
         clients' = [clients EXCEPT ![c] = x],
         UNCHANGED <<queue, receiver, workers>>
  PROVE  IInv'
<1>1. /\ \A d \in Clients : clients'[d].status = clients[d].status
      /\ \A d \in Clients : clients'[d] = IF d = c THEN x ELSE clients[d]
  BY DEF IInv, Types
<1>2. Types'
  BY DEF IInv, Types
<1>3. \A w \in Workers : workers[w].conn # Nobody =>
        workers[w].conn \in Clients /\ workers[w].line \in Seq(Piece)
  BY DEF IInv, Types, WorkerRec
<1>4. Good'
  BY <1>1, <1>3 DEF IInv, Good
<1>5. Assigned'
  BY <1>1 DEF IInv, Assigned
<1> QED
  BY <1>2, <1>4, <1>5 DEF IInv

(* What a worker does with its connection concerns no other connection and  *)
(* no other worker.                                                         *)
LEMMA ServingStep ==
  ASSUME IInv, NEW w \in Workers, workers[w].conn # Nobody,
         NEW x \in ClientRec, x.status = "open", GoodClient(x),
         NEW y \in WorkerRec, y.conn = workers[w].conn, GoodWorker(y),
         GoodLine(x, y.line),
         clients' = [clients EXCEPT ![workers[w].conn] = x],
         workers' = [workers EXCEPT ![w] = y],
         UNCHANGED <<queue, receiver>>
  PROVE  IInv'
<1> DEFINE c == workers[w].conn
<1>1. c \in Clients
  BY DEF IInv, Types, WorkerRec
<1>2. clients[c].status = "open"
  BY <1>1 DEF IInv, Assigned
<1>3. /\ \A d \in Clients : clients'[d] = IF d = c THEN x ELSE clients[d]
      /\ \A v \in Workers : workers'[v] = IF v = w THEN y ELSE workers[v]
      /\ \A d \in Clients : clients'[d].status = clients[d].status
      /\ \A v \in Workers : workers'[v].conn = workers[v].conn
  BY <1>1, <1>2 DEF IInv, Types
<1>4. Types'
  BY <1>1 DEF IInv, Types
<1>5. \A v \in Workers \ {w} : workers[v].conn # Nobody =>
        workers[v].conn \in Clients \ {c}
  BY DEF IInv, Types, WorkerRec, Assigned
<1>6. Good'
  BY <1>1, <1>3, <1>5 DEF IInv, Good
<1>7. Assigned'
  BY <1>3 DEF IInv, Assigned
<1> QED
  BY <1>4, <1>6, <1>7 DEF IInv

(* A worker that closes its connection leaves nothing of it.                *)
LEMMA CloseOK ==
  ASSUME IInv, NEW w \in Workers, workers[w].conn # Nobody, Close(w)
  PROVE  IInv'
<1> DEFINE c == workers[w].conn
<1>1. c \in Clients
  BY DEF IInv, Types, WorkerRec
<1>2. NoConnection \in ClientRec /\ IdleWorker \in WorkerRec
  BY BoundsAreNaturals DEF NoConnection, IdleWorker, ClientRec, WorkerRec
<1>3. GoodClient(NoConnection) /\ NoConnection.status = "closed"
  BY BoundsAreNaturals
     DEF NoConnection, GoodClient, GoodPieces, Awaited, InOrder, NoEnd
<1>4. GoodWorker(IdleWorker) /\ IdleWorker.conn = Nobody
  BY BoundsAreNaturals DEF IdleWorker, GoodWorker
<1>5. /\ \A d \in Clients : clients'[d] = IF d = c THEN NoConnection ELSE clients[d]
      /\ \A v \in Workers : workers'[v] = IF v = w THEN IdleWorker ELSE workers[v]
      /\ queue' = queue
  BY DEF Close, IInv, Types
<1>6. Types'
  BY <1>1, <1>2, BoundsAreNaturals DEF Close, IInv, Types
<1>7. \A v \in Workers \ {w} : workers[v].conn # Nobody =>
        workers[v].conn \in Clients \ {c}
  BY DEF IInv, Types, WorkerRec, Assigned
<1>8. Good'
  BY <1>3, <1>4, <1>5, <1>7 DEF IInv, Good
<1>9. clients[c].status = "open"
  BY <1>1 DEF IInv, Assigned
<1>10. Assigned'
  BY <1>1, <1>3, <1>4, <1>5, <1>7, <1>9, BoundsAreNaturals DEF IInv, Assigned
<1> QED
  BY <1>6, <1>8, <1>10 DEF IInv

-----------------------------------------------------------------------------
(* The queue                                                                *)

(* An accepted connection joins the queue once.                             *)
LEMMA ConnectOK == ASSUME IInv, NEW c \in Clients, Connect(c) PROVE IInv'
<1> DEFINE x == [clients[c] EXCEPT !.status = "queued"]
<1>0. clients[c] = NoConnection /\ clients[c] \in ClientRec
  BY DEF Connect, IInv, Types, Good, GoodClient
<1>1. /\ clients[c] \in ClientRec /\ clients[c].status = "closed"
      /\ clients[c].stream = <<>> /\ clients[c].awaiting = <<>>
      /\ clients[c].unfinished = FALSE
  BY <1>0 DEF NoConnection
<1>2. /\ x \in ClientRec /\ x.status = "queued" /\ x.stream = <<>>
      /\ x.awaiting = <<>> /\ x.unfinished = FALSE
  BY <1>1 DEF ClientRec
<1>3. GoodClient(x)
  BY <1>2, BoundsAreNaturals DEF GoodClient, GoodPieces, Awaited, InOrder, NoEnd
<1>4. clients' = [clients EXCEPT ![c] = x]
  BY DEF Connect
<1> HIDE DEF x
<1>5. /\ \A d \in Clients : clients'[d] = IF d = c THEN x ELSE clients[d]
      /\ UNCHANGED <<receiver, workers>>
      /\ queue' = Append(queue, c) /\ Len(queue) < MaxConnections
      /\ queue \in Seq(Clients)
  BY <1>4 DEF Connect, IInv, Types
<1>6. /\ queue' \in Seq(Clients) /\ Len(queue') = Len(queue) + 1
      /\ queue'[Len(queue) + 1] = c
      /\ \A k \in 1..Len(queue) : queue'[k] = queue[k]
      /\ Len(queue) \in Nat
  BY <1>5
<1>7. Types'
  BY <1>2, <1>4, <1>5, <1>6, BoundsAreNaturals DEF IInv, Types
<1>8. \A w \in Workers : workers[w].conn # c
  BY <1>1 DEF IInv, Assigned
<1>9. \A w \in Workers : workers[w].conn # Nobody => workers[w].conn \in Clients
  BY DEF IInv, Types, WorkerRec
<1>10. Good'
  BY <1>3, <1>5, <1>8, <1>9 DEF IInv, Good
<1>11. \A k \in 1..Len(queue) : queue[k] # c
  BY <1>1 DEF IInv, Assigned
<1>12. Assigned'
  <2>1. \A d \in Clients :
          clients'[d].status = "open" <=> \E w \in Workers : workers'[w].conn = d
    BY <1>2, <1>5, <1>8 DEF IInv, Assigned
  <2>2. ASSUME NEW d \in Clients
        PROVE  clients'[d].status = "queued"
                 <=> \E k \in 1..Len(queue') : queue'[k] = d
    <3>1. CASE d = c
      <4>1. Len(queue) + 1 \in 1..Len(queue')
        BY <1>6
      <4> QED
        BY <1>2, <1>5, <1>6, <3>1, <4>1
    <3>2. CASE d # c
      <4>1. \A k \in 1..Len(queue') : queue'[k] = d => k \in 1..Len(queue)
        BY <1>6, <3>2
      <4>2. \A k \in 1..Len(queue) : k \in 1..Len(queue')
        BY <1>6
      <4>3. clients'[d].status = "queued"
              <=> \E k \in 1..Len(queue) : queue[k] = d
        BY <1>5, <3>2 DEF IInv, Assigned
      <4> QED
        BY <1>6, <4>1, <4>2, <4>3
    <3> QED
      BY <3>1, <3>2
  <2>3. \A j, k \in 1..Len(queue') : j # k => queue'[j] # queue'[k]
    BY <1>6, <1>11 DEF IInv, Assigned
  <2> QED
    BY <1>5, <2>1, <2>2, <2>3 DEF IInv, Assigned
<1> QED
  BY <1>7, <1>10, <1>12 DEF IInv

(* Waiting for the receiver's mutex.                                        *)
LEMMA TakeReceiverOK ==
  ASSUME IInv, NEW w \in Workers, TakeReceiver(w) PROVE IInv'
<1> DEFINE y == [workers[w] EXCEPT !.stage = "receiving"]
<1>1. /\ y \in WorkerRec /\ y.stage = "receiving" /\ y.conn = workers[w].conn
      /\ y.line = workers[w].line /\ y.left = workers[w].left
      /\ y.age = workers[w].age
  BY DEF IInv, Types, WorkerRec
<1>2. workers' = [workers EXCEPT ![w] = y] /\ UNCHANGED <<clients, queue>>
  BY DEF TakeReceiver
<1>3. workers[w].stage = "idle" /\ receiver' = w
  BY DEF TakeReceiver
<1> HIDE DEF y
<1>4. \A v \in Workers : workers'[v] = IF v = w THEN y ELSE workers[v]
  BY <1>2 DEF IInv, Types
<1>5. Types'
  BY <1>1, <1>2, <1>3 DEF IInv, Types
<1>6. GoodWorker(y) /\ y.conn = Nobody
  BY <1>1, <1>3 DEF IInv, Good, GoodWorker
<1>7. Good'
  BY <1>2, <1>4, <1>6 DEF IInv, Good
<1>8. \A v \in Workers : workers'[v].conn = workers[v].conn
  BY <1>1, <1>4
<1>9. Assigned'
  BY <1>2, <1>8 DEF IInv, Assigned
<1> QED
  BY <1>5, <1>7, <1>9 DEF IInv

(* A connection leaves the queue for one worker.                            *)
LEMMA ReceiveOK ==
  ASSUME IInv, NEW w \in Workers, Receive(w) PROVE IInv'
<1> DEFINE c == Head(queue)
           x == [clients[c] EXCEPT !.status = "open"]
           y == Reading(c)
<1>1. /\ queue \in Seq(Clients) /\ Len(queue) \in Nat \ {0}
      /\ c \in Clients /\ c = queue[1]
      /\ queue' = Tail(queue) /\ queue' \in Seq(Clients)
      /\ Len(queue') = Len(queue) - 1
      /\ \A k \in 1..Len(queue') : queue'[k] = queue[k + 1]
  BY DEF Receive, IInv, Types
<1>2. clients[c].status = "queued"
  BY <1>1 DEF IInv, Assigned
<1>3. /\ x \in ClientRec /\ x.status = "open" /\ x.stream = clients[c].stream
      /\ x.awaiting = clients[c].awaiting /\ x.unfinished = clients[c].unfinished
  BY <1>1 DEF IInv, Types, ClientRec
<1>4. GoodClient(x)
  BY <1>1, <1>3 DEF IInv, Good, GoodClient, GoodPieces, NoEnd
<1>5. /\ y \in WorkerRec /\ y.conn = c /\ y.line = <<>> /\ GoodWorker(y)
  BY <1>1, BoundsAreNaturals DEF Reading, WorkerRec, GoodWorker
<1>6. GoodLine(x, y.line)
  BY <1>5 DEF GoodLine, GoodPieces, Awaited, InOrder, NoEnd
<1>7. /\ clients' = [clients EXCEPT ![c] = x]
      /\ workers' = [workers EXCEPT ![w] = y]
      /\ receiver' = Nobody
  BY DEF Receive
<1>8. workers[w].conn = Nobody
  BY DEF Receive, IInv, Good, GoodWorker
<1> HIDE DEF c, x, y
<1>9. /\ \A d \in Clients : clients'[d] = IF d = c THEN x ELSE clients[d]
      /\ \A v \in Workers : workers'[v] = IF v = w THEN y ELSE workers[v]
  BY <1>7 DEF IInv, Types
<1>10. Types'
  BY <1>1, <1>3, <1>5, <1>7, BoundsAreNaturals DEF IInv, Types
<1>11. \A v \in Workers : workers[v].conn # c
  BY <1>1, <1>2 DEF IInv, Assigned
<1>12. \A v \in Workers : workers[v].conn # Nobody => workers[v].conn \in Clients
  BY DEF IInv, Types, WorkerRec
<1>13. Good'
  <2>1. \A d \in Clients : GoodClient(clients'[d])
    BY <1>4, <1>9 DEF IInv, Good
  <2>2. /\ GoodWorker(workers'[w])
        /\ GoodLine(clients'[workers'[w].conn], workers'[w].line)
    BY <1>1, <1>5, <1>6, <1>9
  <2>3. \A v \in Workers \ {w} :
          /\ GoodWorker(workers'[v])
          /\ workers'[v].conn # Nobody =>
               GoodLine(clients'[workers'[v].conn], workers'[v].line)
    BY <1>9, <1>11, <1>12 DEF IInv, Good
  <2> QED
    BY <2>1, <2>2, <2>3 DEF Good
<1>14. Assigned'
  <2>1. \A d \in Clients :
          clients'[d].status = "open" <=> \E v \in Workers : workers'[v].conn = d
    BY <1>3, <1>5, <1>8, <1>9, <1>11, BoundsAreNaturals DEF IInv, Assigned
  <2>2. \A k \in 2..Len(queue) : queue[k] # c
    BY <1>1 DEF IInv, Assigned
  <2>3. ASSUME NEW d \in Clients
        PROVE  clients'[d].status = "queued"
                 <=> \E k \in 1..Len(queue') : queue'[k] = d
    <3>1. CASE d = c
      <4>1. \A k \in 1..Len(queue') : queue'[k] # c
        BY <1>1, <2>2
      <4> QED
        BY <1>3, <1>9, <3>1, <4>1
    <3>2. CASE d # c
      <4>1. clients'[d].status = "queued"
              <=> \E k \in 1..Len(queue) : queue[k] = d
        BY <1>9, <3>2 DEF IInv, Assigned
      <4>2. \A k \in 1..Len(queue) : queue[k] = d =>
              k - 1 \in 1..Len(queue') /\ queue'[k - 1] = d
        BY <1>1, <3>2
      <4>3. \A k \in 1..Len(queue') : queue'[k] = d =>
              k + 1 \in 1..Len(queue) /\ queue[k + 1] = d
        BY <1>1
      <4> QED
        BY <4>1, <4>2, <4>3
    <3> QED
      BY <3>1, <3>2
  <2>4. \A j, k \in 1..Len(queue') : j # k => queue'[j] # queue'[k]
    <3> SUFFICES ASSUME NEW j \in 1..Len(queue'), NEW k \in 1..Len(queue'), j # k
                 PROVE  queue'[j] # queue'[k]
      OBVIOUS
    <3>1. j + 1 \in 1..Len(queue) /\ k + 1 \in 1..Len(queue) /\ j + 1 # k + 1
      BY <1>1
    <3> QED
      BY <1>1, <3>1 DEF IInv, Assigned
  <2>5. \A u, v \in Workers :
          u # v /\ workers'[u].conn = workers'[v].conn => workers'[u].conn = Nobody
    BY <1>5, <1>9, <1>11 DEF IInv, Assigned
  <2> QED
    BY <2>1, <2>3, <2>4, <2>5 DEF Assigned
<1> QED
  BY <1>10, <1>13, <1>14 DEF IInv

-----------------------------------------------------------------------------
(* The clients                                                              *)

(* What is known of a connection and of the line that a worker has of it.   *)
LEMMA ClientFacts ==
  ASSUME IInv, NEW c \in Clients
  PROVE  /\ clients[c] \in ClientRec /\ GoodClient(clients[c])
         /\ clients[c].stream \in Seq(Piece) /\ Len(clients[c].stream) \in Nat
         /\ clients[c].awaiting \in Seq(Numbers)
         /\ Len(clients[c].awaiting) \in 0..2
<1>1. clients[c] \in ClientRec /\ GoodClient(clients[c])
  BY DEF IInv, Types, Good
<1>2. clients[c].stream \in Seq(Piece) /\ clients[c].awaiting \in Seq(Numbers)
  BY <1>1 DEF ClientRec
<1>3. /\ \A s \in Seq(Numbers) : Len(s) \in Nat
      /\ \A n \in Nat : n <= 2 => n \in 0..2
  OBVIOUS
<1>4. Len(clients[c].awaiting) \in 0..2
  BY <1>1, <1>2, <1>3 DEF GoodClient
<1>5. Len(clients[c].stream) \in Nat
  BY <1>2
<1> QED
  BY <1>1, <1>2, <1>4, <1>5

(* A frame is begun: its number is new among those awaited, so it comes     *)
(* after every piece that is under way.                                     *)
LEMMA BeginOK ==
  ASSUME IInv, NEW c \in Clients, NEW last \in BOOLEAN, Begin(c, last)
  PROVE  IInv'
<1> DEFINE old    == clients[c]
           frames == old.awaiting
           number == IF frames = <<>> THEN 0 ELSE 1 - Latest(c)
           piece  == [frame |-> number, first |-> TRUE, last |-> last]
           x == [old EXCEPT !.stream = Append(@, piece), !.unfinished = ~last,
                            !.sent = IF c \in Chatty THEN @ ELSE @ + 1,
                            !.awaiting = Append(@, number)]
<1>1. /\ old \in ClientRec /\ GoodClient(old)
      /\ old.stream \in Seq(Piece) /\ Len(old.stream) \in Nat
      /\ frames \in Seq(Numbers) /\ Len(frames) \in 0..2
  BY ClientFacts
<1>2. /\ old.status # "closed"
      /\ Len(old.stream) < MaxBuffered
      /\ Len(frames) # 2 /\ (Len(frames) = 0 \/ Len(frames) = 1)
      /\ c \in Chatty \/ old.sent < MaxFrames
      /\ UNCHANGED <<queue, receiver, workers>>
  <2>1. Ahead[c] \in 1..2
    BY BoundsAreNaturals
  <2>2. Len(frames) < Ahead[c]
    BY DEF Begin
  <2>3. \A i \in 0..2, j \in 1..2 : i < j => i # 2 /\ (i = 0 \/ i = 1)
    OBVIOUS
  <2>4. Len(frames) # 2 /\ (Len(frames) = 0 \/ Len(frames) = 1)
    BY <1>1, <2>1, <2>2, <2>3
  <2> QED
    BY <2>4 DEF Begin, Connected
<1>15. clients' = [clients EXCEPT ![c] = x]
  <2>1. clients \in [Clients -> ClientRec]
    BY DEF IInv, Types
  <2> QED
    BY <2>1 DEF Begin, ClientRec
<1>3. /\ number \in Numbers
      /\ Len(frames) = 1 => number # frames[1]
  BY <1>1, <1>2 DEF Latest, Numbers
<1>4. piece \in Piece /\ piece.frame = number /\ piece.last = last
  BY <1>3 DEF Piece
<1>5. /\ Append(old.stream, piece) \in Seq(Piece)
      /\ Append(frames, number) \in Seq(Numbers)
  BY <1>1, <1>3, <1>4
<1>6. (IF c \in Chatty THEN old.sent ELSE old.sent + 1) \in 0..MaxFrames
  BY <1>1, <1>2, BoundsAreNaturals DEF ClientRec
<1>7. /\ x \in ClientRec /\ x.status = old.status
      /\ x.stream = Append(old.stream, piece)
      /\ x.unfinished = ~last
      /\ x.awaiting = Append(frames, number)
  BY <1>1, <1>5, <1>6 DEF ClientRec
<1> HIDE DEF x, piece, number, old
<1>8. /\ Len(x.awaiting) = Len(frames) + 1
      /\ x.awaiting[Len(frames) + 1] = number
      /\ \A k \in 1..Len(frames) : x.awaiting[k] = frames[k]
      /\ x.awaiting # <<>>
  BY <1>1, <1>3, <1>7
<1>9. /\ Len(x.stream) = Len(old.stream) + 1
      /\ x.stream[Len(old.stream) + 1] = piece
      /\ \A i \in 1..Len(old.stream) : x.stream[i] = old.stream[i]
  BY <1>1, <1>4, <1>7
<1>10. ASSUME NEW s \in Seq(Piece), GoodPieces(old, s)
       PROVE  /\ GoodPieces(x, s)
              /\ \A i \in 1..Len(s) : /\ s[i].frame # number
                                      /\ Before(x.awaiting, s[i], piece)
  <2>1. \A i \in 1..Len(s) : Len(frames) = 1 /\ s[i].frame = frames[1]
    <3> SUFFICES ASSUME NEW i \in 1..Len(s)
                 PROVE  Len(frames) = 1 /\ s[i].frame = frames[1]
      OBVIOUS
    <3>1. PICK k \in 1..Len(frames) : frames[k] = s[i].frame
      BY <1>10 DEF GoodPieces, Awaited
    <3>2. k = 1 /\ Len(frames) = 1
      BY <1>2, <3>1
    <3> QED
      BY <3>1, <3>2
  <2>2. ASSUME NEW i \in 1..Len(s)
        PROVE  s[i].frame # number /\ Before(x.awaiting, s[i], piece)
    <3>1. Len(frames) = 1 /\ s[i].frame = frames[1]
      BY <2>1
    <3>2. s[i].frame # number
      BY <1>3, <3>1
    <3>3. Len(x.awaiting) = 2 /\ x.awaiting[1] = frames[1] /\ x.awaiting[2] = number
      BY <1>8, <3>1
    <3> QED
      BY <1>4, <3>1, <3>2, <3>3 DEF Before
  <2>3. Awaited(x.awaiting, s)
    BY <1>8, <2>1 DEF Awaited
  <2>4. InOrder(x.awaiting, s)
    BY <1>10, <2>1 DEF GoodPieces, InOrder, Before
  <2>5. NoEnd(x, s)
    BY <1>8, <2>2 DEF NoEnd
  <2> QED
    BY <2>2, <2>3, <2>4, <2>5 DEF GoodPieces
<1>11. GoodPieces(old, old.stream)
  BY <1>1 DEF GoodClient
<1>12. GoodPieces(x, x.stream)
  <2> DEFINE n == Len(old.stream)
  <2>1. /\ GoodPieces(x, old.stream)
        /\ \A i \in 1..n : Before(x.awaiting, old.stream[i], piece)
    BY <1>1, <1>10, <1>11
  <2>2. \A i \in 1..n + 1 : i \in 1..n \/ i = n + 1
    BY <1>1
  <2>3. \A i, j \in 1..n + 1 : i < j => i \in 1..n
    BY <1>1
  <2> HIDE DEF n
  <2>4. Awaited(x.awaiting, x.stream)
    <3>1. \E k \in 1..Len(x.awaiting) : x.awaiting[k] = piece.frame
      BY <1>1, <1>4, <1>8
    <3> QED
      BY <1>9, <2>1, <2>2, <3>1 DEF GoodPieces, Awaited, n
  <2>5. InOrder(x.awaiting, x.stream)
    BY <1>9, <2>1, <2>2, <2>3 DEF GoodPieces, InOrder, n
  <2>6. NoEnd(x, x.stream)
    BY <1>4, <1>7, <1>9, <2>1, <2>2 DEF GoodPieces, NoEnd, n
  <2> QED
    BY <2>4, <2>5, <2>6 DEF GoodPieces
<1>13. GoodClient(x)
  <2>1. Len(x.awaiting) <= 2 /\ (Len(x.awaiting) = 2 => x.awaiting[1] # x.awaiting[2])
    BY <1>2, <1>3, <1>8
  <2>2. Len(x.stream) <= MaxBuffered
    BY <1>1, <1>2, <1>9, BoundsAreNaturals
  <2>3. x.status # "closed" /\ x.awaiting # <<>>
    BY <1>2, <1>7, <1>8
  <2> QED
    BY <1>12, <2>1, <2>2, <2>3 DEF GoodClient
<1>14. \A line \in Seq(Piece) : GoodLine(old, line) => GoodLine(x, line)
  <2> SUFFICES ASSUME NEW line \in Seq(Piece), GoodLine(old, line)
               PROVE  GoodLine(x, line)
    OBVIOUS
  <2>1. GoodPieces(old, line)
    BY DEF GoodLine
  <2>2. /\ GoodPieces(x, line)
        /\ \A i \in 1..Len(line) : Before(x.awaiting, line[i], piece)
    BY <1>10, <2>1
  <2>3. ASSUME NEW i \in 1..Len(line), NEW j \in 1..Len(x.stream)
        PROVE  Before(x.awaiting, line[i], x.stream[j])
    <3>1. CASE j = Len(old.stream) + 1
      BY <1>9, <2>2, <3>1
    <3>2. CASE j \in 1..Len(old.stream)
      <4>1. Before(frames, line[i], old.stream[j])
        BY <3>2 DEF GoodLine
      <4>2. Len(frames) # 2
        BY <1>2
      <4>3. Before(x.awaiting, line[i], old.stream[j])
        BY <4>1, <4>2 DEF Before
      <4> QED
        BY <1>9, <3>2, <4>3
    <3> QED
      BY <1>1, <1>9, <3>1, <3>2
  <2> QED
    BY <2>2, <2>3 DEF GoodLine
<1> QED
  BY <1>2, <1>7, <1>13, <1>14, <1>15, ClientStep DEF old

(* The unfinished frame goes on: no end of it is under way.                 *)
LEMMA ContinueOK ==
  ASSUME IInv, NEW c \in Clients, NEW last \in BOOLEAN, Continue(c, last)
  PROVE  IInv'
<1> DEFINE old    == clients[c]
           frames == old.awaiting
           piece  == [frame |-> Latest(c), first |-> FALSE, last |-> last]
           x      == [old EXCEPT !.stream = Append(@, piece), !.unfinished = ~last]
<1>1. /\ old \in ClientRec /\ GoodClient(old)
      /\ old.stream \in Seq(Piece) /\ Len(old.stream) \in Nat
      /\ frames \in Seq(Numbers) /\ Len(frames) \in 0..2
  BY ClientFacts
<1>2. /\ old.status # "closed" /\ old.unfinished
      /\ Len(old.stream) < MaxBuffered
      /\ UNCHANGED <<queue, receiver, workers>>
  BY DEF Continue, Connected
<1>3. /\ Len(frames) \in 1..2 /\ Latest(c) = frames[Len(frames)]
      /\ Latest(c) \in Numbers /\ frames # <<>>
      /\ Len(frames) <= 2 /\ Len(frames) \in 1..Len(frames)
  <2>1. frames # <<>>
    BY <1>1, <1>2 DEF GoodClient
  <2>2. \A s \in Seq(Numbers) : s # <<>> => Len(s) # 0 /\ s[Len(s)] \in Numbers
    OBVIOUS
  <2>3. \A n \in 0..2 : n # 0 => n \in 1..2 /\ n <= 2 /\ n \in 1..n
    OBVIOUS
  <2> QED
    BY <1>1, <2>1, <2>2, <2>3 DEF Latest
<1>4. piece \in Piece /\ piece.frame = frames[Len(frames)] /\ piece.last = last
  BY <1>3 DEF Piece
<1>5. clients' = [clients EXCEPT ![c] = x]
  <2>1. clients \in [Clients -> ClientRec]
    BY DEF IInv, Types
  <2> QED
    BY <2>1 DEF Continue, ClientRec
<1>6. Append(old.stream, piece) \in Seq(Piece)
  BY <1>1, <1>4
<1>7. /\ x \in ClientRec /\ x.status = old.status
      /\ x.stream = Append(old.stream, piece)
      /\ x.unfinished = ~last
      /\ x.awaiting = frames
  BY <1>1, <1>6 DEF ClientRec
<1> HIDE DEF x, piece, old
<1>8. /\ Len(x.stream) = Len(old.stream) + 1
      /\ x.stream[Len(old.stream) + 1] = piece
      /\ \A i \in 1..Len(old.stream) : x.stream[i] = old.stream[i]
  BY <1>1, <1>4, <1>7
<1>9. ASSUME NEW s \in Seq(Piece), GoodPieces(old, s)
      PROVE  /\ GoodPieces(x, s)
             /\ \A i \in 1..Len(s) : Before(frames, s[i], piece)
  <2>1. GoodPieces(x, s)
    BY <1>2, <1>7, <1>9 DEF GoodPieces, NoEnd
  <2>2. ASSUME NEW i \in 1..Len(s) PROVE Before(frames, s[i], piece)
    <3>1. CASE s[i].frame = piece.frame
      BY <1>2, <1>4, <1>9, <3>1 DEF GoodPieces, NoEnd, Before
    <3>2. CASE s[i].frame # piece.frame
      <4>1. PICK k \in 1..Len(frames) : frames[k] = s[i].frame
        BY <1>9 DEF GoodPieces, Awaited
      <4>2. k # Len(frames)
        BY <1>4, <3>2, <4>1
      <4>3. \A n \in 1..2 : \A j \in 1..n : j # n => n = 2 /\ j = 1
        OBVIOUS
      <4>4. Len(frames) = 2 /\ k = 1
        BY <1>3, <4>2, <4>3
      <4>5. frames[1] = s[i].frame /\ frames[2] = piece.frame
        BY <1>4, <4>1, <4>4
      <4> QED
        BY <3>2, <4>4, <4>5 DEF Before
    <3> QED
      BY <3>1, <3>2
  <2> QED
    BY <2>1, <2>2
<1>10. GoodPieces(old, old.stream)
  BY <1>1 DEF GoodClient
<1>11. GoodPieces(x, x.stream)
  <2> DEFINE n == Len(old.stream)
  <2>1. /\ GoodPieces(x, old.stream)
        /\ \A i \in 1..n : Before(frames, old.stream[i], piece)
    BY <1>1, <1>9, <1>10
  <2>2. \A i \in 1..n + 1 : i \in 1..n \/ i = n + 1
    BY <1>1
  <2>3. \A i, j \in 1..n + 1 : i < j => i \in 1..n
    BY <1>1
  <2> HIDE DEF n
  <2>4. Awaited(x.awaiting, x.stream)
    <3>1. \E k \in 1..Len(frames) : frames[k] = piece.frame
      BY <1>3, <1>4
    <3> QED
      BY <1>7, <1>8, <2>1, <2>2, <3>1 DEF GoodPieces, Awaited, n
  <2>5. InOrder(x.awaiting, x.stream)
    BY <1>7, <1>8, <2>1, <2>2, <2>3 DEF GoodPieces, InOrder, n
  <2>6. NoEnd(x, x.stream)
    BY <1>4, <1>7, <1>8, <2>1, <2>2 DEF GoodPieces, NoEnd, n
  <2> QED
    BY <2>4, <2>5, <2>6 DEF GoodPieces
<1>12. GoodClient(x)
  <2>1. Len(x.stream) <= MaxBuffered
    BY <1>1, <1>2, <1>8, BoundsAreNaturals
  <2> QED
    BY <1>1, <1>2, <1>3, <1>7, <1>11, <2>1 DEF GoodClient
<1>13. \A line \in Seq(Piece) : GoodLine(old, line) => GoodLine(x, line)
  <2> SUFFICES ASSUME NEW line \in Seq(Piece), GoodLine(old, line)
               PROVE  GoodLine(x, line)
    OBVIOUS
  <2>1. GoodPieces(old, line)
    BY DEF GoodLine
  <2>2. /\ GoodPieces(x, line)
        /\ \A i \in 1..Len(line) : Before(frames, line[i], piece)
    BY <1>9, <2>1
  <2>3. ASSUME NEW i \in 1..Len(line), NEW j \in 1..Len(x.stream)
        PROVE  Before(x.awaiting, line[i], x.stream[j])
    <3>1. CASE j = Len(old.stream) + 1
      BY <1>7, <1>8, <2>2, <3>1
    <3>2. CASE j \in 1..Len(old.stream)
      BY <1>7, <1>8, <3>2 DEF GoodLine
    <3> QED
      BY <1>1, <1>8, <3>1, <3>2
  <2> QED
    BY <2>2, <2>3 DEF GoodLine
<1> QED
  BY <1>2, <1>5, <1>7, <1>12, <1>13, ClientStep DEF old

(* Leaving only tells the server that nothing more will come.               *)
LEMMA LeaveOK == ASSUME IInv, NEW c \in Clients, Leave(c) PROVE IInv'
<1> DEFINE old == clients[c]
           x   == [old EXCEPT !.gone = TRUE]
<1>1. old \in ClientRec /\ GoodClient(old)
  BY ClientFacts
<1>2. /\ old.status # "closed"
      /\ clients' = [clients EXCEPT ![c] = x]
      /\ UNCHANGED <<queue, receiver, workers>>
  BY DEF Leave, Connected
<1>3. /\ x \in ClientRec /\ x.status = old.status
      /\ x.stream = old.stream
      /\ x.unfinished = old.unfinished
      /\ x.awaiting = old.awaiting
  BY <1>1 DEF ClientRec
<1> HIDE DEF x, old
<1>4. \A s \in Seq(Piece) : GoodPieces(old, s) => GoodPieces(x, s)
  BY <1>3 DEF GoodPieces, NoEnd
<1>5. GoodClient(x)
  BY <1>1, <1>2, <1>3 DEF GoodClient, GoodPieces, NoEnd
<1>6. \A line \in Seq(Piece) : GoodLine(old, line) => GoodLine(x, line)
  BY <1>3, <1>4 DEF GoodLine
<1> QED
  BY <1>2, <1>3, <1>5, <1>6, ClientStep DEF old

-----------------------------------------------------------------------------
(* The workers                                                              *)

(* What is known of a worker and its connection.                            *)
LEMMA WorkerFacts ==
  ASSUME IInv, NEW w \in Workers, workers[w].stage \in {"reading", "handling"}
  PROVE  LET y == workers[w]
             x == clients[y.conn]
         IN  /\ y \in WorkerRec /\ GoodWorker(y) /\ y.conn # Nobody
             /\ y.line \in Seq(Piece) /\ Len(y.line) \in Nat
             /\ y.conn \in Clients /\ x.status = "open" /\ GoodLine(x, y.line)
<1>1. workers[w] \in WorkerRec /\ GoodWorker(workers[w])
  BY DEF IInv, Types, Good
<1>2. workers[w].conn # Nobody
  BY <1>1 DEF GoodWorker
<1>3. /\ workers[w].conn \in Clients
      /\ workers[w].line \in Seq(Piece)
  BY <1>1, <1>2 DEF WorkerRec
<1>4. Len(workers[w].line) \in Nat
  BY <1>3
<1>5. clients[workers[w].conn].status = "open"
  BY <1>3 DEF IInv, Assigned
<1>6. GoodLine(clients[workers[w].conn], workers[w].line)
  BY <1>2 DEF IInv, Good
<1> QED
  BY <1>1, <1>2, <1>3, <1>4, <1>5, <1>6

(* Time passes: what is left of a deadline becomes the age of its frame.    *)
LEMMA TickOK == ASSUME IInv, Tick PROVE IInv'
<1> DEFINE running == {w \in Workers : /\ workers[w].stage = "reading"
                                       /\ workers[w].left > 0}
           later(w) == [workers[w] EXCEPT !.left = @ - 1, !.age = @ + 1]
<1>1. /\ workers' = [w \in Workers |-> IF w \in running THEN later(w)
                                       ELSE workers[w]]
      /\ UNCHANGED <<clients, queue, receiver>>
  BY DEF Tick
<1>2. ASSUME NEW w \in running
      PROVE  /\ later(w) \in WorkerRec /\ GoodWorker(later(w))
             /\ later(w).conn = workers[w].conn /\ later(w).line = workers[w].line
  <2>1. workers[w] \in WorkerRec /\ GoodWorker(workers[w]) /\ workers[w].left > 0
    BY DEF IInv, Types, Good
  <2>2. /\ workers[w].left - 1 \in 0..Deadline
        /\ workers[w].age + 1 \in 0..Deadline
        /\ (workers[w].left - 1) + (workers[w].age + 1) <= Deadline
    BY <2>1, BoundsAreNaturals DEF WorkerRec, GoodWorker
  <2>3. /\ later(w) \in WorkerRec
        /\ later(w).left = workers[w].left - 1
        /\ later(w).age = workers[w].age + 1
        /\ later(w).conn = workers[w].conn /\ later(w).line = workers[w].line
        /\ later(w).stage = workers[w].stage
    BY <2>1, <2>2 DEF WorkerRec
  <2> HIDE DEF later
  <2> QED
    BY <2>1, <2>2, <2>3 DEF GoodWorker
<1> HIDE DEF running, later
<1>3. \A w \in Workers :
        /\ workers'[w] \in WorkerRec
        /\ GoodWorker(workers'[w])
        /\ workers'[w].conn = workers[w].conn
        /\ workers'[w].line = workers[w].line
  BY <1>1, <1>2 DEF IInv, Types, Good
<1>4. Types'
  BY <1>1, <1>3 DEF IInv, Types
<1>5. Good'
  BY <1>1, <1>3 DEF IInv, Good
<1>6. Assigned'
  BY <1>1, <1>3 DEF IInv, Assigned
<1> QED
  BY <1>4, <1>5, <1>6 DEF IInv

\* A read of n pieces: taken are those up to a newline, client x becomes new.
Reads(x, line, n, k, taken, new) ==
  /\ x \in ClientRec /\ GoodClient(x) /\ line \in Seq(Piece) /\ GoodLine(x, line)
  /\ n \in 1..Len(x.stream) /\ k \in 1..n
  /\ taken = SubSeq(SubSeq(x.stream, 1, n), 1, k)
  /\ new \in ClientRec /\ new.stream = Unread(x.stream, n)
  /\ new.status = x.status /\ new.awaiting = x.awaiting
  /\ new.unfinished = x.unfinished

(* A chunk moves from the stream to the line; what follows its newline is   *)
(* discarded, which leaves the order of the rest as it was.                 *)
LEMMA ReadMoves ==
  ASSUME NEW x, NEW line, NEW n, NEW k, NEW taken, NEW new,
         Reads(x, line, n, k, taken, new)
  PROVE  /\ GoodClient(new)
         /\ taken \in Seq(Piece) /\ Len(taken) = k
         /\ line \o taken \in Seq(Piece) /\ Len(line \o taken) = Len(line) + k
         /\ (line \o taken)[Len(line) + k] = taken[k]
         /\ GoodLine(new, line \o taken)
<1>0. /\ x \in ClientRec /\ GoodClient(x) /\ line \in Seq(Piece) /\ GoodLine(x, line)
      /\ n \in 1..Len(x.stream) /\ k \in 1..n
      /\ taken = SubSeq(SubSeq(x.stream, 1, n), 1, k)
  BY DEF Reads
<1> DEFINE stream == x.stream
           frames == x.awaiting
           rest   == Unread(stream, n)
           l      == Len(line)
           longer == line \o taken
<1>1. stream \in Seq(Piece) /\ Len(stream) \in Nat /\ l \in Nat
  BY <1>0 DEF ClientRec
<1>2. n \in 0..Len(stream) /\ n \in Nat /\ k \in Nat /\ k \in 0..n
  BY <1>0, <1>1
<1>3. /\ taken \in Seq(Piece) /\ Len(taken) = k
      /\ \A i \in 1..k : taken[i] = stream[i]
  <2> DEFINE chunk == SubSeq(stream, 1, n)
  <2>1. /\ chunk \in Seq(Piece) /\ Len(chunk) = n
        /\ \A i \in 1..n : chunk[i] = stream[i]
    BY <1>1, <1>2, PrefixFacts
  <2> HIDE DEF chunk
  <2>2. k \in 0..Len(chunk)
    BY <1>2, <2>1
  <2>3. /\ SubSeq(chunk, 1, k) \in Seq(Piece) /\ Len(SubSeq(chunk, 1, k)) = k
        /\ \A i \in 1..k : SubSeq(chunk, 1, k)[i] = chunk[i]
    BY <2>1, <2>2, PrefixFacts
  <2> QED
    BY <1>0, <1>2, <2>1, <2>3 DEF chunk
<1>4. /\ rest \in Seq(Piece) /\ Len(rest) = Len(stream) - n
      /\ \A i \in 1..Len(stream) - n : rest[i] = stream[i + n]
  BY <1>1, <1>2, RestFacts DEF Unread
<1>5. /\ new.status = x.status /\ new.stream = rest
      /\ new.awaiting = frames /\ new.unfinished = x.unfinished
  BY DEF Reads
<1> HIDE DEF rest
<1>6. /\ longer \in Seq(Piece) /\ Len(longer) = l + k
      /\ \A i \in 1..l : longer[i] = line[i]
      /\ \A i \in l + 1..l + k : longer[i] = taken[i - l]
  BY <1>0, <1>1, <1>2, <1>3
<1> HIDE DEF longer, l
<1>7. \A i \in l + 1..l + k : i - l \in 1..Len(stream) /\ longer[i] = stream[i - l]
  <2>1. \A i \in l + 1..l + k : i - l \in 1..k
    BY <1>1, <1>2
  <2>2. \A i \in 1..k : i \in 1..Len(stream)
    BY <1>1, <1>2
  <2> QED
    BY <1>3, <1>6, <2>1, <2>2
<1>8. \A i \in 1..Len(rest) : i + n \in 1..Len(stream) /\ rest[i] = stream[i + n]
  <2>1. \A i \in 1..Len(stream) - n : i + n \in 1..Len(stream)
    BY <1>1, <1>2
  <2> QED
    BY <1>4, <2>1
<1>9. \A i \in 1..Len(longer) : i \in 1..l \/ i \in l + 1..l + k
  BY <1>1, <1>2, <1>6
<1>10. GoodPieces(x, stream) /\ GoodPieces(x, line)
  BY <1>0 DEF GoodClient, GoodLine
<1>11. \A i \in 1..l, j \in 1..Len(stream) : Before(frames, line[i], stream[j])
  BY <1>0 DEF GoodLine, l
<1>12. \A i, j \in 1..Len(stream) : i < j => Before(frames, stream[i], stream[j])
  BY <1>10 DEF GoodPieces, InOrder
<1>13. GoodPieces(new, rest)
  <2>1. Awaited(frames, rest)
    BY <1>8, <1>10 DEF GoodPieces, Awaited
  <2>2. InOrder(frames, rest)
    <3> SUFFICES ASSUME NEW i \in 1..Len(rest), NEW j \in 1..Len(rest), i < j
                 PROVE  Before(frames, rest[i], rest[j])
      BY DEF InOrder
    <3>1. i + n < j + n
      BY <1>2
    <3> QED
      BY <1>8, <1>12, <3>1
  <2>3. NoEnd(new, rest)
    <3> SUFFICES ASSUME x.unfinished, NEW i \in 1..Len(rest),
                        rest[i].frame = frames[Len(frames)]
                 PROVE  ~rest[i].last
      BY <1>5 DEF NoEnd
    <3> QED
      BY <1>8, <1>10 DEF GoodPieces, NoEnd
  <2> QED
    BY <1>5, <2>1, <2>2, <2>3 DEF GoodPieces
<1>14. GoodClient(new)
  <2>1. Len(rest) <= Len(stream)
    BY <1>1, <1>2, <1>4
  <2>2. Len(rest) <= MaxBuffered
    BY <1>0, <1>1, <1>4, <2>1, BoundsAreNaturals DEF GoodClient
  <2>3. x.status # "closed"
    BY <1>0, <1>1, <1>2 DEF GoodClient, NoConnection
  <2> QED
    BY <1>0, <1>5, <1>13, <2>2, <2>3 DEF GoodClient
<1>15. GoodPieces(new, longer)
  <2>1. Awaited(frames, longer)
    <3> SUFFICES ASSUME NEW i \in 1..Len(longer)
                 PROVE  \E m \in 1..Len(frames) : frames[m] = longer[i].frame
      BY DEF Awaited
    <3>1. CASE i \in 1..l
      BY <1>6, <1>10, <3>1 DEF GoodPieces, Awaited, l
    <3>2. CASE i \in l + 1..l + k
      BY <1>7, <1>10, <3>2 DEF GoodPieces, Awaited
    <3> QED
      BY <1>9, <3>1, <3>2
  <2>2. InOrder(frames, longer)
    <3> SUFFICES ASSUME NEW i \in 1..Len(longer), NEW j \in 1..Len(longer), i < j
                 PROVE  Before(frames, longer[i], longer[j])
      BY DEF InOrder
    <3>1. CASE i \in 1..l /\ j \in 1..l
      BY <1>6, <1>10, <3>1 DEF GoodPieces, InOrder, l
    <3>2. CASE i \in 1..l /\ j \in l + 1..l + k
      BY <1>6, <1>7, <1>11, <3>2
    <3>3. CASE i \in l + 1..l + k /\ j \in l + 1..l + k
      <4>1. i - l < j - l
        BY <1>1, <3>3
      <4> QED
        BY <1>7, <1>12, <3>3, <4>1
    <3>4. ~(i \in l + 1..l + k /\ j \in 1..l)
      BY <1>1
    <3> QED
      BY <1>9, <3>1, <3>2, <3>3, <3>4
  <2>3. NoEnd(new, longer)
    <3> SUFFICES ASSUME x.unfinished, NEW i \in 1..Len(longer),
                        longer[i].frame = frames[Len(frames)]
                 PROVE  ~longer[i].last
      BY <1>5 DEF NoEnd
    <3>1. CASE i \in 1..l
      BY <1>6, <1>10, <3>1 DEF GoodPieces, NoEnd, l
    <3>2. CASE i \in l + 1..l + k
      BY <1>7, <1>10, <3>2 DEF GoodPieces, NoEnd
    <3> QED
      BY <1>9, <3>1, <3>2
  <2> QED
    BY <1>5, <2>1, <2>2, <2>3 DEF GoodPieces
<1>16. ASSUME NEW i \in 1..Len(longer), NEW j \in 1..Len(rest)
       PROVE  Before(frames, longer[i], rest[j])
  <2>1. CASE i \in 1..l
    BY <1>6, <1>8, <1>11, <2>1
  <2>2. CASE i \in l + 1..l + k
    <3>1. i - l < j + n
      BY <1>1, <1>2, <2>2
    <3> QED
      BY <1>7, <1>8, <1>12, <2>2, <3>1
  <2> QED
    BY <1>9, <2>1, <2>2
<1>17. GoodLine(new, longer)
  BY <1>5, <1>15, <1>16 DEF GoodLine
<1>18. longer[l + k] = taken[k]
  <2>0. k \in Nat \ {0}
    BY <1>0, <1>2
  <2>1. l + k \in l + 1..l + k /\ (l + k) - l = k
    BY <1>1, <2>0
  <2> QED
    BY <1>6, <2>1
<1> QED
  BY <1>3, <1>4, <1>6, <1>14, <1>17, <1>18 DEF rest, l, longer

(* A read moves a chunk, or closes the connection of an oversized frame.    *)
LEMMA ReadOK ==
  ASSUME IInv, NEW w \in Workers, NEW n \in 1..MaxBuffered, Read(w, n)
  PROVE  IInv'
<1> DEFINE c      == workers[w].conn
           old    == clients[c]
           line   == workers[w].line
           chunk  == SubSeq(old.stream, 1, n)
           taken  == UpToNewline(chunk)
           stage  == IF taken[Len(taken)].last THEN "handling"
                     ELSE workers[w].stage
           x == [old EXCEPT !.stream = Unread(@, n)]
           y == [workers[w] EXCEPT !.line = line \o taken,
                                   !.left = LeftAfterRead(w), !.stage = stage]
<1>1. /\ workers[w] \in WorkerRec /\ GoodWorker(workers[w]) /\ c # Nobody
      /\ line \in Seq(Piece) /\ Len(line) \in Nat
      /\ c \in Clients /\ old.status = "open" /\ GoodLine(old, line)
      /\ workers[w].stage = "reading"
  BY WorkerFacts DEF Read
<1>2. /\ old \in ClientRec /\ GoodClient(old)
      /\ old.stream \in Seq(Piece) /\ Len(old.stream) \in Nat
  BY <1>1, ClientFacts
<1>3. n \in 1..Len(old.stream) /\ n \in Nat
  <2>1. n <= Len(old.stream)
    BY DEF Read
  <2> QED
    BY <1>2, <2>1, BoundsAreNaturals
<1>4. PICK k \in 1..n : taken = SubSeq(chunk, 1, k)
  <2>1. chunk \in Seq(Piece) /\ Len(chunk) = n
    BY <1>2, <1>3, PrefixFacts
  <2> HIDE DEF chunk
  <2> QED
    BY <1>3, <2>1, NewlineFacts
<1>5. /\ taken \in Seq(Piece) /\ Len(taken) = k
      /\ x \in ClientRec /\ GoodClient(x) /\ x.status = "open"
      /\ line \o taken \in Seq(Piece) /\ Len(line \o taken) = Len(line) + k
      /\ (line \o taken)[Len(line) + k] = taken[k]
      /\ GoodLine(x, line \o taken)
  <2>1. /\ x.stream = Unread(old.stream, n) /\ x.status = old.status
        /\ x.awaiting = old.awaiting /\ x.unfinished = old.unfinished
        /\ x \in ClientRec
    <3>1. n \in 0..Len(old.stream)
      BY <1>3
    <3>2. Unread(old.stream, n) \in Seq(Piece)
      BY <1>2, <3>1, RestFacts DEF Unread
    <3> QED
      BY <1>2, <3>2 DEF ClientRec
  <2>2. taken = SubSeq(SubSeq(old.stream, 1, n), 1, k)
    BY <1>4
  <2> HIDE DEF old, line, x, taken
  <2>3. Reads(old, line, n, k, taken, x)
    BY <1>1, <1>2, <1>3, <2>1, <2>2 DEF Reads
  <2>4. /\ GoodClient(x)
        /\ taken \in Seq(Piece) /\ Len(taken) = k
        /\ line \o taken \in Seq(Piece) /\ Len(line \o taken) = Len(line) + k
        /\ (line \o taken)[Len(line) + k] = taken[k]
        /\ GoodLine(x, line \o taken)
    BY <2>3, ReadMoves
  <2> QED
    BY <1>1, <2>1, <2>4
<1>6. CASE Close(w)
  BY <1>1, <1>6, CloseOK
<1>7. CASE ~Close(w)
  <2>1. /\ Len(line \o taken) <= MaxFramePieces
        /\ workers' = [workers EXCEPT ![w] = y]
        /\ clients' = [clients EXCEPT ![c] = x]
        /\ UNCHANGED <<queue, receiver>>
    <3>1. workers \in [Workers -> WorkerRec]
      BY DEF IInv, Types
    <3>2. /\ Len(line \o taken) <= MaxFramePieces
          /\ clients' = [clients EXCEPT ![c] = x]
          /\ UNCHANGED <<queue, receiver>>
      BY <1>7 DEF Read
    <3>3. workers' = [workers EXCEPT ![w] = y]
      BY <1>7, <3>1 DEF Read, WorkerRec
    <3> QED
      BY <3>2, <3>3
  <2>2. /\ stage \in {"reading", "handling"}
        /\ stage = "handling" => taken[k].last
    BY <1>1, <1>5
  <2> HIDE DEF x, taken, stage
  <2>3. /\ y \in WorkerRec /\ y.conn = c /\ y.line = line \o taken
        /\ y.stage = stage /\ y.left = workers[w].left /\ y.age = workers[w].age
    BY <1>1, <1>5, <2>2 DEF WorkerRec, LeftAfterRead
  <2> HIDE DEF y
  <2>4. GoodWorker(y)
    <3>1. Len(y.line) = Len(line) + k /\ Len(line) + k > 0
      BY <1>1, <1>3, <1>5, <2>3
    <3>2. stage = "handling" => y.line[Len(y.line)].last
      BY <1>5, <2>2, <2>3, <3>1
    <3>3. workers[w].left + workers[w].age <= Deadline
      BY <1>1 DEF GoodWorker
    <3> QED
      BY <1>1, <2>1, <2>2, <2>3, <3>1, <3>2, <3>3 DEF GoodWorker
  <2> QED
    BY <1>1, <1>5, <2>1, <2>3, <2>4, ServingStep
<1> QED
  BY <1>6, <1>7

(* The frames that an answer leaves.                                        *)
LEMMA AfterFacts ==
  ASSUME NEW frames \in Seq(Numbers), Len(frames) \in 1..2,
         Len(frames) = 2 => frames[1] # frames[2], NEW number \in Numbers
  PROVE  /\ frames[1] = number /\ Len(frames) = 1 => After(frames, number) = <<>>
         /\ Len(frames) = 2 /\ frames[2] = number => After(frames, number) = <<>>
         /\ frames[1] = number /\ Len(frames) = 2 =>
              After(frames, number) = <<frames[2]>>
<1> DEFINE k == CHOOSE k \in DOMAIN frames : frames[k] = number
<1>1. DOMAIN frames = 1..Len(frames)
  OBVIOUS
<1>2. After(frames, number) = SubSeq(frames, k + 1, Len(frames))
  BY DEF After
<1>3. frames[1] = number => k = 1
  <2>1. frames[1] = number =>
          1 \in DOMAIN frames /\ \A j \in DOMAIN frames : frames[j] = number => j = 1
    BY <1>1
  <2> QED
    BY <2>1
<1>4. Len(frames) = 2 /\ frames[2] = number => k = 2
  <2>1. Len(frames) = 2 /\ frames[2] = number =>
          2 \in DOMAIN frames /\ \A j \in DOMAIN frames : frames[j] = number => j = 2
    BY <1>1
  <2> QED
    BY <2>1
<1> HIDE DEF k
<1>5. /\ Len(frames) = 1 => SubSeq(frames, 2, Len(frames)) = <<>>
      /\ Len(frames) = 2 => SubSeq(frames, 3, Len(frames)) = <<>>
      /\ Len(frames) = 2 => SubSeq(frames, 2, Len(frames)) = <<frames[2]>>
  <2>1. \A s \in Seq(Numbers) : Len(s) = 0 => s = <<>>
    OBVIOUS
  <2>2. \A s \in Seq(Numbers) : Len(s) = 1 => s = <<s[1]>>
    OBVIOUS
  <2>3. CASE Len(frames) = 1
    <3>1. SubSeq(frames, 2, 1) \in Seq(Numbers) /\ Len(SubSeq(frames, 2, 1)) = 0
      BY <2>3
    <3> QED
      BY <2>1, <2>3, <3>1
  <2>4. CASE Len(frames) = 2
    <3> DEFINE one  == SubSeq(frames, 2, Len(frames))
               none == SubSeq(frames, 3, Len(frames))
    <3>1. /\ one \in Seq(Numbers) /\ Len(one) = Len(frames) - 1
          /\ \A i \in 1..Len(frames) - 1 : one[i] = frames[i + 1]
      <4>1. SubSeq(frames, 1 + 1, Len(frames)) = one /\ 1 \in 0..Len(frames)
        BY <2>4
      <4> HIDE DEF one
      <4> QED
        BY <4>1, RestFacts
    <3>2. none \in Seq(Numbers) /\ Len(none) = Len(frames) - 2
      <4>1. SubSeq(frames, 2 + 1, Len(frames)) = none /\ 2 \in 0..Len(frames)
        BY <2>4
      <4> HIDE DEF none
      <4> QED
        BY <4>1, RestFacts
    <3> HIDE DEF one, none
    <3>3. Len(one) = 1 /\ one[1] = frames[2] /\ Len(none) = 0
      BY <2>4, <3>1, <3>2
    <3>4. one = <<frames[2]>> /\ none = <<>>
      BY <2>1, <2>2, <3>1, <3>2, <3>3
    <3> QED
      BY <2>4, <3>4 DEF one, none
  <2> QED
    BY <2>3, <2>4
<1> QED
  BY <1>2, <1>3, <1>4, <1>5

\* Connection x when frame number is answered, after a line that ends in end.
Answers(x, number, end, new) ==
  /\ x \in ClientRec /\ GoodClient(x) /\ x.status = "open"
  /\ number \in Numbers /\ \E k \in 1..Len(x.awaiting) : x.awaiting[k] = number
  /\ end.frame = number /\ end.last
  /\ NoEnd(x, <<end>>)
  /\ \A j \in 1..Len(x.stream) : Before(x.awaiting, end, x.stream[j])
  /\ new.awaiting = After(x.awaiting, number) /\ new.stream = x.stream
  /\ new.status = x.status /\ new.unfinished = x.unfinished

(* An answer settles its frame and the earlier ones; what is under way      *)
(* belongs to the frames that are left.                                     *)
LEMMA AnswerSettles ==
  ASSUME NEW x, NEW number, NEW end, NEW new, Answers(x, number, end, new)
  PROVE  After(x.awaiting, number) \in Seq(Numbers) /\ GoodClient(new)
<1> DEFINE frames == x.awaiting
           stream == x.stream
<1>1. /\ x \in ClientRec /\ GoodClient(x) /\ x.status = "open"
      /\ number \in Numbers /\ \E k \in 1..Len(frames) : frames[k] = number
      /\ end.frame = number /\ end.last
      /\ NoEnd(x, <<end>>)
      /\ \A j \in 1..Len(stream) : Before(frames, end, stream[j])
  BY DEF Answers
<1>2. /\ new.awaiting = After(frames, number) /\ new.stream = stream
      /\ new.status = "open" /\ new.unfinished = x.unfinished
  BY <1>1 DEF Answers
<1>3. /\ stream \in Seq(Piece) /\ Len(stream) \in Nat
      /\ frames \in Seq(Numbers) /\ Len(frames) \in Nat
      /\ x.unfinished \in BOOLEAN
  <2>1. stream \in Seq(Piece) /\ frames \in Seq(Numbers) /\ x.unfinished \in BOOLEAN
    BY <1>1 DEF ClientRec
  <2> QED
    BY <2>1
<1>4. /\ Len(frames) \in 1..2
      /\ Len(frames) = 2 => frames[1] # frames[2]
  <2>1. PICK k \in 1..Len(frames) : frames[k] = number
    BY <1>1
  <2>2. Len(frames) <= 2 /\ (Len(frames) = 2 => frames[1] # frames[2])
    BY <1>1 DEF GoodClient
  <2>3. \A n \in Nat : \A j \in 1..n : n <= 2 => n \in 1..2
    OBVIOUS
  <2> QED
    BY <1>3, <2>1, <2>2, <2>3
<1>5. \A j \in 1..Len(stream) :
        /\ Len(frames) = 2 /\ frames[1] = number
        /\ frames[2] = stream[j].frame
  BY <1>1 DEF Before
<1>6. CASE Len(frames) = 2 /\ frames[1] = number
  <2>1. new.awaiting = <<frames[2]>> /\ frames[2] \in Numbers
    BY <1>2, <1>3, <1>4, <1>6, AfterFacts, <1>1
  <2> DEFINE left == <<frames[2]>>
  <2>2. left \in Seq(Numbers) /\ Len(left) = 1 /\ left[1] = frames[2]
        /\ left # <<>>
    BY <2>1
  <2> HIDE DEF left
  <2>3. Awaited(left, stream)
    BY <1>5, <2>2 DEF Awaited
  <2>4. InOrder(left, stream)
    BY <1>1, <1>5 DEF GoodClient, GoodPieces, InOrder, Before
  <2>5. NoEnd(new, stream)
    BY <1>1, <1>2, <1>6, <2>1, <2>2 DEF GoodClient, GoodPieces, NoEnd, left
  <2>6. GoodPieces(new, new.stream)
    BY <1>2, <2>1, <2>3, <2>4, <2>5 DEF GoodPieces, left
  <2> QED
    BY <1>1, <1>2, <2>1, <2>2, <2>6 DEF GoodClient, left
<1>7. CASE ~(Len(frames) = 2 /\ frames[1] = number)
  <2>1. \/ Len(frames) = 1 /\ frames[1] = number
        \/ Len(frames) = 2 /\ frames[2] = number
    <3>1. PICK k \in 1..Len(frames) : frames[k] = number
      BY <1>1
    <3>2. \A n \in 1..2 : \A j \in 1..n : (n = 1 /\ j = 1) \/ (n = 2 /\ j \in {1, 2})
      OBVIOUS
    <3> QED
      BY <1>4, <1>7, <3>1, <3>2
  <2>2. new.awaiting = <<>>
    BY <1>1, <1>2, <1>3, <1>4, <2>1, AfterFacts
  <2>3. Len(stream) = 0
    <3>1. \A n \in Nat : n # 0 => 1 \in 1..n
      OBVIOUS
    <3> QED
      BY <1>3, <1>5, <1>7, <3>1
  <2>4. ~x.unfinished
    <3>1. Len(<<end>>) = 1 /\ <<end>>[1] = end /\ 1 \in 1..1
      OBVIOUS
    <3>2. end.frame = frames[Len(frames)]
      BY <1>1, <2>1
    <3> QED
      BY <1>1, <3>1, <3>2 DEF NoEnd
  <2>5. 1..0 = {} /\ <<>> \in Seq(Numbers) /\ Len(<<>>) <= 2 /\ Len(<<>>) # 2
    OBVIOUS
  <2>6. GoodPieces(new, new.stream)
    BY <1>2, <2>3, <2>4, <2>5 DEF GoodPieces, Awaited, InOrder, NoEnd
  <2> QED
    BY <1>1, <1>2, <2>2, <2>4, <2>5, <2>6 DEF GoodClient
<1> QED
  BY <1>6, <1>7

(* A line is handled: its frame is settled if it is one, and a new one is   *)
(* begun with a deadline of its own.                                        *)
LEMMA ReplyOK == ASSUME IInv, NEW w \in Workers, Reply(w) PROVE IInv'
<1> DEFINE c       == workers[w].conn
           old     == clients[c]
           line    == workers[w].line
           frames  == old.awaiting
           number  == line[1].frame
           settled == WellFormed(line) /\ \E k \in DOMAIN frames : frames[k] = number
           left    == IF settled THEN After(frames, number) ELSE frames
           x       == [old EXCEPT !.awaiting = left]
           y       == Reading(c)
<1>1. /\ workers[w] \in WorkerRec /\ GoodWorker(workers[w]) /\ c # Nobody
      /\ line \in Seq(Piece) /\ Len(line) \in Nat
      /\ c \in Clients /\ old.status = "open" /\ GoodLine(old, line)
      /\ workers[w].stage = "handling"
  BY WorkerFacts DEF Reply
<1>2. /\ old \in ClientRec /\ GoodClient(old)
      /\ old.stream \in Seq(Piece)
      /\ frames \in Seq(Numbers)
  BY <1>1, ClientFacts
<1>3. /\ clients' = [clients EXCEPT ![c] = x]
      /\ workers' = [workers EXCEPT ![w] = y]
      /\ UNCHANGED <<queue, receiver>>
  <2>1. clients \in [Clients -> ClientRec]
    BY DEF IInv, Types
  <2> QED
    BY <2>1 DEF Reply
<1>4. /\ y \in WorkerRec /\ y.conn = c /\ y.line = <<>> /\ GoodWorker(y)
  BY <1>1, BoundsAreNaturals DEF Reading, WorkerRec, GoodWorker
<1>5. /\ x.stream = old.stream /\ x.status = "open"
      /\ x.unfinished = old.unfinished /\ x.awaiting = left
      /\ left \in Seq(Numbers) => x \in ClientRec
  BY <1>1, <1>2 DEF ClientRec
<1>6. left \in Seq(Numbers) /\ GoodClient(x)
  <2>1. CASE settled
    <3> DEFINE end == line[Len(line)]
    <3>1. /\ Len(line) \in 1..Len(line) /\ 1 \in 1..Len(line) /\ end.last
          /\ DOMAIN line = 1..Len(line) /\ DOMAIN frames = 1..Len(frames)
      BY <1>1, <1>2 DEF GoodWorker
    <3>2. end.frame = number
      BY <2>1, <3>1 DEF WellFormed
    <3>3. number \in Numbers
      <4>1. line[1] \in Piece
        BY <1>1, <3>1
      <4> QED
        BY <4>1 DEF Piece
    <3>4. \A j \in 1..Len(old.stream) : Before(frames, end, old.stream[j])
      BY <1>1, <3>1 DEF GoodLine
    <3>5. old.unfinished => (end.frame = frames[Len(frames)] => ~end.last)
      BY <1>1, <3>1 DEF GoodLine, GoodPieces, NoEnd
    <3>6. \E k \in 1..Len(frames) : frames[k] = number
      BY <2>1, <3>1
    <3>7. left = After(frames, number)
      BY <2>1
    <3> HIDE DEF x, left, old, number, end
    <3>8. NoEnd(old, <<end>>)
      <4>1. Len(<<end>>) = 1 /\ <<end>>[1] = end
        OBVIOUS
      <4>2. \A i \in 1..1 : i = 1
        OBVIOUS
      <4> QED
        BY <3>5, <4>1, <4>2 DEF NoEnd
    <3>9. Answers(old, number, end, x)
      BY <1>1, <1>2, <1>5, <3>1, <3>2, <3>3, <3>4, <3>6, <3>7, <3>8 DEF Answers
    <3> QED
      BY <3>7, <3>9, AnswerSettles
  <2>2. CASE ~settled
    <3>1. x.awaiting = frames /\ left = frames
      BY <1>5, <2>2
    <3> HIDE DEF x, left, settled
    <3> QED
      BY <1>1, <1>2, <1>5, <3>1 DEF GoodClient, GoodPieces, NoEnd
  <2> QED
    BY <2>1, <2>2
<1>7. GoodLine(x, <<>>)
  <2>1. Len(<<>>) = 0 /\ 1..0 = {}
    OBVIOUS
  <2> QED
    BY <2>1 DEF GoodLine, GoodPieces, Awaited, InOrder, NoEnd
<1> HIDE DEF x, y, left
<1>8. x \in ClientRec /\ x.status = "open" /\ GoodLine(x, y.line)
  BY <1>4, <1>5, <1>6, <1>7
<1> QED
  BY <1>1, <1>3, <1>4, <1>6, <1>8, ServingStep

-----------------------------------------------------------------------------
(* The theorems                                                             *)

(* Every step keeps the invariant.                                          *)
LEMMA IInvNext == IInv /\ [Next]_vars => IInv'
<1> SUFFICES ASSUME IInv, [Next]_vars PROVE IInv'
  OBVIOUS
<1>1. ASSUME NEW c \in Clients, Connect(c) PROVE IInv'
  BY <1>1, ConnectOK
<1>2. ASSUME NEW c \in Clients, NEW last \in BOOLEAN,
             Begin(c, last) \/ Continue(c, last)
      PROVE  IInv'
  BY <1>2, BeginOK, ContinueOK
<1>3. ASSUME NEW c \in Clients, Leave(c) PROVE IInv'
  BY <1>3, LeaveOK
<1>4. ASSUME NEW w \in Workers, WorkerStep(w) PROVE IInv'
  <2>1. CASE TakeReceiver(w)
    BY <2>1, TakeReceiverOK
  <2>2. CASE Receive(w)
    BY <2>2, ReceiveOK
  <2>3. ASSUME NEW n \in 1..MaxBuffered, Read(w, n) PROVE IInv'
    BY <2>3, ReadOK
  <2>4. CASE Reply(w)
    BY <2>4, ReplyOK
  <2>5. CASE EndOfStream(w) \/ TimeOut(w) \/ WriteFails(w)
    <3>1. workers[w].stage \in {"reading", "handling"} /\ Close(w)
      BY <2>5 DEF EndOfStream, TimeOut, WriteFails
    <3>2. workers[w].conn # Nobody
      BY <3>1 DEF IInv, Good, GoodWorker
    <3> QED
      BY <3>1, <3>2, CloseOK
  <2> QED
    BY <1>4, <2>1, <2>2, <2>3, <2>4, <2>5 DEF WorkerStep
<1>5. CASE Tick
  BY <1>5, TickOK
<1>6. CASE UNCHANGED vars
  BY <1>6 DEF vars, IInv, Types, Good, Assigned
<1> QED
  BY <1>1, <1>2, <1>3, <1>4, <1>5, <1>6 DEF Next

(* TypeOK: every open connection has one worker, the queue holds the others *)
(* once, and no frame is read beyond its deadline, for any number of        *)
(* clients and workers and however they behave.                             *)
THEOREM ServerTypeCorrect == Spec => []TypeOK
<1>1. IInv => TypeOK
  <2> SUFFICES ASSUME IInv PROVE TypeOK
    OBVIOUS
  <2>1. ASSUME NEW c \in Clients PROVE clients[c] \in Connection
    <3>1. /\ clients[c] \in ClientRec /\ GoodClient(clients[c])
          /\ clients[c].stream \in Seq(Piece) /\ clients[c].awaiting \in Seq(Numbers)
      BY ClientFacts
    <3>2. Len(clients[c].stream) <= MaxBuffered /\ Len(clients[c].awaiting) <= 2
      BY <3>1 DEF GoodClient
    <3>3. clients[c].stream \in UNION {[1..n -> Piece] : n \in 0..MaxBuffered}
      BY <3>1, <3>2, BoundedSequences, BoundsAreNaturals
    <3>4. clients[c].awaiting \in UNION {[1..n -> Numbers] : n \in 0..2}
      BY <3>1, <3>2, BoundedSequences
    <3> QED
      BY <3>1, <3>3, <3>4 DEF ClientRec, Connection
  <2>2. clients \in [Clients -> Connection]
    BY <2>1 DEF IInv, Types
  <2>3. ASSUME NEW w \in Workers
        PROVE  /\ workers[w].stage \in {"idle", "receiving", "reading", "handling"}
               /\ Len(workers[w].line) <= MaxFramePieces
               /\ workers[w].age <= Deadline
               /\ workers[w].stage \in {"reading", "handling"}
                    <=> workers[w].conn # Nobody
    <3>1. workers[w] \in WorkerRec /\ GoodWorker(workers[w])
      BY DEF IInv, Types, Good
    <3>2. workers[w].age \in 0..Deadline
      BY <3>1 DEF WorkerRec
    <3> QED
      BY <3>1, <3>2, BoundsAreNaturals DEF WorkerRec, GoodWorker
  <2>4. DOMAIN queue = 1..Len(queue)
    BY DEF IInv, Types
  <2> QED
    BY <2>2, <2>3, <2>4 DEF TypeOK, IInv, Types, Assigned
<1> QED
  BY <1>1, IInvInit, IInvNext, PTL DEF Spec

(* HandledFramesAreAwaited: answers follow the frames, although a chunk is  *)
(* discarded beyond its newline, for any number of clients and workers.     *)
THEOREM HandledCorrect == Spec => []HandledFramesAreAwaited
<1>1. IInv => HandledFramesAreAwaited
  <2> SUFFICES ASSUME IInv, NEW w \in Workers, workers[w].stage = "handling"
               PROVE  LET frames == clients[workers[w].conn].awaiting
                      IN  \E k \in DOMAIN frames : frames[k] = workers[w].line[1].frame
    BY DEF HandledFramesAreAwaited
  <2> DEFINE c == workers[w].conn
  <2>1. /\ GoodWorker(workers[w]) /\ workers[w].line \in Seq(Piece)
        /\ c \in Clients /\ GoodLine(clients[c], workers[w].line)
        /\ Len(workers[w].line) \in Nat
    BY WorkerFacts
  <2>2. 1 \in 1..Len(workers[w].line)
    BY <2>1 DEF GoodWorker
  <2>3. clients[c].awaiting \in Seq(Numbers)
    BY <2>1, ClientFacts
  <2>4. DOMAIN clients[c].awaiting = 1..Len(clients[c].awaiting)
    BY <2>3
  <2> QED
    BY <2>1, <2>2, <2>4 DEF GoodLine, GoodPieces, Awaited
<1> QED
  BY <1>1, IInvInit, IInvNext, PTL DEF Spec
=============================================================================
