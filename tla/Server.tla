------------------------------- MODULE Server -------------------------------
(***************************************************************************)
(* The transport of the daemon (apps/kitt-memoryd/src/main.rs): an accept   *)
(* loop that fills a bounded queue of connections, a fixed pool of workers  *)
(* that share the queue's receiver behind a mutex, and the loop in which a  *)
(* worker serves one connection frame by frame until it ends.               *)
(*                                                                          *)
(* A frame is a run of pieces, the last of which carries the newline; a     *)
(* read returns any number of the pieces that have arrived.  What a frame   *)
(* asks for, and the answer, are in RequestReceipts; here only which frame  *)
(* an answer belongs to matters, so frames are numbered 0 and 1 in turn.  A *)
(* client may send frames ahead of their answers, trickle, fall silent,     *)
(* leave at any time and connect again.                                     *)
(***************************************************************************)
EXTENDS Integers, Sequences

CONSTANTS
  Clients, Workers,
  Chatty,          \* the clients that may go on sending frames for ever
  Ahead,           \* client -> frames it may have under way, 1 or 2
  MaxConnections,  \* bound of the queue
  MaxFramePieces,  \* MAX_FRAME_BYTES, in pieces
  Deadline,        \* time a frame may take, in ticks
  MaxBuffered,     \* bound on the pieces under way to the server
  MaxFrames,       \* bound on the frames of a connection that is not chatty
  Nobody           \* no client, no worker

VARIABLES
  clients,   \* client -> its connection, from both ends
  queue,     \* the channel: connections accepted and not taken up
  receiver,  \* the worker that holds the receiver's mutex, or Nobody
  workers    \* worker -> what it is doing

vars == <<clients, queue, receiver, workers>>

Numbers == 0..1
Piece   == [frame: Numbers, first: BOOLEAN, last: BOOLEAN]

ASSUME ServerAssumption ==
  /\ Chatty \subseteq Clients
  /\ Ahead \in [Clients -> 1..2]
  /\ {MaxConnections, MaxFramePieces, Deadline, MaxBuffered} \subseteq Nat \ {0}
  /\ MaxFrames \in Nat
  /\ Nobody \notin Clients \cup Workers

\* stream: pieces sent and not read.  unfinished: the last frame lacks its
\* end.  awaiting: frames begun and neither answered nor given up, in order.
NoConnection == [status |-> "closed", gone |-> FALSE, stream |-> <<>>,
                 unfinished |-> FALSE, sent |-> 0, awaiting |-> <<>>]

\* left: until the deadline.  age (history): since the frame was begun.
IdleWorker == [stage |-> "idle", conn |-> Nobody, line |-> <<>>,
               left |-> 0, age |-> 0]

Init ==
  /\ clients = [c \in Clients |-> NoConnection]
  /\ queue = <<>>
  /\ receiver = Nobody
  /\ workers = [w \in Workers |-> IdleWorker]

-----------------------------------------------------------------------------
(* Clients and the accept loop                                              *)

\* try_send.  When the queue is full the connection is dropped at once,
\* which leaves the client where it was.
Connect(c) ==
  /\ clients[c].status = "closed"
  /\ Len(queue) < MaxConnections
  /\ clients' = [clients EXCEPT ![c].status = "queued"]
  /\ queue' = Append(queue, c)
  /\ UNCHANGED <<receiver, workers>>

Connected(c) == clients[c].status # "closed" /\ ~clients[c].gone

Latest(c) == clients[c].awaiting[Len(clients[c].awaiting)]

Begin(c, last) ==
  LET number == IF clients[c].awaiting = <<>> THEN 0 ELSE 1 - Latest(c)
  IN  /\ Connected(c) /\ ~clients[c].unfinished
      /\ Len(clients[c].stream) < MaxBuffered
      /\ Len(clients[c].awaiting) < Ahead[c]
      /\ c \in Chatty \/ clients[c].sent < MaxFrames
      /\ clients' = [clients EXCEPT
           ![c].stream = Append(@, [frame |-> number, first |-> TRUE,
                                    last |-> last]),
           ![c].unfinished = ~last,
           ![c].sent = IF c \in Chatty THEN @ ELSE @ + 1,
           ![c].awaiting = Append(@, number)]
      /\ UNCHANGED <<queue, receiver, workers>>

Continue(c, last) ==
  /\ Connected(c) /\ clients[c].unfinished
  /\ Len(clients[c].stream) < MaxBuffered
  /\ clients' = [clients EXCEPT
       ![c].stream = Append(@, [frame |-> Latest(c), first |-> FALSE,
                                last |-> last]),
       ![c].unfinished = ~last]
  /\ UNCHANGED <<queue, receiver, workers>>

Leave(c) ==
  /\ Connected(c)
  /\ clients' = [clients EXCEPT ![c].gone = TRUE]
  /\ UNCHANGED <<queue, receiver, workers>>

-----------------------------------------------------------------------------
(* Workers                                                                  *)

TakeReceiver(w) ==
  /\ workers[w].stage = "idle"
  /\ receiver = Nobody
  /\ receiver' = w
  /\ workers' = [workers EXCEPT ![w].stage = "receiving"]
  /\ UNCHANGED <<clients, queue>>

\* A worker at the start of a frame of connection c.
Reading(c) == [stage |-> "reading", conn |-> c, line |-> <<>>,
               left |-> Deadline, age |-> 0]

\* Fault: the guard of the receiver lives as long as the connection.
ReceiveKeepingGuard(w) ==
  /\ workers[w].stage = "receiving"
  /\ queue # <<>>
  /\ queue' = Tail(queue)
  /\ clients' = [clients EXCEPT ![Head(queue)].status = "open"]
  /\ workers' = [workers EXCEPT ![w] = Reading(Head(queue))]
  /\ UNCHANGED receiver

\* recv returns, and the guard of the receiver ends with its block.
Receive(w) ==
  /\ workers[w].stage = "receiving"
  /\ queue # <<>>
  /\ queue' = Tail(queue)
  /\ receiver' = Nobody
  /\ clients' = [clients EXCEPT ![Head(queue)].status = "open"]
  /\ workers' = [workers EXCEPT ![w] = Reading(Head(queue))]

\* serve_connection returns; the stream is dropped.
Close(w) ==
  /\ clients' = [clients EXCEPT ![workers[w].conn] = NoConnection]
  /\ workers' = [workers EXCEPT ![w] = IdleWorker]
  /\ receiver' = IF receiver = w THEN Nobody ELSE receiver
  /\ UNCHANGED queue

\* Fault: what was read is only peeked at, and stays in the stream.
Peeked(stream, n) == stream

\* A chunk is consumed as a whole, with what follows the newline in it.
Unread(stream, n) == SubSeq(stream, n + 1, Len(stream))

\* The chunk up to its first newline; all of it, if there is none.
UpToNewline(chunk) ==
  SubSeq(chunk, 1,
    IF \E k \in DOMAIN chunk : chunk[k].last
    THEN CHOOSE k \in DOMAIN chunk :
           chunk[k].last /\ \A j \in 1..k - 1 : ~chunk[j].last
    ELSE Len(chunk))

\* Fault: the deadline is one for each read.
LeftRearmed(w) == Deadline

\* The deadline is fixed when the frame is begun.
LeftAfterRead(w) == workers[w].left

\* One iteration of read_frame that receives bytes.
Read(w, n) ==
  LET c      == workers[w].conn
      stream == clients[c].stream
      taken  == UpToNewline(SubSeq(stream, 1, n))
      line   == workers[w].line \o taken
  IN  /\ workers[w].stage = "reading"
      /\ workers[w].left > 0
      /\ n <= Len(stream)
      /\ Len(workers[w].line) + n <= MaxFramePieces + 1
      /\ \/ /\ Len(line) > MaxFramePieces
            /\ Close(w)
         \/ /\ Len(line) <= MaxFramePieces
            /\ workers' = [workers EXCEPT
                 ![w].line = line,
                 ![w].left = LeftAfterRead(w),
                 ![w].stage = IF taken[Len(taken)].last THEN "handling" ELSE @]
            /\ clients' = [clients EXCEPT ![c].stream = Unread(stream, n)]
            /\ UNCHANGED <<queue, receiver>>

\* read returns 0: the client has left and everything it sent is read.
EndOfStream(w) ==
  /\ workers[w].stage = "reading"
  /\ clients[workers[w].conn].gone
  /\ clients[workers[w].conn].stream = <<>>
  /\ Close(w)

\* Fault: only a connection without a frame under way times out.
ExpiredWhenIdle(w) == workers[w].left = 0 /\ workers[w].line = <<>>

Expired(w) == workers[w].left = 0

TimeOut(w) ==
  /\ workers[w].stage = "reading"
  /\ Expired(w)
  /\ Close(w)

\* The line is one whole frame; anything else is answered invalid_json.
WellFormed(line) == /\ line[1].first
                    /\ \A k \in DOMAIN line : line[k].frame = line[1].frame

\* The frames after number: an answer settles the earlier ones too.
After(frames, number) ==
  LET k == CHOOSE k \in DOMAIN frames : frames[k] = number
  IN  SubSeq(frames, k + 1, Len(frames))

\* handle, and its answer under the limit (or frame_too_large) is written.
Reply(w) ==
  LET c == workers[w].conn
      line == workers[w].line
  IN  /\ workers[w].stage = "handling"
      /\ clients' = [clients EXCEPT ![c].awaiting =
           IF WellFormed(line) /\ \E k \in DOMAIN @ : @[k] = line[1].frame
           THEN After(@, line[1].frame) ELSE @]
      /\ workers' = [workers EXCEPT ![w] = Reading(c)]
      /\ UNCHANGED <<queue, receiver>>

\* handle, and the client has left or does not read for eight seconds.
WriteFails(w) ==
  /\ workers[w].stage = "handling"
  /\ Close(w)

WorkerStep(w) ==
  \/ TakeReceiver(w)
  \/ Receive(w)
  \/ \E n \in 1..MaxBuffered : Read(w, n)
  \/ EndOfStream(w)
  \/ TimeOut(w)
  \/ Reply(w)
  \/ WriteFails(w)

\* Time passes for every worker that reads; a deadline stops at 0.
Tick ==
  LET running == {w \in Workers : /\ workers[w].stage = "reading"
                                  /\ workers[w].left > 0}
  IN  /\ running # {}
      /\ workers' = [w \in Workers |->
           IF w \in running
           THEN [workers[w] EXCEPT !.left = @ - 1, !.age = @ + 1]
           ELSE workers[w]]
      /\ UNCHANGED <<clients, queue, receiver>>

Next ==
  \/ \E c \in Clients : Connect(c)
  \/ \E c \in Clients, last \in BOOLEAN : Begin(c, last)
  \/ \E c \in Clients, last \in BOOLEAN : Continue(c, last)
  \/ \E c \in Clients : Leave(c)
  \/ \E w \in Workers : WorkerStep(w)
  \/ Tick

(* Threads run, store calls end and time passes.  Nothing is assumed of the *)
(* clients.                                                                 *)
Fairness == WF_vars(Tick) /\ \A w \in Workers : WF_vars(WorkerStep(w))

Spec == Init /\ [][Next]_vars /\ Fairness

-----------------------------------------------------------------------------
(* Properties                                                               *)

Connection == [status: {"closed", "queued", "open"}, gone: BOOLEAN,
               stream: UNION {[1..n -> Piece] : n \in 0..MaxBuffered},
               unfinished: BOOLEAN, sent: 0..MaxFrames,
               awaiting: UNION {[1..n -> Numbers] : n \in 0..2}]

(* Types; the connections that are open are those that one worker serves,   *)
(* the queued ones are in the queue once; and no frame is read for longer   *)
(* than its deadline, however the client trickles it.                       *)
TypeOK ==
  /\ clients \in [Clients -> Connection]
  /\ Len(queue) <= MaxConnections
  /\ receiver \in Workers \cup {Nobody}
  /\ \A w \in Workers :
       /\ workers[w].stage \in {"idle", "receiving", "reading", "handling"}
       /\ Len(workers[w].line) <= MaxFramePieces
       /\ workers[w].age <= Deadline
       /\ workers[w].stage \in {"reading", "handling"}
            <=> workers[w].conn # Nobody
  /\ \A c \in Clients :
       /\ clients[c].status = "open" <=> \E w \in Workers : workers[w].conn = c
       /\ clients[c].status = "queued" <=> \E k \in DOMAIN queue : queue[k] = c
  /\ \A v, w \in Workers :
       v # w /\ workers[v].conn = workers[w].conn => workers[v].conn = Nobody

(* Answers follow frames: what a worker handles as a frame is a frame that  *)
(* the client has sent on this connection and not seen settled, so no frame *)
(* is handled twice, after a later one, or put together from two; although  *)
(* frames sent ahead may be lost with the chunk that carries them.          *)
HandledFramesAreAwaited ==
  \A w \in Workers :
    workers[w].stage = "handling" /\ WellFormed(workers[w].line) =>
      LET frames == clients[workers[w].conn].awaiting
      IN  \E k \in DOMAIN frames : frames[k] = workers[w].line[1].frame

(* Whatever a client begins to send is answered, superseded by the answer   *)
(* to a later frame, or its connection is closed; a client never waits on   *)
(* an open connection for ever.                                             *)
FramesAreSettled ==
  \A c \in Clients, n \in Numbers :
    (\E k \in DOMAIN clients[c].awaiting : clients[c].awaiting[k] = n)
      ~> ~(\E k \in DOMAIN clients[c].awaiting : clients[c].awaiting[k] = n)

(* A queued connection is taken up, as long as fewer clients than there are *)
(* workers keep their connections busy without end.                         *)
QueuedConnectionsAreServed ==
  \A c \in Clients : clients[c].status = "queued"
                       ~> clients[c].status # "queued"
=============================================================================
