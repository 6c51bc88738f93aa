------------------------------ MODULE EventLoop ------------------------------
(***************************************************************************)
(* The event loop of db_net (net::AsyncLoop over epoll) and what it does   *)
(* with connections, buffers and memory blocks.                            *)
(*                                                                         *)
(* A turn of the loop (AsyncLoop::process) waits for events and then       *)
(* handles each one to the end: accept, read and execute a command, write, *)
(* disconnect.  The environment runs beside it: peers connect, send        *)
(* requests in pieces, take answers, half close or reset, timers run out.  *)
(*                                                                         *)
(* Data is cut into pieces.  A piece knows whose request it belongs to,    *)
(* which one, and whether it is the last, so that a stray one is noticed.  *)
(* Client sockets are blocking (setNonBlocking(newFD) is commented out):   *)
(* a write(2) holds the whole loop until everything has been taken.        *)
(***************************************************************************)
EXTENDS Naturals, Sequences, FiniteSets, FiniteSetsExt

CONSTANTS
  Peer,          \* the programs that connect to the server
  MaxClients,    \* conf_maxClients_
  MaxFD,         \* conf_rlimitNoFile_: descriptors of clients are below it
  MaxRequest,    \* conf_maxRequestSize_, in pieces
  Pieces,        \* Pieces[p]: pieces of a request of p (bounds the model)
  Asks,          \* Asks[p]: requests of p on one connection (bounds the model)
  Patient,       \* peers that wait for an answer before they send again
  Ahead,         \* requests any other peer sends before the answer to the first
  SmallCapacity, \* pieces of input that fit in a small block
  LargeBlocks,   \* number of large blocks
  SocketRoom     \* pieces of an answer that fit in a socket

ASSUME LoopAssumption ==
  /\ {MaxClients, MaxRequest, Ahead, SmallCapacity, SocketRoom}
        \subseteq Nat \ {0}
  /\ LargeBlocks \in Nat
  /\ MaxFD \in Nat /\ MaxClients < MaxFD
  /\ SmallCapacity <= MaxRequest
  /\ Patient \subseteq Peer
  /\ Asks \in [Peer -> Nat \ {0}]
  /\ Pieces \in [Peer -> Nat \ {0}]

VARIABLES
  conn,      \* conn[p]: state of p's connection, as the kernel knows it
  inq,       \* inq[p]: sent by p, not read by the server
  outq,      \* outq[p]: written by the server, not taken by p
  sent,      \* sent[p]: the last piece p has sent
  answered,  \* answered[p]: the last piece written to p's socket
  clients,   \* clients_: file descriptor -> Client
  dense,     \* clients_: the order of its dense array
  sys,       \* the block of the worker's system_buffer_ (nobody reads what it holds)
  free,      \* free blocks of each tier of the memory manager
  batch,     \* events of this turn that are not handled yet
  writing,   \* the client write(2) is waiting for, or 0
  run        \* keepProcessing_

(* Two shapes of the bounds: who waits for an answer asks once, in two pieces; *)
(* or everybody asks once.                                                   *)
PatientAskOnce     == [p \in Peer |-> IF p \in Patient THEN 1 ELSE 2]
PatientSendHalves  == [p \in Peer |-> IF p \in Patient THEN 2 ELSE 1]
AskOnce            == [p \in Peer |-> 1]

peerVars == <<conn, inq, outq, sent, answered>>
serverVars == <<clients, dense, sys, free, batch, writing, run>>
vars == <<conn, inq, outq, sent, answered, clients, dense, sys, free, batch, writing,
          run>>

-----------------------------------------------------------------------------
(* Pieces, buffers, blocks *)

\* The most that a peer has sent and the server has not read.
MaxInput == Max({Pieces[p] * (IF p \in Patient THEN 1 ELSE Ahead) : p \in Peer})

Piece == [kind : {"none", "ask", "answer"}, own : Peer,
          no : Nat, part : Nat, end : BOOLEAN]

\* What stands for "nothing sent yet" and "nothing answered yet" on a connection.
NoPiece(p) == [kind |-> "none", own |-> p, no |-> 0, part |-> 0, end |-> TRUE]

\* Descriptors of clients; the kernel gives the lowest free one.
FD == 1 .. MaxFD

\* The listening socket, serverFD_.
ServerFD == 0

\* Two of the eight tiers: 1 a small block, 2 a large one; 0 is no block.
Small == 1
Large == 2
Tier == {Small, Large}

\* MemoryManager: one small block for every client and one for the worker.
TotalBlocks == [t \in Tier |-> IF t = Small THEN MaxClients + 1 ELSE LargeBlocks]

Empty == [data |-> <<>>, blk |-> 0]

\* Client: its IOBuffer, the interest it is registered with, its timer.
Client == [peer : Peer, data : Seq(Piece), blk : {0} \cup Tier,
           want : {"READ", "WRITE"}, idle : BOOLEAN]
NoClient == [peer |-> "none"]
Connected == {fd \in FD : clients[fd] # NoClient}
PeersIn == {clients[fd].peer : fd \in Connected}

\* allocate(context, needed): the block kept or found, 0 when there is none.
allocate(f, blk, need) ==
  LET found == {t \in need .. Large : f[t] > 0} IN
  IF blk >= need THEN blk ELSE IF found = {} THEN 0 ELSE Min(found)

\* The free blocks after a buffer gave back old and got new.
Exchange(f, old, new) ==
  [t \in Tier |-> (f[t] + (IF t = old THEN 1 ELSE 0)) - (IF t = new THEN 1 ELSE 0)]

\* The tier that n pieces of input need (provideBufferAtLeast, findTier_).
TierOf(n) == IF n <= SmallCapacity THEN Small ELSE Large

Init ==
  /\ conn = [p \in Peer |-> "none"]
  /\ inq = [p \in Peer |-> <<>>]
  /\ outq = [p \in Peer |-> <<>>]
  /\ sent = [p \in Peer |-> NoPiece(p)]
  /\ answered = [p \in Peer |-> NoPiece(p)]
  /\ clients = [fd \in FD |-> NoClient]
  /\ dense = <<>>
  /\ sys = 0
  /\ free = TotalBlocks
  /\ batch = {}
  /\ writing = 0
  /\ run = "on"

-----------------------------------------------------------------------------
(* Peers and the kernel's side of a connection *)

\* connect(2): the connection waits in the backlog until it is accepted.
Connect(p) ==
  /\ run # "off"
  /\ conn[p] \in {"none", "closed"}
  /\ conn' = [conn EXCEPT ![p] = "open"]
  /\ inq' = [inq EXCEPT ![p] = <<>>]
  /\ outq' = [outq EXCEPT ![p] = <<>>]
  /\ sent' = [sent EXCEPT ![p] = NoPiece(p)]
  /\ answered' = [answered EXCEPT ![p] = NoPiece(p)]
  /\ UNCHANGED serverVars

\* Requests that p has sent and whose answer was not written to the end.
Outstanding(p) == sent[p].no - (answered[p].no - (IF answered[p].end THEN 0 ELSE 1))

\* p sends the next piece of a request, or the first one of its next request.
Send(p) ==
  /\ conn[p] = "open"
  /\ LET old  == sent[p]
         part == IF old.end THEN 1 ELSE old.part + 1
         new  == [kind |-> "ask", own |-> p, part |-> part, end |-> part = Pieces[p],
                  no   |-> IF old.end THEN old.no + 1 ELSE old.no] IN
     /\ old.end => /\ new.no <= Asks[p]
                   /\ Outstanding(p) < (IF p \in Patient THEN 1 ELSE Ahead)
     /\ sent' = [sent EXCEPT ![p] = new]
     /\ inq' = [inq EXCEPT ![p] = Append(@, new)]
  /\ UNCHANGED <<conn, outq, answered>>
  /\ UNCHANGED serverVars

\* p takes a piece of an answer.
Receive(p) ==
  /\ conn[p] \in {"open", "shut", "closed"}
  /\ outq[p] # <<>>
  /\ outq' = [outq EXCEPT ![p] = Tail(@)]
  /\ UNCHANGED <<conn, inq, sent, answered>>
  /\ UNCHANGED serverVars

\* p will send no more (FIN), or its connection breaks (RST).
Leave(p) ==
  /\ conn[p] \in {"open", "shut"}
  /\ \E s \in {"shut", "reset"} \ {conn[p]} : conn' = [conn EXCEPT ![p] = s]
  /\ UNCHANGED <<inq, outq, sent, answered>>
  /\ UNCHANGED serverVars

-----------------------------------------------------------------------------
(* A turn: wait, accept, disconnect *)

\* Connections made and not accepted yet.
Backlog == {p \in Peer : conn[p] \in {"open", "shut", "reset"}} \ PeersIn

\* What epoll_wait finds for a client (getFDStatus).
StatusOf(c) ==
  CASE conn[c.peer] = "reset" -> "ERROR"
    [] conn[c.peer] # "reset" /\ c.want = "READ"
         /\ (inq[c.peer] # <<>> \/ conn[c.peer] = "shut") -> "READ"
    [] conn[c.peer] # "reset" /\ c.want = "WRITE"
         /\ Len(outq[c.peer]) < SocketRoom -> "WRITE"
    [] OTHER -> "NONE"

Ready ==
  {e \in {[fd |-> fd, status |-> StatusOf(clients[fd]), peer |-> clients[fd].peer] :
            fd \in Connected} : e.status # "NONE"}
  \cup {[fd |-> ServerFD, status |-> "READ", peer |-> "none"] : p \in Backlog}

\* The main thread is between two turns of the loop.
BetweenTurns == batch = {} /\ writing = 0

\* The timer of a client passes the connection timeout.  Only idle_loop looks at
\* timers, so it is enough if they run out between two turns.
Tick(fd) ==
  /\ BetweenTurns
  /\ fd \in Connected
  /\ ~clients[fd].idle
  /\ clients' = [clients EXCEPT ![fd].idle = TRUE]
  /\ UNCHANGED <<dense, sys, free, batch, writing, run>>
  /\ UNCHANGED peerVars

\* selector_.wait: at most MaxClients events, one per descriptor.
Wait ==
  /\ run = "on"
  /\ BetweenTurns
  /\ Ready # {}
  /\ batch' \in kSubset(Min({Cardinality(Ready), MaxClients}), Ready)
  /\ UNCHANGED <<clients, dense, sys, free, writing, run>>
  /\ UNCHANGED peerVars

\* The loop turns to the event of fd.
Handle(fd, status) ==
  /\ writing = 0
  /\ \E e \in batch : /\ e.fd = fd /\ e.status = status
                      /\ batch' = batch \ {e}

\* SparseArray::remove: the last element takes the place of the removed one.
RemoveDense(fd) ==
  [i \in 1 .. Len(dense) - 1 |-> IF dense[i] = fd THEN dense[Len(dense)] ELSE dense[i]]

\* Mutant: the buffer of a removed client keeps its block.
DisconnectLeaks(fd, blk, f) ==
  /\ clients' = [clients EXCEPT ![fd] = NoClient]
  /\ dense' = RemoveDense(fd)
  /\ free' = f
  /\ conn' = [conn EXCEPT ![clients[fd].peer] = "closed"]
  /\ inq' = [inq EXCEPT ![clients[fd].peer] = <<>>]
  /\ UNCHANGED <<outq, sent, answered>>

\* client_Disconnect_: blk is the block its buffer has now, f the free blocks.
client_Disconnect(fd, blk, f) ==
  /\ clients' = [clients EXCEPT ![fd] = NoClient]
  /\ dense' = RemoveDense(fd)
  /\ free' = Exchange(f, blk, 0)
  /\ conn' = [conn EXCEPT ![clients[fd].peer] = "closed"]
  /\ inq' = [inq EXCEPT ![clients[fd].peer] = <<>>]
  /\ UNCHANGED <<outq, sent, answered>>

\* Descriptors in ascending order.
Ascending(fds) ==
  CHOOSE s \in [1 .. Cardinality(fds) -> fds] :
    \A i, j \in DOMAIN s : i < j => s[i] < s[j]

\* client_Connect_ until the backlog is empty: clients get the lowest free
\* descriptors; those over the limit are closed at once.
client_Connect ==
  LET open   == FD \ Connected
      count  == Min({MaxClients - Cardinality(Connected), Cardinality(Backlog)})
      lowest == {fd \in open : Cardinality({g \in open : g < fd}) < count} IN
  /\ Handle(ServerFD, "READ")
  /\ \E who \in [lowest -> Backlog] :
       LET dropped == Backlog \ {who[fd] : fd \in lowest} IN
       /\ \A fd, g \in lowest : who[fd] = who[g] => fd = g
       /\ clients' = [fd \in FD |->
            IF fd \in lowest
            THEN [peer |-> who[fd], data |-> <<>>, blk |-> 0, want |-> "READ",
                  idle |-> FALSE]
            ELSE clients[fd]]
       /\ dense' = dense \o Ascending(lowest)
       /\ conn' = [p \in Peer |-> IF p \in dropped THEN "closed" ELSE conn[p]]
       /\ inq' = [p \in Peer |-> IF p \in dropped THEN <<>> ELSE inq[p]]
  /\ UNCHANGED <<outq, sent, answered, sys, free, writing, run>>

\* FDStatus::ERROR.
ErrorEvent(fd) ==
  /\ Handle(fd, "ERROR")
  /\ client_Disconnect(fd, clients[fd].blk, free)
  /\ UNCHANGED <<sys, writing, run>>

\* expireFD_: disconnect the first client whose timer has expired.
expireFD(fd) ==
  /\ \E i \in DOMAIN dense : /\ dense[i] = fd /\ clients[fd].idle
                             /\ \A j \in 1 .. i - 1 : ~clients[dense[j]].idle
  /\ client_Disconnect(fd, clients[fd].blk, free)

\* Mutant: clients are expired in every turn, with events not handled yet.
idle_loop_EveryTurn ==
  /\ run = "on"
  /\ writing = 0
  /\ \E fd \in FD : expireFD(fd)
  /\ UNCHANGED <<sys, batch, writing, run>>

\* WaitStatus::NONE: nothing happened for the whole wait.
idle_loop ==
  /\ run = "on"
  /\ BetweenTurns
  /\ Ready = {}
  /\ \E fd \in FD : expireFD(fd)
  /\ UNCHANGED <<sys, batch, writing, run>>

\* process() returned false after SHUTDOWN, or the turn ended with SIGINT or
\* SIGTERM pending: the process exits and the kernel closes its sockets.
Stop ==
  /\ run # "off"
  /\ BetweenTurns
  /\ run' = "off"
  /\ conn' = [p \in Peer |-> IF conn[p] = "none" THEN "none" ELSE "closed"]
  /\ inq' = [p \in Peer |-> <<>>]
  /\ clients' = [fd \in FD |-> NoClient]
  /\ dense' = <<>>
  /\ sys' = 0
  /\ free' = TotalBlocks
  /\ UNCHANGED <<outq, sent, answered, batch, writing>>

-----------------------------------------------------------------------------
(* client_Read_: read, parse, execute *)

\* The buffer of fd after a read of n pieces (block 0: no memory).
Input(fd, n) ==
  LET c == clients[fd] IN
  [data |-> c.data \o SubSeq(inq[c.peer], 1, n),
   blk  |-> allocate(free, c.blk, TierOf(Len(c.data) + 1))]

\* The free blocks after that read.
Provided(fd, n) == Exchange(free, clients[fd].blk, Input(fd, n).blk)

\* read(2) of n pieces; a small block takes no more than its capacity.
Reads(fd, n) ==
  /\ Handle(fd, "READ")
  /\ n \in 1 .. Len(inq[clients[fd].peer])
  /\ Input(fd, n).blk # 0
  /\ Input(fd, n).blk = Small => Len(Input(fd, n).data) <= SmallCapacity

\* The n pieces leave the socket, the connection stays.
Consume(fd, n) ==
  LET p == clients[fd].peer IN
  /\ inq' = [inq EXCEPT ![p] = SubSeq(@, n + 1, Len(@))]
  /\ UNCHANGED <<conn, outq, sent, answered, dense>>

\* The client after its timer was restarted, with a buffer and what it waits for.
Served(fd, buffer, want) ==
  [clients EXCEPT ![fd] =
     [peer |-> @.peer, data |-> buffer.data, blk |-> buffer.blk, want |-> want,
      idle |-> FALSE]]

\* RedisProtocol: a request has to start with its first piece.  Characters are
\* left out; ReadRefused stands for malformed requests.
Parse(data) ==
  IF data[1].part # 1 THEN "ERROR"
  ELSE IF \E i \in DOMAIN data : data[i].end THEN "OK" ELSE "BUFFER_NOT_READ"

\* An answer of n pieces to the request that buffer data starts with.
AnswerTo(data, n) ==
  [i \in 1 .. n |-> [kind |-> "answer", own |-> data[1].own, no |-> data[1].no,
                     part |-> i, end |-> i = n]]

\* Result::processSet: clear system_buffer_, find a block for the answer, fill
\* it; without memory the buffer stays empty.  f: the free blocks before.
processSet(f, answer, need) ==
  LET f1 == Exchange(f, sys, 0)
      t  == allocate(f1, 0, need) IN
  [buffer |-> IF t = 0 THEN Empty ELSE [data |-> answer, blk |-> t],
   free   |-> Exchange(f1, 0, t)]

\* No memory to read into, or end of file: disconnect.
ReadNothing(fd) ==
  /\ Handle(fd, "READ")
  /\ \/ Input(fd, 0).blk = 0
     \/ inq[clients[fd].peer] = <<>>
  /\ client_Disconnect(fd, clients[fd].blk, free)
  /\ UNCHANGED <<sys, writing, run>>

\* The request is too long, does not start with its first piece, or is malformed
\* (any request may be): disconnect.
ReadRefused(fd, n) ==
  /\ Reads(fd, n)
  /\ client_Disconnect(fd, Input(fd, n).blk, Provided(fd, n))
  /\ UNCHANGED <<sys, writing, run>>

\* WorkerStatus::PASS: a part of a request, wait for more.
ReadPass(fd, n) ==
  /\ Reads(fd, n)
  /\ Len(Input(fd, n).data) <= MaxRequest
  /\ Parse(Input(fd, n).data) = "BUFFER_NOT_READ"
  /\ clients' = Served(fd, Input(fd, n), "READ")
  /\ free' = Provided(fd, n)
  /\ Consume(fd, n)
  /\ UNCHANGED <<sys, writing, run>>

\* A whole request is there.
Parsed(fd, n) ==
  /\ Reads(fd, n)
  /\ Len(Input(fd, n).data) <= MaxRequest
  /\ Parse(Input(fd, n).data) = "OK"

\* A command that is not known: emitError answers in the client's own buffer.
ReadUnknown(fd, n) ==
  LET input == Input(fd, n)
      f     == Exchange(Provided(fd, n), input.blk, 0)
      t     == allocate(f, 0, Small) IN
  /\ Parsed(fd, n)
  /\ clients' = Served(fd, [data |-> AnswerTo(input.data, 1), blk |-> t], "WRITE")
  /\ free' = Exchange(f, 0, t)
  /\ Consume(fd, n)
  /\ UNCHANGED <<sys, writing, run>>

\* A command is executed; its answer is swapped with the input, and whatever
\* else the input held stays behind in system_buffer_.
ReadCommand(fd, n, size) ==
  LET input  == Input(fd, n)
      result == processSet(Provided(fd, n), AnswerTo(input.data, size), size) IN
  /\ Parsed(fd, n)
  /\ \/ /\ result.buffer # Empty
        /\ clients' = Served(fd, result.buffer, "WRITE")
        /\ sys' = input.blk
        /\ free' = result.free
        /\ Consume(fd, n)
     \/ /\ result.buffer = Empty
        /\ sys' = 0
        /\ client_Disconnect(fd, input.blk, result.free)
  /\ UNCHANGED <<writing, run>>

\* EXIT: the answer stays in system_buffer_, the client is disconnected.
ReadExit(fd, n) ==
  LET input  == Input(fd, n)
      result == processSet(Provided(fd, n), AnswerTo(input.data, 1), Small) IN
  /\ Parsed(fd, n)
  /\ sys' = result.buffer.blk
  /\ client_Disconnect(fd, input.blk, result.free)
  /\ UNCHANGED <<writing, run>>

\* SHUTDOWN: the loop ends after this turn; the client's buffer is left as it is.
ReadShutdown(fd, n) ==
  LET input  == Input(fd, n)
      result == processSet(Provided(fd, n), AnswerTo(input.data, 1), Small) IN
  /\ Parsed(fd, n)
  /\ run' = "stopping"
  /\ clients' = Served(fd, input, "READ")
  /\ sys' = result.buffer.blk
  /\ free' = result.free
  /\ Consume(fd, n)
  /\ UNCHANGED writing

-----------------------------------------------------------------------------
(* client_Write_ *)

\* write(2) is called.
WriteStart(fd) ==
  /\ Handle(fd, "WRITE")
  /\ writing' = fd
  /\ UNCHANGED <<clients, dense, sys, free, run>>
  /\ UNCHANGED peerVars

\* The kernel takes a piece.  Nothing looks at the buffer before write(2) returns,
\* so it is popped piece by piece; the last one gives the block back.
WritePiece(fd) ==
  LET c == clients[fd] IN
  /\ fd = writing
  /\ conn[c.peer] # "reset"
  /\ c.data # <<>>
  /\ Len(outq[c.peer]) < SocketRoom
  /\ outq' = [outq EXCEPT ![c.peer] = Append(@, Head(c.data))]
  /\ answered' = [answered EXCEPT ![c.peer] = Head(c.data)]
  /\ LET blk == IF Len(c.data) = 1 THEN 0 ELSE c.blk IN
     /\ clients' = Served(fd, [data |-> Tail(c.data), blk |-> blk], "WRITE")
     /\ free' = Exchange(free, c.blk, blk)
  /\ UNCHANGED <<conn, inq, sent, dense, sys, batch, writing, run>>

\* Mutant: the selector is not told that the client waits for a request again.
WriteDoneKeepsInterest(fd) ==
  /\ fd = writing
  /\ clients[fd].data = <<>>
  /\ writing' = 0
  /\ UNCHANGED <<clients, dense, sys, free, batch, run>>
  /\ UNCHANGED peerVars

\* write(2) has written everything: wait for the next request.
WriteDone(fd) ==
  /\ fd = writing
  /\ clients[fd].data = <<>>
  /\ writing' = 0
  /\ clients' = [clients EXCEPT ![fd].want = "READ"]
  /\ UNCHANGED <<dense, sys, free, batch, run>>
  /\ UNCHANGED peerVars

\* Mutant: after a short write the client waits to read, its answer is half sent.
WriteInterruptedForgets(fd) ==
  /\ fd = writing
  /\ clients[fd].data # <<>>
  /\ Len(outq[clients[fd].peer]) = SocketRoom
  /\ writing' = 0
  /\ clients' = [clients EXCEPT ![fd].want = "READ"]
  /\ UNCHANGED <<dense, sys, free, batch, run>>
  /\ UNCHANGED peerVars

\* Mutant: after a short write one piece less is popped than was written.
WriteInterruptedRepeats(fd) ==
  LET c == clients[fd] IN
  /\ fd = writing
  /\ c.data # <<>>
  /\ Len(outq[c.peer]) = SocketRoom
  /\ writing' = 0
  /\ clients' = [clients EXCEPT ![fd].data = <<answered[c.peer]>> \o c.data]
  /\ UNCHANGED <<dense, sys, free, batch, run>>
  /\ UNCHANGED peerVars

\* A signal, or a reset after some pieces, ends a write(2) that waits for room:
\* the rest is left for later.
WriteInterrupted(fd) ==
  /\ fd = writing
  /\ clients[fd].data # <<>>
  /\ Len(outq[clients[fd].peer]) = SocketRoom
  /\ writing' = 0
  /\ UNCHANGED <<clients, dense, sys, free, batch, run>>
  /\ UNCHANGED peerVars

\* write(2) fails: disconnect.
WriteError(fd) ==
  /\ fd = writing
  /\ conn[clients[fd].peer] = "reset"
  /\ clients[fd].data # <<>>
  /\ writing' = 0
  /\ client_Disconnect(fd, clients[fd].blk, free)
  /\ UNCHANGED <<sys, batch, run>>

-----------------------------------------------------------------------------
client_Read(fd) ==
  \/ ReadNothing(fd)
  \/ \E n \in 1 .. MaxInput :
       \/ ReadRefused(fd, n)
       \/ ReadPass(fd, n)
       \/ ReadUnknown(fd, n)
       \/ \E size \in Tier : ReadCommand(fd, n, size)
       \/ ReadExit(fd, n)
       \/ ReadShutdown(fd, n)

client_Write(fd) ==
  WriteStart(fd) \/ WritePiece(fd) \/ WriteDone(fd) \/ WriteInterrupted(fd) \/ WriteError(fd)

\* The handlers of one turn.
HandlerStep ==
  \/ client_Connect
  \/ \E fd \in FD : client_Read(fd) \/ client_Write(fd) \/ ErrorEvent(fd)

Environment ==
  \/ \E p \in Peer : Connect(p) \/ Send(p) \/ Receive(p) \/ Leave(p)
  \/ \E fd \in FD : Tick(fd)

Next ==
  \/ Environment
  \/ Wait
  \/ HandlerStep
  \/ Stop
  \/ idle_loop

Spec == Init /\ [][Next]_vars

-----------------------------------------------------------------------------
(* Fairness: the main thread goes on; epoll rotates its ready list, so a    *)
(* descriptor that is ready again and again is reported; a wait that finds  *)
(* nothing ends after WAIT_TIMEOUT; peers take their answers.               *)

Reports(fd) == Wait /\ \E e \in batch' : e.fd = fd

Fairness ==
  /\ WF_vars(HandlerStep)
  /\ WF_vars(Wait)
  /\ WF_vars(run = "stopping" /\ Stop)
  /\ \A fd \in FD \cup {ServerFD} : SF_vars(Reports(fd))
  /\ WF_vars(idle_loop)
  /\ \A p \in Peer : WF_vars(Receive(p))

FairSpec == Spec /\ Fairness

-----------------------------------------------------------------------------
(* Properties *)

\* Types of what peers, connections and events are made of; no buffer with input is
\* longer than the largest request AsyncLoop lets through.
ConnTypes ==
  /\ conn \in [Peer -> {"none", "open", "shut", "reset", "closed"}]
  /\ inq \in [Peer -> Seq(Piece)] /\ outq \in [Peer -> Seq(Piece)]
  /\ sent \in [Peer -> Piece] /\ answered \in [Peer -> Piece]
  /\ clients \in [FD -> Client \cup {NoClient}]
  /\ \A fd \in Connected :
       clients[fd].want = "READ" => Len(clients[fd].data) <= MaxRequest
  /\ dense \in Seq(FD) /\ {dense[i] : i \in DOMAIN dense} = Connected
  /\ \A i, j \in DOMAIN dense : dense[i] = dense[j] => i = j
  /\ batch \subseteq [fd : FD \cup {ServerFD}, status : {"READ", "WRITE", "ERROR"},
                      peer : Peer \cup {"none"}]
  /\ writing \in FD \cup {0}

\* Types of the memory manager's part and of keepProcessing_.
BlockTypes ==
  /\ sys \in {0} \cup Tier
  /\ free \in [Tier -> Nat]
  /\ run \in {"on", "stopping", "off"}

\* The variables keep their types.
TypeOK == ConnTypes /\ BlockTypes

\* The clients whose buffer has a block of tier t.
Owners(t) == {fd \in Connected : clients[fd].blk = t}

\* Every block of the memory manager is free or belongs to exactly one buffer,
\* whatever was swapped, grown, cleared or disconnected: none leaks, so a small
\* block is left for every client (TieredMemoryManager's count of MaxClients + 1).
BlocksConserved ==
  \A t \in Tier :
    free[t] + Cardinality(Owners(t)) + (IF sys = t THEN 1 ELSE 0) = TotalBlocks[t]

\* An event that is not handled yet is still about the client it was reported
\* for: no descriptor is closed and given to somebody else under it.
EventsFresh ==
  \A e \in batch : e.fd # ServerFD =>
    e.fd \in Connected /\ clients[e.fd].peer = e.peer

\* Pieces of one kind, of one peer.
AllOf(data, kind, p) == \A i \in DOMAIN data : data[i].kind = kind /\ data[i].own = p

\* A client that waits to write has an answer, its own, and one that waits to
\* read has nothing but a request it has not finished (or asked to shut down
\* with): the two uses of one IOBuffer never mix.
BufferMatchesInterest ==
  \A fd \in Connected \ {writing} :
    LET c == clients[fd] IN
    /\ c.want = "WRITE" => c.data # <<>> /\ AllOf(c.data, "answer", c.peer)
    /\ c.want = "READ" => AllOf(c.data, "ask", c.peer)

\* What the server writes to a peer continues the answer it has begun or starts
\* the answer to a later request of the same peer: no answer is given to another
\* peer, mixed with another, repeated or torn, though all commands share
\* system_buffer_.
AnswersInOrder ==
  [][\A p \in Peer : Len(outq'[p]) > Len(outq[p]) =>
       LET x == answered'[p] IN
       /\ x = outq'[p][Len(outq'[p])]
       /\ x.kind = "answer" /\ x.own = p /\ x.no <= sent[p].no
       /\ IF answered[p].end THEN x.no > answered[p].no /\ x.part = 1
                             ELSE x.no = answered[p].no /\ x.part = answered[p].part + 1
    ]_vars

\* A peer that waits for the answer before it sends the next request gets it, or
\* loses its connection.
RequestAnswered ==
  \A p \in Patient : \A n \in 1 .. Asks[p] :
    (conn[p] = "open" /\ sent[p].no = n /\ sent[p].end)
      ~> \/ answered[p].no = n /\ answered[p].end
         \/ conn[p] # "open"

\* "Connection timeout in seconds": a client past its timeout is disconnected,
\* unless it sends or takes something after all.
IdleDisconnected ==
  \A p \in Peer :
    (\E fd \in Connected : clients[fd].peer = p /\ clients[fd].idle)
      ~> ~\E fd \in Connected : clients[fd].peer = p /\ clients[fd].idle

-----------------------------------------------------------------------------
(* The inductive invariant of the safety properties *)

\* Connections and clients: a client's connection is up, each peer has at most one,
\* and a connection nobody accepted yet has got no answer.
ConnInv ==
  /\ \A fd \in Connected : conn[clients[fd].peer] \in {"open", "shut", "reset"}
  /\ \A fd, g \in Connected : clients[fd].peer = clients[g].peer => fd = g
  /\ \A p \in Peer : conn[p] \in {"none", "closed"} => inq[p] = <<>>
  /\ \A p \in Backlog : answered[p] = NoPiece(p)

\* The events not handled yet are about different clients, as they were when they
\* were reported; a client that is being written to waits to write and has none.
EventInv ==
  /\ EventsFresh
  /\ \A e, g \in batch : e.fd = g.fd => e = g
  /\ \A e \in batch : e.fd # ServerFD /\ e.status # "ERROR" => clients[e.fd].want = e.status
  /\ writing # 0 => /\ writing \in Connected /\ clients[writing].want = "WRITE"
                    /\ \A e \in batch : e.fd # writing

\* What buffers and sockets hold: whose pieces, and of which kind.
DataInv ==
  /\ \A p \in Peer : AllOf(inq[p], "ask", p)
  /\ \A fd \in Connected :
       LET c == clients[fd] IN
       /\ AllOf(c.data, IF c.want = "WRITE" THEN "answer" ELSE "ask", c.peer)
       /\ c.want = "WRITE" /\ fd # writing => c.data # <<>>

\* x is sent before y: after the last piece of a request comes a later request.
Before(x, y) == x.no <= y.no /\ (x.end => x.no < y.no)

Ordered(s) == \A i, j \in DOMAIN s : i < j => Before(s[i], s[j])

\* Request n was sent to the end; s is the last piece sent.
Ended(n, s) == n <= s.no /\ (s.end \/ n < s.no)

\* Pieces that are sent, not answered, and before what is sent next: a is the last
\* piece answered, s the last one sent.
Between(data, a, s) ==
  /\ Ordered(data)
  /\ \A i \in DOMAIN data : /\ a.no < data[i].no /\ data[i].no <= s.no
                            /\ data[i].end => Ended(data[i].no, s)

\* What a buffer holds of requests is sent before what is not read yet, in, and the
\* last answer is whole.
AskFits(data, in, a, s) ==
  /\ a.end
  /\ Between(data, a, s)
  /\ \A i \in DOMAIN data, j \in DOMAIN in : Before(data[i], in[j])

\* What a buffer holds of answers is the rest of one, goes on where the socket ends,
\* and is to a whole request, before all that is not read.
AnswerFits(data, in, a, s) ==
  /\ data = <<>> => a.end
  /\ \A i \in DOMAIN data :
       /\ data[i].no = data[1].no /\ Ended(data[i].no, s)
       /\ data[i].end <=> i = Len(data)
       /\ \A j \in DOMAIN in : data[i].no < in[j].no
       /\ IF a.end THEN data[i].no > a.no /\ data[i].part = i
                   ELSE data[i].no = a.no /\ data[i].part = a.part + i

\* The order of what goes in and out of every socket.
OrderInv ==
  /\ \A p \in Peer : Ended(answered[p].no, sent[p]) /\ Between(inq[p], answered[p], sent[p])
  /\ \A fd \in Connected :
       LET c == clients[fd]
           p == c.peer IN
       /\ c.want = "READ" => AskFits(c.data, inq[p], answered[p], sent[p])
       /\ c.want = "WRITE" => AnswerFits(c.data, inq[p], answered[p], sent[p])

BlockInv == BlockTypes /\ BlocksConserved

IInv ==
  /\ ConnTypes /\ ConnInv /\ EventInv /\ DataInv /\ OrderInv
  /\ BlockInv
=============================================================================
