--------------------------- MODULE CompletionLoop ---------------------------
(***************************************************************************)
(* db_net_iouring: the server of EventLoop with AsyncCompletionLoop over   *)
(* io_uring in place of AsyncLoop over a selector.  Worker, buffers,       *)
(* blocks, peers and sockets are those of EventLoop; `engine' says which   *)
(* of the two programs runs.                                               *)
(*                                                                         *)
(* Here the loop asks the kernel for an operation and learns its result    *)
(* later.  A request waits in the submission queue until the next wait;    *)
(* the kernel carries it out at any time after that, in any order, and     *)
(* puts a completion in the completion queue, which a wait empties, at     *)
(* most MaxEvents at once.  Meanwhile the kernel owns the client's buffer. *)
(* A descriptor is closed by such an operation too: the kernel may hand it *)
(* to a new connection before the loop has removed the old client.         *)
(*                                                                         *)
(* done_Read_ and done_Write_ of a descriptor without a client             *)
(* (PROBLEM_MAP_NOT_FOUND) have no action: CompletionsOwned shows that     *)
(* there is always one.                                                    *)
(***************************************************************************)
EXTENDS EventLoop

CONSTANTS
  Engines,       \* the programs that are modelled: "select", "uring"
  MaxEvents,     \* MAX_EVENT_PER_LOOP
  Reserved       \* RESERVED_FD

ASSUME RingAssumption ==
  /\ Engines \subseteq {"select", "uring"}
  /\ MaxEvents \in Nat \ {0}
  /\ Reserved \in Nat
  /\ "none" \notin Peer
  /\ MaxInput \in Nat       \* no peer sends without end

VARIABLES
  engine,    \* the program that runs
  sock,      \* sock[fd]: the peer the kernel has behind fd, or "none"
  flight,    \* flight[fd]: the operation asked for and not completed
  accept,    \* the accept operation: "sq", "kernel" or "none"
  cq,        \* the completion queue
  events     \* events_ of this turn that are not handled yet

ringVars == <<sock, flight, accept, cq, events>>
allVars == <<conn, inq, outq, sent, answered, clients, dense, sys, free, batch, writing,
             run, engine, sock, flight, accept, cq, events>>

-----------------------------------------------------------------------------
(* The queues *)

NoOp == [op |-> "NONE", at |-> "none", room |-> 0]

\* Mutant: the timeouts that are linked to operations are forgotten.
QSizePerClient == MaxClients + 1

\* Size of the submission queue, for one listening socket.
QSize == (MaxClients + 1) * 2 + Max({Reserved, 1})

Queued == {fd \in FD : flight[fd].at = "sq"}

\* Those that are linked with their timeout, an entry of its own.
Timed == {fd \in Queued : flight[fd].op \in {"READ", "WRITE"}}

\* io_uring_sq_space_left.
SpaceLeft ==
  ((QSize - Cardinality(Queued)) - Cardinality(Timed)) - (IF accept = "sq" THEN 1 ELSE 0)

\* The operations in flight after add_close: nobody looks at its answer, so a
\* request that finds no room is lost.
add_close(fd) ==
  [flight EXCEPT ![fd] =
     IF SpaceLeft < 1 THEN @ ELSE [op |-> "CLOSE", at |-> "sq", room |-> 0]]

\* add_read with room for so many pieces, and its timeout.
add_read(fd, room) ==
  [flight EXCEPT ![fd] =
     IF SpaceLeft < 2 THEN @ ELSE [op |-> "READ", at |-> "sq", room |-> room]]

\* add_write of the client's buffer, and its timeout.
add_write(fd) ==
  [flight EXCEPT ![fd] =
     IF SpaceLeft < 2 THEN @ ELSE [op |-> "WRITE", at |-> "sq", room |-> 0]]

\* add_accept: the accept operation after it.
add_accept == IF SpaceLeft < 1 THEN "none" ELSE "sq"

\* A completion: whose descriptor it was is kept to notice a stray one.
Completion(op, fd, p, res, data) ==
  [op |-> op, fd |-> fd, peer |-> p, res |-> res, data |-> data]

RingInit ==
  /\ Init
  /\ engine \in Engines
  /\ sock = [fd \in FD |-> "none"]
  /\ flight = [fd \in FD |-> NoOp]
  /\ accept = IF engine = "uring" THEN "sq" ELSE "none"
  /\ cq = <<>>
  /\ events = <<>>

-----------------------------------------------------------------------------
(* The kernel *)

\* Connections made and not accepted yet.
Waiting == {p \in Peer : conn[p] \in {"open", "shut", "reset"}} \ {sock[fd] : fd \in FD}

\* The kernel carries out the operation op of fd.
Carries(fd, op) == flight[fd].op = op /\ flight[fd].at = "kernel"

\* The kernel completes the operation of fd.
Complete(fd, res, data) ==
  /\ flight' = [flight EXCEPT ![fd] = NoOp]
  /\ cq' = Append(cq, Completion(flight[fd].op, fd, sock[fd], res, data))
  /\ UNCHANGED <<sent, clients, dense, sys, free, batch, writing, run, engine, accept, events>>

\* accept(2): the lowest free descriptor, or the connection has gone meanwhile.
KernelAccept(p) ==
  /\ accept = "kernel"
  /\ p \in Waiting
  /\ accept' = "none"
  /\ \/ LET fd == Min({g \in FD : sock[g] = "none"}) IN
        /\ sock' = [sock EXCEPT ![fd] = p]
        /\ cq' = Append(cq, Completion("ACCEPT", fd, p, "OK", <<>>))
        /\ UNCHANGED conn
     \/ /\ conn[p] = "reset"
        /\ conn' = [conn EXCEPT ![p] = "closed"]
        /\ cq' = Append(cq, Completion("ACCEPT", ServerFD, p, "ERROR", <<>>))
        /\ UNCHANGED sock
  /\ UNCHANGED <<inq, outq, sent, answered, flight, events, engine>>
  /\ UNCHANGED serverVars

\* read(2) into the room there is: some pieces, none at the end or without room.
KernelRead(fd) ==
  LET p == sock[fd] IN
  /\ Carries(fd, "READ")
  /\ \/ /\ conn[p] = "reset"
        /\ Complete(fd, "ERROR", <<>>)
        /\ UNCHANGED inq
     \/ /\ conn[p] # "reset"
        /\ flight[fd].room = 0 \/ (inq[p] = <<>> /\ conn[p] = "shut")
        /\ Complete(fd, "OK", <<>>)
        /\ UNCHANGED inq
     \/ \E n \in 1 .. Min({flight[fd].room, Len(inq[p])}) :
          /\ conn[p] # "reset"
          /\ Complete(fd, "OK", SubSeq(inq[p], 1, n))
          /\ inq' = [inq EXCEPT ![p] = SubSeq(@, n + 1, Len(@))]
  /\ UNCHANGED <<conn, outq, answered, sock>>

\* write(2) of what the socket takes now.
KernelWrite(fd) ==
  LET p    == sock[fd]
      data == clients[fd].data IN
  /\ Carries(fd, "WRITE")
  /\ \/ /\ conn[p] = "reset"
        /\ Complete(fd, "ERROR", <<>>)
        /\ UNCHANGED <<outq, answered>>
     \/ \E n \in 1 .. Min({SocketRoom - Len(outq[p]), Len(data)}) :
          /\ conn[p] # "reset"
          /\ Complete(fd, "OK", SubSeq(data, 1, n))
          /\ outq' = [outq EXCEPT ![p] = @ \o SubSeq(data, 1, n)]
          /\ answered' = [answered EXCEPT ![p] = data[n]]
  /\ UNCHANGED <<conn, inq, sock>>

\* The linked timeout cancels the operation.
KernelTimeout(fd) ==
  /\ flight[fd].at = "kernel"
  /\ flight[fd].op \in {"READ", "WRITE"}
  /\ Complete(fd, "CANCELED", <<>>)
  /\ UNCHANGED <<conn, inq, outq, answered, sock>>

\* close(2): the descriptor is free from here on.
KernelClose(fd) ==
  /\ Carries(fd, "CLOSE")
  /\ Complete(fd, "OK", <<>>)
  /\ conn' = [conn EXCEPT ![sock[fd]] = "closed"]
  /\ inq' = [inq EXCEPT ![sock[fd]] = <<>>]
  /\ sock' = [sock EXCEPT ![fd] = "none"]
  /\ UNCHANGED <<outq, answered>>

Kernel(fd) == KernelRead(fd) \/ KernelWrite(fd) \/ KernelTimeout(fd) \/ KernelClose(fd)

-----------------------------------------------------------------------------
(* IOURingEngine::wait *)

\* The main thread is between two turns of the loop.
RingBetweenTurns == engine = "uring" /\ events = <<>>

\* io_uring_submit: everything queued goes to the kernel.
Submit ==
  /\ RingBetweenTurns
  /\ run = "on"
  /\ Queued # {} \/ accept = "sq"
  /\ flight' = [fd \in FD |-> IF fd \in Queued THEN [flight[fd] EXCEPT !.at = "kernel"]
                                               ELSE flight[fd]]
  /\ accept' = IF accept = "sq" THEN "kernel" ELSE accept
  /\ UNCHANGED <<sock, cq, events, engine>>
  /\ UNCHANGED <<peerVars, serverVars>>

\* io_uring_for_each_cqe: at most MaxEvents; an accept is asked for again.  A
\* wait that finds nothing leads to idle_loop, which expires nobody here.
Collect ==
  LET count == Min({MaxEvents, Len(cq)}) IN
  /\ RingBetweenTurns
  /\ run = "on"
  /\ Queued = {} /\ accept # "sq"
  /\ cq # <<>>
  /\ events' = SubSeq(cq, 1, count)
  /\ cq' = SubSeq(cq, count + 1, Len(cq))
  /\ accept' = IF \E i \in 1 .. count : cq[i].op = "ACCEPT" THEN add_accept ELSE accept
  /\ UNCHANGED <<sock, flight, engine>>
  /\ UNCHANGED <<peerVars, serverVars>>

-----------------------------------------------------------------------------
(* Requests and what the loop does when they are completed *)

\* The loop turns to the next completion, one of op.
Done(op) ==
  /\ events # <<>>
  /\ Head(events).op = op
  /\ events' = Tail(events)
  /\ UNCHANGED <<accept, cq, engine>>
  /\ UNCHANGED <<batch, writing>>

\* Pieces that fit into block t behind data.
Room(t, data) ==
  CASE t = 0 -> 0 [] t = Small -> SmallCapacity - Len(data) [] t = Large -> MaxInput

\* req_Read_: find memory to read into; without it the read has no room.
req_Read(fd, client, f) ==
  LET t == allocate(f, client.blk, TierOf(Len(client.data) + 1)) IN
  /\ clients' = [clients EXCEPT ![fd] =
                   [client EXCEPT !.blk = IF t = 0 THEN client.blk ELSE t]]
  /\ free' = IF t = 0 THEN f ELSE Exchange(f, client.blk, t)
  /\ flight' = add_read(fd, Room(t, client.data))

\* req_Write_.
req_Write(fd, client, f) ==
  /\ clients' = [clients EXCEPT ![fd] = client]
  /\ free' = f
  /\ flight' = add_write(fd)

\* req_Close_: the client stays until the close is completed.
req_Close(fd, client, f) ==
  /\ clients' = [clients EXCEPT ![fd] = client]
  /\ free' = f
  /\ flight' = add_close(fd)

\* insertFD_.
insertFD(fd, p) ==
  /\ dense' = Append(dense, fd)
  /\ req_Read(fd, [peer |-> p, data |-> <<>>, blk |-> 0], free)

\* done_Accept_: a new client, or one too many, which is closed at once.
done_Accept ==
  LET e  == Head(events)
      ok == Cardinality(Connected) < MaxClients /\ e.fd \notin Connected IN
  /\ Done("ACCEPT")
  /\ \/ /\ e.res = "ERROR"
        /\ UNCHANGED <<conn, inq, sock, clients, dense, free, flight>>
     \/ /\ e.res = "OK" /\ ok
        /\ insertFD(e.fd, e.peer)
        /\ UNCHANGED <<conn, inq, sock>>
     \/ /\ e.res = "OK" /\ ~ok
        /\ conn' = [conn EXCEPT ![e.peer] = "closed"]
        /\ inq' = [inq EXCEPT ![e.peer] = <<>>]
        /\ sock' = [sock EXCEPT ![e.fd] = "none"]
        /\ UNCHANGED <<clients, dense, free, flight>>
  /\ UNCHANGED <<outq, sent, answered, sys, run>>

\* client_Worker_: the worker runs on the client's buffer.
client_Worker(fd, client) ==
  LET result(size) == processSet(free, AnswerTo(client.data, size), size)
      own == [client EXCEPT !.data = AnswerTo(client.data, 1),
                            !.blk = allocate(Exchange(free, client.blk, 0), 0, Small)] IN
  \/ \* DISCONNECT_ERROR: it does not start with its first piece, or is malformed.
     req_Close(fd, client, free) /\ UNCHANGED <<sys, run>>
  \/ \* PASS
     /\ Parse(client.data) = "BUFFER_NOT_READ"
     /\ req_Read(fd, client, free)
     /\ UNCHANGED <<sys, run>>
  \/ \* WRITE: an unknown command, answered in the client's own buffer.
     /\ Parse(client.data) = "OK"
     /\ req_Write(fd, own, Exchange(Exchange(free, client.blk, 0), 0, own.blk))
     /\ UNCHANGED <<sys, run>>
  \/ \* WRITE: a command; its answer is swapped with the input.
     \E size \in Tier :
       /\ Parse(client.data) = "OK"
       /\ \/ /\ result(size).buffer # Empty
             /\ sys' = client.blk
             /\ req_Write(fd, [client EXCEPT !.data = result(size).buffer.data,
                                             !.blk = result(size).buffer.blk],
                          result(size).free)
          \/ /\ result(size).buffer = Empty
             /\ sys' = 0
             /\ req_Close(fd, client, result(size).free)
       /\ UNCHANGED run
  \/ \* DISCONNECT: EXIT
     /\ Parse(client.data) = "OK"
     /\ sys' = result(Small).buffer.blk
     /\ req_Close(fd, client, result(Small).free)
     /\ UNCHANGED run
  \/ \* SHUTDOWN: nothing is asked for, the loop ends after this turn.
     /\ Parse(client.data) = "OK"
     /\ sys' = result(Small).buffer.blk
     /\ clients' = [clients EXCEPT ![fd] = client]
     /\ free' = result(Small).free
     /\ run' = "stopping"
     /\ UNCHANGED flight

\* done_Read_: the pieces are behind what the buffer held when they were asked for.
done_Read ==
  LET e      == Head(events)
      client == [clients[e.fd] EXCEPT !.data = @ \o e.data] IN
  /\ Done("READ")
  /\ \/ /\ e.res # "OK" \/ e.data = <<>> \/ Len(client.data) > MaxRequest
        /\ req_Close(e.fd, client, free)
        /\ UNCHANGED <<sys, run>>
     \/ /\ e.res = "OK" /\ e.data # <<>> /\ Len(client.data) <= MaxRequest
        /\ client_Worker(e.fd, client)
  /\ UNCHANGED <<conn, inq, outq, sent, answered, dense, sock>>

\* done_Write_: what was written is popped; read again, or write the rest.
done_Write ==
  LET e    == Head(events)
      c    == clients[e.fd]
      rest == SubSeq(c.data, Len(e.data) + 1, Len(c.data)) IN
  /\ Done("WRITE")
  /\ \/ /\ e.res # "OK"
        /\ req_Close(e.fd, c, free)
     \/ /\ e.res = "OK" /\ rest = <<>>
        /\ req_Read(e.fd, [c EXCEPT !.data = <<>>, !.blk = 0], Exchange(free, c.blk, 0))
     \/ /\ e.res = "OK" /\ rest # <<>>
        /\ req_Write(e.fd, [c EXCEPT !.data = rest], free)
  /\ UNCHANGED <<conn, inq, outq, sent, answered, dense, sock, sys, run>>

\* removeFD_.
removeFD(fd) ==
  /\ clients' = [clients EXCEPT ![fd] = NoClient]
  /\ dense' = RemoveDense(fd)
  /\ free' = Exchange(free, clients[fd].blk, 0)

\* done_Close_.
done_Close ==
  /\ Done("CLOSE")
  /\ removeFD(Head(events).fd)
  /\ UNCHANGED <<conn, inq, outq, sent, answered, sock, flight, sys, run>>

Handlers == done_Accept \/ done_Read \/ done_Write \/ done_Close

-----------------------------------------------------------------------------
\* The process exits; the kernel closes its sockets and its ring.
RingStop ==
  /\ RingBetweenTurns
  /\ Stop
  /\ sock' = [fd \in FD |-> "none"]
  /\ flight' = [fd \in FD |-> NoOp]
  /\ accept' = "none"
  /\ cq' = <<>>
  /\ UNCHANGED <<events, engine>>

\* AsyncLoop over a selector: EventLoop as it is.
Select(A) == engine = "select" /\ A /\ UNCHANGED <<sock, flight, accept, cq, events, engine>>

\* The peers are the same for both.
Peers(p) ==
  /\ Connect(p) \/ Send(p) \/ Receive(p) \/ Leave(p)
  /\ UNCHANGED <<sock, flight, accept, cq, events, engine>>

RingNext ==
  \/ \E p \in Peer : Peers(p)
  \/ Select(\/ \E fd \in FD : Tick(fd)
            \/ Wait \/ HandlerStep \/ Stop \/ idle_loop)
  \/ Submit
  \/ Collect
  \/ Handlers
  \/ \E p \in Peer : KernelAccept(p)
  \/ \E fd \in FD : Kernel(fd)
  \/ RingStop

RingSpec == RingInit /\ [][RingNext]_allVars

-----------------------------------------------------------------------------
(* Fairness: with a selector, that of EventLoop.  With io_uring the main     *)
(* thread goes on, the kernel carries out what it can, and it accepts        *)
(* connections in the order they came.                                       *)

Takes(p) == Receive(p) /\ UNCHANGED <<sock, flight, accept, cq, events, engine>>

RingFairness ==
  /\ WF_allVars(Select(HandlerStep))
  /\ WF_allVars(Select(Wait))
  /\ WF_allVars(Select(run = "stopping" /\ Stop))
  /\ \A fd \in FD \cup {ServerFD} : SF_allVars(Select(Reports(fd)))
  /\ WF_allVars(Select(idle_loop))
  /\ \A p \in Peer : WF_allVars(Takes(p))
  /\ WF_allVars(Submit \/ Collect \/ Handlers)
  /\ WF_allVars(run = "stopping" /\ RingStop)
  /\ \A fd \in FD : WF_allVars(KernelRead(fd) \/ KernelWrite(fd) \/ KernelClose(fd))
  /\ \A p \in Peer : SF_allVars(KernelAccept(p))

FairRingSpec == RingSpec /\ RingFairness

-----------------------------------------------------------------------------
(* Properties *)

\* Completions that are not handled yet, in the order in which they will be.
Pending == events \o cq

\* The places of those about fd, accepts apart.
CompletedOn(fd) == {i \in DOMAIN Pending : Pending[i].fd = fd /\ Pending[i].op # "ACCEPT"}

\* Operations and completions about fd.
UnderWay(fd) == (IF flight[fd] # NoOp THEN 1 ELSE 0) + Cardinality(CompletedOn(fd))

\* Until a SHUTDOWN every client has exactly one operation or completion under
\* way: none is lost for want of room in the submission queue (add_* answer false
\* then, and nobody asks), none is asked for twice, so no buffer moves while the
\* kernel owns it.  A completion is about the client that asked for it, though
\* the descriptor may be closed and accepted again before it is handled; an
\* accepted descriptor is nobody's when insertFD_ gets it; a read is only under
\* way for a buffer with nothing but a request in it, a write for an answer.
CompletionsOwned ==
  engine = "uring" =>
    /\ run = "on" => \A fd \in Connected : UnderWay(fd) = 1
    /\ run # "off" => (accept = "none" <=> \E i \in DOMAIN cq : cq[i].op = "ACCEPT")
    /\ \A fd \in FD : flight[fd] # NoOp =>
         /\ fd \in Connected /\ clients[fd].peer = sock[fd]
         /\ \A i \in DOMAIN clients[fd].data :
              LET x == clients[fd].data[i] IN
              /\ x.own = sock[fd]
              /\ flight[fd].op = "READ" => x.kind = "ask"
              /\ flight[fd].op = "WRITE" => x.kind = "answer"
         /\ flight[fd].op = "WRITE" => clients[fd].data # <<>>
    /\ \A i \in DOMAIN Pending : LET e == Pending[i] IN e.op # "ACCEPT" =>
         e.fd \in Connected /\ clients[e.fd].peer = e.peer
    /\ (events # <<>> /\ Head(events).op = "ACCEPT") => Head(events).fd \notin Connected

-----------------------------------------------------------------------------
(* The inductive invariant of CompletionsOwned *)

\* What clients, operations and completions are made of.
RingClient == [peer : Peer, data : Seq(Piece), blk : {0} \cup Tier]

Operation ==
  {NoOp} \cup [op : {"READ", "WRITE", "CLOSE"}, at : {"sq", "kernel"}, room : Int]

RingEvent == [op : {"READ", "WRITE", "CLOSE", "ACCEPT"}, fd : FD \cup {ServerFD},
              peer : Peer, res : {"OK", "ERROR", "CANCELED"}, data : Seq(Piece)]

RingTypes ==
  /\ inq \in [Peer -> Seq(Piece)] /\ outq \in [Peer -> Seq(Piece)]
  /\ sent \in [Peer -> Piece]
  /\ \A p \in Peer : AllOf(inq[p], "ask", p)
  /\ clients \in [FD -> RingClient \cup {NoClient}]
  /\ Cardinality(Connected) <= MaxClients
  /\ sock \in [FD -> Peer \cup {"none"}]
  /\ flight \in [FD -> Operation]
  /\ accept \in {"sq", "kernel", "none"}
  /\ cq \in Seq(RingEvent) /\ events \in Seq(RingEvent)

\* What the buffer of client c holds while op is under way on it.
Holds(op, c) ==
  /\ \A i \in DOMAIN c.data : c.data[i].own = c.peer
  /\ op = "READ" => AllOf(c.data, "ask", c.peer)
  /\ op = "WRITE" => AllOf(c.data, "answer", c.peer) /\ c.data # <<>>

\* Completion i is about the client of fd.
About(i, fd) == Pending[i].fd = fd /\ Pending[i].op # "ACCEPT"

\* The descriptor is closed, its client is not removed yet.
Closing(fd) == \E i \in DOMAIN Pending : About(i, fd) /\ Pending[i].op = "CLOSE"

\* An operation is asked for by a client that has nothing else under way.
FlightInv ==
  \A fd \in FD : flight[fd] # NoOp =>
    /\ fd \in Connected /\ Holds(flight[fd].op, clients[fd])
    /\ \A i \in DOMAIN Pending : ~About(i, fd)

\* A completion finds the client that asked, and is its only one.
PendingInv ==
  \A i \in DOMAIN Pending : LET e == Pending[i] IN e.op # "ACCEPT" =>
    /\ e.fd \in Connected /\ clients[e.fd].peer = e.peer
    /\ Holds(e.op, clients[e.fd])
    /\ e.op = "READ" => AllOf(e.data, "ask", e.peer)
    /\ \A j \in DOMAIN Pending : About(j, e.fd) => j = i

\* At most one accept is completed; its descriptor is free, or its old client is
\* removed before.
AcceptInv ==
  \A i \in DOMAIN Pending : LET e == Pending[i] IN e.op = "ACCEPT" =>
    /\ accept # "kernel"
    /\ \A j \in DOMAIN Pending : Pending[j].op = "ACCEPT" => j = i
    /\ e.res # "OK" => e.fd = ServerFD
    /\ e.res = "OK" =>
         /\ e.fd \in FD /\ sock[e.fd] = e.peer
         /\ e.fd \in Connected =>
              \E j \in DOMAIN Pending : j < i /\ About(j, e.fd) /\ Pending[j].op = "CLOSE"

\* Behind a descriptor is its client's peer, until it is closed; a descriptor in
\* use that has no client, or one that is closing, is being accepted.
SockInv ==
  /\ \A fd \in Connected : sock[fd] = clients[fd].peer \/ Closing(fd)
  /\ \A fd \in FD : sock[fd] # "none" =>
       \/ fd \in Connected /\ ~Closing(fd)
       \/ \E i \in DOMAIN Pending : LET e == Pending[i] IN
            e.op = "ACCEPT" /\ e.res = "OK" /\ e.fd = fd

\* Until a SHUTDOWN every client, and the listening socket, has something under way.
AskedInv ==
  /\ run = "on" =>
       \A fd \in Connected : flight[fd] # NoOp \/ \E i \in DOMAIN Pending : About(i, fd)
  /\ run # "off" => (accept = "none" <=> \E i \in DOMAIN cq : cq[i].op = "ACCEPT")
  /\ run = "off" => events = <<>>

RingInv ==
  engine = "uring" =>
    RingTypes /\ FlightInv /\ PendingInv /\ AcceptInv /\ SockInv /\ AskedInv
=============================================================================
