------------------------------ MODULE Selectors ------------------------------
(***************************************************************************)
(* What the event loop stands on: a selector (poll, epoll, kqueue or Haiku's *)
(* wait_for_objects) that reports descriptors, and a storage that finds the  *)
(* client of a descriptor.  The loop turns over the results of a wait while   *)
(* its handlers put descriptors into the selector and take them out.         *)
(*                                                                         *)
(* SparseArray<K>: sparse_ gives the index of a key in dense_, whose cells    *)
(* are one block of memory: what pop_back leaves behind can still be read.   *)
(*                                                                         *)
(* A wait that fails or is interrupted by a signal is left out.              *)
(***************************************************************************)
EXTENDS Integers, Sequences, FiniteSets, SequencesExt, FiniteSetsExt

CONSTANTS
  MaxClients,   \* conf_max_clients, by selector: the capacity of fds_
  MaxFD,        \* conf_rlimitNoFile
  Kinds,        \* the selectors of the model
  Storages,     \* the storages of the model
  MaxBacklog    \* bound on connections that one turn finds waiting

ASSUME SelectorsAssumption ==
  /\ MaxClients \in [Kinds -> Nat \ {0}] /\ {MaxFD, MaxBacklog} \subseteq Nat
  /\ \A k \in Kinds : MaxClients[k] < MaxFD

FD       == 0 .. MaxFD - 1
ServerFD == 0
VARIABLES
  kind,       \* the selector
  storage,    \* the storage
  fds,        \* SparseArray of poll and Haiku
  kernel,     \* the filters the kernel has for a descriptor (epoll, kqueue)
  events,     \* the results of epoll and kqueue, and their number
  clients,    \* the storage of the clients
  open,       \* the descriptors that are open sockets
  want,       \* what the loop last asked for, by descriptor
  pos, last,  \* the iterator of the turn and its end
  due,        \* due[fd]: what may be reported of it, {} once it was
  reported,   \* the last report of this turn
  reused      \* a descriptor was put in this turn where one was taken out

vars == <<kind, storage, fds, kernel, events, clients, open, want, pos, last, due,
          reported, reused>>

Capacity == MaxClients[kind]
Cell     == 0 .. Capacity - 1
MAX_SIZE == MaxFD + Capacity

-----------------------------------------------------------------------------
(* SparseArray *)

sa_new(blank) == [sparse |-> [k \in FD |-> MAX_SIZE], dense |-> [i \in Cell |-> blank], size |-> 0]

sa_exists(sa, key) == key < MaxFD /\ sa.sparse[key] < sa.size

(* insertT_, insertF_: a key that is there is updated in place, but not when *)
(* the array is full.                                                        *)
sa_insert(sa, key, item) ==
  CASE sa.size >= Capacity \/ key >= MaxFD -> sa
    [] sa.size < Capacity /\ sa_exists(sa, key) -> [sa EXCEPT !.dense[sa.sparse[key]] = item]
    [] OTHER -> [sparse |-> [sa.sparse EXCEPT ![key] = sa.size],
                 dense  |-> [sa.dense EXCEPT ![sa.size] = item],
                 size   |-> sa.size + 1]

(* Mutant: the index of the element that was moved stays what it was.        *)
sa_removeLosesLast(sa, key) ==
  IF ~ sa_exists(sa, key) THEN sa
  ELSE LET index == sa.sparse[key]
       IN  [sparse |-> [sa.sparse EXCEPT ![key] = MAX_SIZE],
            dense  |-> [sa.dense EXCEPT ![index] = sa.dense[sa.size - 1]],
            size   |-> sa.size - 1]

(* remove: the last element is moved to the place of the removed one.        *)
sa_remove(sa, key) ==
  IF ~ sa_exists(sa, key) THEN sa
  ELSE LET index   == sa.sparse[key]
           back    == sa.dense[sa.size - 1]
       IN  [sparse |-> [sa.sparse EXCEPT ![back.fd] = index, ![key] = MAX_SIZE],
            dense  |-> [sa.dense EXCEPT ![index] = back],
            size   |-> sa.size - 1]

sa_keys(sa) == {sa.dense[i].fd : i \in 0 .. sa.size - 1}

-----------------------------------------------------------------------------
(* Events of a descriptor, and what the selectors make of them *)

event2native(event) == IF event = "READ" THEN {"in"} ELSE {"out"}

(* What a socket may be: nobody asks for input and output at once, so both    *)
(* come together; hang-ups and errors come with them.                        *)
States == {{}, {"in", "out"}, {"in", "out", "hup"}, {"in", "out", "hup", "err"}}

(* What poll(2), epoll_wait(2) and wait_for_objects tell of a socket in the  *)
(* state s, when the events e are asked for.                                 *)
Occurred(e, s) == s \cap (e \cup {"err", "hup"})

(* getFDStatus: an error first, then input; epoll takes a hang-up for input.  *)
getFDStatus(e) ==
  LET input == {"in"} \cup (IF kind = "epoll" THEN {"hup"} ELSE {})
  IN  CASE "err" \in e -> "ERROR"
        [] "err" \notin e /\ e \cap input # {} -> "READ"
        [] "err" \notin e /\ e \cap input = {} /\ "out" \in e -> "WRITE"
        [] OTHER -> "NONE"

UsesArray == kind \in {"poll", "haiku"}

NoPoll == [fd |-> -1, asked |-> {}, got |-> {}]

(* pollfd has fields for what is asked and for what has occurred; in an      *)
(* object_wait_info they are one field.                                      *)
Item(fd, asked) == [fd |-> fd, asked |-> asked, got |-> IF kind = "haiku" THEN asked ELSE {}]

(* An item of fds_ after the kernel has written into it.                     *)
Polled(item, s) ==
  LET now == Occurred(item.asked, s)
  IN  IF kind = "haiku" THEN [item EXCEPT !.asked = now, !.got = now] ELSE [item EXCEPT !.got = now]

(* insertFD: can it be put in, and the arrays and filters after that.        *)
insertsFD(array, fd) == UsesArray => array.size < Capacity

insertFD(array, fd) == IF UsesArray THEN sa_insert(array, fd, Item(fd, {"in"})) ELSE array

(* updateFD                                                                  *)
updateFD(fd, event) ==
  IF UsesArray
  THEN /\ fds' = IF sa_exists(fds, fd)
                 THEN [fds EXCEPT !.dense[fds.sparse[fd]] = Item(fd, event2native(event))] ELSE fds
       /\ UNCHANGED kernel
  ELSE kernel' = [kernel EXCEPT ![fd] = event2native(event)] /\ UNCHANGED fds

-----------------------------------------------------------------------------
(* Storages of clients.  A slab has a list of free blocks; the dynamic array *)
(* allocates; both keep pointers by descriptor.                              *)

NoBlock == -1

st_new ==
  [sa |-> sa_new([fd |-> -1]), at |-> [k \in FD |-> NoBlock], free |-> [i \in 1 .. Capacity |-> i - 1],
   size |-> 0]

st_has(st, fd) == IF storage = "sparse" THEN sa_exists(st.sa, fd) ELSE st.at[fd] # NoBlock

st_size(st) == IF storage = "sparse" THEN st.sa.size ELSE st.size

sparse_insert(st, fd) == [st EXCEPT !.sa = sa_insert(st.sa, fd, [fd |-> fd])]
slab_insert(st, fd)   == [st EXCEPT !.at[fd] = Head(st.free), !.free = Tail(st.free), !.size = @ + 1]
array_insert(st, fd)  == [st EXCEPT !.at[fd] = fd, !.size = @ + 1]
map_insert(st, fd)    == IF st.at[fd] # NoBlock THEN st ELSE array_insert(st, fd)

st_insert(st, fd) ==
  CASE storage = "sparse"  -> sparse_insert(st, fd)
    [] storage = "slab"    -> slab_insert(st, fd)
    [] storage = "dynamic" -> array_insert(st, fd)
    [] storage = "map"     -> map_insert(st, fd)

sparse_remove(st, fd) == [st EXCEPT !.sa = sa_remove(st.sa, fd)]
slab_remove(st, fd)   ==
  [st EXCEPT !.free = <<st.at[fd]>> \o st.free, !.at[fd] = NoBlock, !.size = @ - 1]
array_remove(st, fd)  == [st EXCEPT !.at[fd] = NoBlock, !.size = @ - 1]

st_remove(st, fd) ==
  CASE storage = "sparse" -> sparse_remove(st, fd)
    [] storage = "slab"   -> slab_remove(st, fd)
    [] OTHER              -> array_remove(st, fd)

-----------------------------------------------------------------------------
(* The loop *)

NoEvent == [fd |-> 0, filter |-> "NONE"]
Nothing == [fd |-> 0, status |-> "NONE", due |-> TRUE]

Init ==
  /\ kind \in Kinds /\ storage \in Storages
  /\ storage = "sparse" \/ kind = "epoll"   \* MyFDStorage, and the others with one selector
  /\ fds = IF UsesArray THEN insertFD(sa_new(NoPoll), ServerFD) ELSE sa_new(NoPoll)
  /\ kernel = [fd \in FD |-> IF fd = ServerFD /\ ~ UsesArray THEN {"in"} ELSE {}]
  /\ events = [cells |-> [i \in Cell |-> NoEvent], count |-> 0]
  /\ clients = st_new
  /\ open = {ServerFD}
  /\ want = [fd \in FD |-> IF fd = ServerFD THEN "READ" ELSE "none"]
  /\ pos = 0 /\ last = 0
  /\ due = [fd \in FD |-> {}] /\ reported = Nothing /\ reused = FALSE

BetweenTurns == pos = last

(* What may be reported of a socket in the state s: an error; input, or a    *)
(* hang-up; room for output.  kqueue reports by filter only.                 *)
MayReport(w, s) ==
  IF "err" \in s /\ kind # "kqueue" THEN {"ERROR"}
  ELSE {x \in {"READ", "WRITE"} : \/ w = x /\ event2native(x) \subseteq s
                                  \/ x = "READ" /\ "hup" \in s /\ kind = "epoll"}

(* The sockets in their states; the listening socket only ever has input.    *)
Now == [open -> States]

(* wait: poll and wait_for_objects write into the whole array.               *)
WaitArray ==
  /\ UsesArray /\ BetweenTurns
  /\ \E now \in Now :
       LET d == [i \in Cell |-> IF i < fds.size /\ fds.dense[i].fd \in open
                                THEN Polled(fds.dense[i], now[fds.dense[i].fd]) ELSE fds.dense[i]]
       IN  /\ now[ServerFD] \in {{}, {"in", "out"}}
           /\ \E i \in 0 .. fds.size - 1 : d[i].got # {}
           /\ fds' = [fds EXCEPT !.dense = d]
           /\ due' = [fd \in FD |-> IF fd \in open THEN MayReport(want[fd], now[fd]) ELSE {}]
  /\ pos' = 0 /\ last' = fds.size
  /\ reused' = FALSE /\ reported' = Nothing
  /\ UNCHANGED <<kind, storage, kernel, events, clients, open, want>>

(* ... epoll_wait and kevent give as many results as there is room for; what *)
(* older waits left behind them only matters to kqueue, which reads it.      *)
WaitResults ==
  /\ ~ UsesArray /\ BetweenTurns
  /\ \E now \in Now :
       LET said(fd) == IF kind = "epoll" THEN {getFDStatus(Occurred(kernel[fd], now[fd]))} \ {"NONE"}
                       ELSE {x \in {"READ", "WRITE"} :
                               event2native(x) \subseteq kernel[fd] /\ event2native(x) \subseteq now[fd]}
           ready == UNION {{[fd |-> fd, filter |-> x] : x \in said(fd)} : fd \in open}
       IN  /\ now[ServerFD] \in {{}, {"in", "out"}}
           /\ ready # {}
           /\ \E some \in kSubset(Min({Cardinality(ready), Capacity}), ready) :
              \E list \in SetToSeqs(some) :
                /\ events' = [cells |-> [i \in Cell |-> CASE i < Len(list) -> list[i + 1]
                                                          [] kind = "kqueue" /\ i >= Len(list) -> events.cells[i]
                                                          [] OTHER -> NoEvent],
                              count |-> Len(list)]
                /\ due' = [fd \in FD |-> IF \E e \in some : e.fd = fd
                                         THEN MayReport(want[fd], now[fd]) ELSE {}]
                \* end(): epoll goes to fdsCount_, kqueue to the end of fds_
                /\ last' = IF kind = "epoll" THEN Len(list) ELSE Capacity
  /\ pos' = 0
  /\ reused' = FALSE /\ reported' = Nothing
  /\ UNCHANGED <<kind, storage, fds, kernel, clients, open, want>>

(* The report at the iterator.                                               *)
Report == IF UsesArray THEN [fd |-> fds.dense[pos].fd, status |-> getFDStatus(fds.dense[pos].got)]
          ELSE [fd |-> events.cells[pos].fd, status |-> events.cells[pos].filter]

Turns(fd, status) ==
  /\ pos < last
  /\ Report = [fd |-> fd, status |-> status]
  /\ pos' = pos + 1
  /\ reported' = [fd |-> fd, status |-> status, due |-> status \in due[fd]]
  /\ UNCHANGED <<kind, storage, events, last>>

Ignore ==
  \E fd \in FD \cup {-1} :
    /\ Turns(fd, Report.status)
    /\ Report.status = "NONE" \/ (fd = ServerFD /\ Report.status = "WRITE")
    /\ UNCHANGED <<fds, kernel, clients, open, want, due, reused>>

(* client_Disconnect_, removeFD_, socket_close: the kernel forgets a closed  *)
(* descriptor; a client that is not in the storage is not removed again.     *)
client_Disconnect(fd) ==
  /\ fds' = sa_remove(fds, fd)
  /\ kernel' = [kernel EXCEPT ![fd] = {}]
  /\ clients' = IF st_has(clients, fd) THEN st_remove(clients, fd) ELSE clients
  /\ open' = open \ {fd}
  /\ want' = [want EXCEPT ![fd] = "none"]
  /\ due' = [due EXCEPT ![fd] = {}]
  /\ UNCHANGED reused

ErrorEvent ==
  \E fd \in FD : Turns(fd, "ERROR") /\ client_Disconnect(fd)

(* client_Read_, client_Write_: the connection ends, or the loop asks for    *)
(* something, or waits on for what it has asked for.                         *)
ClientEvent ==
  \E fd \in FD \ {ServerFD}, status \in {"READ", "WRITE"} :
    /\ Turns(fd, status)
    /\ \/ client_Disconnect(fd)
       \/ /\ st_has(clients, fd)
          /\ \E event \in (IF status = "READ" THEN {"READ", "WRITE"} ELSE {"READ"}) :
               updateFD(fd, event) /\ want' = [want EXCEPT ![fd] = event]
          /\ due' = [due EXCEPT ![fd] = {}]
          /\ UNCHANGED <<clients, open, reused>>
       \/ /\ st_has(clients, fd)
          /\ due' = [due EXCEPT ![fd] = {}]
          /\ UNCHANGED <<fds, kernel, clients, open, want, reused>>

(* client_Connect_: the kernel gives the lowest free descriptor; it is       *)
(* closed again if there are too many clients or the selector is full.       *)
client_Connect(s) ==
  LET fd == Min(FD \ s.open)
  IN  IF FD \ s.open = {} \/ st_size(s.clients) >= Capacity \/ ~ insertsFD(s.fds, fd) THEN s
      ELSE [fds     |-> insertFD(s.fds, fd),
            kernel  |-> IF UsesArray THEN s.kernel ELSE [s.kernel EXCEPT ![fd] = {"in"}],
            clients |-> st_insert(s.clients, fd),
            open    |-> s.open \cup {fd},
            want    |-> [s.want EXCEPT ![fd] = "READ"]]

ServerEvent ==
  \E waiting \in 0 .. MaxBacklog :
    LET s == FoldLeft(LAMBDA x, i : client_Connect(x),
                      [fds |-> fds, kernel |-> kernel, clients |-> clients, open |-> open, want |-> want],
                      [i \in 1 .. waiting |-> i])
    IN  /\ Turns(ServerFD, "READ")
        /\ fds' = s.fds /\ kernel' = s.kernel /\ clients' = s.clients
        /\ open' = s.open /\ want' = s.want
        /\ due' = [due EXCEPT ![ServerFD] = {}]
        /\ reused' = (reused \/ (UsesArray /\ fds.size < last /\ s.fds.size > fds.size))

(* WaitStatus::NONE: a client whose timer has expired is disconnected.       *)
expireFD ==
  /\ BetweenTurns
  /\ \E fd \in open \ {ServerFD} : client_Disconnect(fd)
  /\ reported' = Nothing
  /\ UNCHANGED <<kind, storage, events, pos, last>>

Next == \/ WaitArray \/ WaitResults
        \/ Ignore \/ ErrorEvent \/ ClientEvent \/ ServerEvent \/ expireFD

Spec == Init /\ [][Next]_vars

-----------------------------------------------------------------------------
TypeOK ==
  /\ kind \in Kinds /\ storage \in Storages
  /\ fds.size \in 0 .. Capacity /\ st_size(clients) \in 0 .. Capacity
  /\ open \subseteq FD /\ want \in [FD -> {"none", "READ", "WRITE"}]
  /\ pos \in 0 .. last /\ last \in 0 .. Capacity

(* A descriptor the selector watches is an open one, is watched for what the *)
(* loop asked last, and is found under its own number.  Haiku's selector     *)
(* watches no more than that: a wait writes what has occurred over what was  *)
(* asked for, and it is not asked for again.                                 *)
Watched(fd) ==
  IF UsesArray THEN (IF sa_exists(fds, fd) THEN fds.dense[fds.sparse[fd]].asked ELSE {}) ELSE kernel[fd]

InterestKept ==
  /\ UsesArray => /\ sa_keys(fds) = open
                  /\ \A fd \in open : fds.dense[fds.sparse[fd]].fd = fd
  /\ \A fd \in open :
       /\ kind # "haiku" => Watched(fd) = event2native(want[fd])
       /\ kind = "haiku" /\ BetweenTurns => Watched(fd) \subseteq event2native(want[fd]) \cup {"err", "hup"}
  /\ \A fd \in FD \ open : Watched(fd) = {}

(* The storage has a client for just the connections that are open, and no   *)
(* two of them share a block.                                                *)
StorageAgrees ==
  /\ {fd \in FD : st_has(clients, fd)} = open \ {ServerFD}
  /\ st_size(clients) = Cardinality(open) - 1
  /\ storage = "slab" =>
       /\ \A a, b \in open \ {ServerFD} : clients.at[a] = clients.at[b] => a = b
       /\ {clients.at[fd] : fd \in open \ {ServerFD}} \cup ToSet(clients.free) = Cell

(* A turn reports what its wait has found, each descriptor once, and all of  *)
(* it, although handlers take descriptors out of the array it goes over:     *)
(* except that poll may leave one for the next turn when a new descriptor    *)
(* was put where one was taken out, and that kqueue's results of earlier     *)
(* waits are reported again.                                                 *)
EventsDelivered ==
  /\ kind \in {"poll", "epoll"} /\ reported.status # "NONE" => reported.due
  /\ kind \in {"poll", "epoll", "kqueue"} /\ BetweenTurns /\ ~ reused => \A fd \in FD : due[fd] = {}

SelectorsSound == InterestKept /\ StorageAgrees /\ EventsDelivered

-----------------------------------------------------------------------------
(* A small instance: poll and Haiku keep the listening socket in the array,   *)
(* so poll is used with three clients, the others with two.                         *)
ThreeClients == [k \in Kinds |-> CASE k = "poll" -> 4 [] k = "haiku" -> 3 [] OTHER -> 2]
==============================================================================
