-------------------------- MODULE EventLoopProofs --------------------------
(***************************************************************************)
(* Proofs about EventLoop, and at the end about CompletionLoop, for any    *)
(* set of peers, any number of clients, descriptors and blocks, requests   *)
(* of any length and completion queues of any size.                        *)
(***************************************************************************)
EXTENDS CompletionLoop, NaturalSets, SequenceTheorems

----------------------------------------------------------------------------
(* Clients and their descriptors. *)

(* The client of descriptor fd becomes c.                                   *)
Replaced(fd, c) == clients' = [clients EXCEPT ![fd] = c]

(* A client is not the absence of one.                                      *)
LEMMA ClientIsOne ==
    ASSUME NEW c \in Client
    PROVE  c # NoClient
<1>1. DOMAIN c # DOMAIN NoClient
  <2>1. "data" \in DOMAIN c
    BY DEF Client
  <2>2. "data" \notin DOMAIN NoClient
    BY DEF NoClient
  <2> QED BY <2>1, <2>2
<1> QED BY <1>1

(* One client is changed, the others stay.                                  *)
LEMMA ClientReplaced ==
    ASSUME ConnTypes, NEW fd \in Connected, NEW c \in Client, Replaced(fd, c)
    PROVE  /\ Connected' = Connected
           /\ clients'[fd] = c
           /\ \A g \in FD : g # fd => clients'[g] = clients[g]
           /\ clients' \in [FD -> Client \cup {NoClient}]
           /\ \A g \in Connected : clients[g] \in Client
<1>1. fd \in FD /\ clients \in [FD -> Client \cup {NoClient}]
  BY DEF ConnTypes, Connected
<1>2. clients'[fd] = c /\ \A g \in FD : g # fd => clients'[g] = clients[g]
  BY <1>1 DEF Replaced
<1>3. clients' \in [FD -> Client \cup {NoClient}]
  BY <1>1 DEF Replaced
<1>4. \A g \in FD : clients'[g] # NoClient <=> clients[g] # NoClient
  BY <1>1, <1>2, ClientIsOne DEF Connected
<1>5. Connected' = Connected
  BY <1>4 DEF Connected
<1>6. \A g \in Connected : clients[g] \in Client
  BY <1>1 DEF Connected
<1> QED BY <1>2, <1>3, <1>5, <1>6

(* The same descriptors, with clients of the same peers.                    *)
LEMMA SamePeers ==
    ASSUME Connected' = Connected, \A g \in Connected : clients'[g].peer = clients[g].peer
    PROVE  PeersIn' = PeersIn
BY DEF PeersIn

(* One client is removed, the others stay.                                  *)
LEMMA ClientRemoved ==
    ASSUME ConnTypes, NEW fd \in Connected, Replaced(fd, NoClient)
    PROVE  /\ Connected' = Connected \ {fd}
           /\ \A g \in FD : g # fd => clients'[g] = clients[g]
           /\ clients' \in [FD -> Client \cup {NoClient}]
           /\ \A g \in Connected : clients[g] \in Client
<1>1. fd \in FD /\ clients \in [FD -> Client \cup {NoClient}]
  BY DEF ConnTypes, Connected
<1>2. clients'[fd] = NoClient /\ \A g \in FD : g # fd => clients'[g] = clients[g]
  BY <1>1 DEF Replaced
<1>3. clients' \in [FD -> Client \cup {NoClient}]
  BY <1>1 DEF Replaced
<1>4. \A g \in FD : clients'[g] # NoClient <=> clients[g] # NoClient /\ g # fd
  BY <1>1, <1>2
<1>5. Connected' = Connected \ {fd}
  BY <1>4 DEF Connected
<1>6. \A g \in Connected : clients[g] \in Client
  BY <1>1 DEF Connected
<1> QED BY <1>2, <1>3, <1>5, <1>6

----------------------------------------------------------------------------
(* Blocks. *)

Is(a, b) == IF a = b THEN 1 ELSE 0

(* Sets of descriptors are finite.                                          *)
LEMMA OwnersFinite ==
    ASSUME NEW t
    PROVE  IsFiniteSet(Owners(t)) /\ Cardinality(Owners(t)) \in Nat
<1>1. IsFiniteSet(FD)
  BY FS_Interval, LoopAssumption DEF FD
<1>2. Owners(t) \in SUBSET FD
  BY DEF Owners, Connected
<1>3. IsFiniteSet(Owners(t))
  BY <1>1, <1>2, FS_Subset
<1> QED BY <1>3, FS_CardinalityType

(* Who owns a block of tier t after the buffer of one client changed.       *)
LEMMA OwnersReplaced ==
    ASSUME ConnTypes, NEW fd \in Connected, NEW c \in Client, Replaced(fd, c), NEW t \in Tier
    PROVE  Cardinality(Owners(t))' =
             (Cardinality(Owners(t)) - Is(clients[fd].blk, t)) + Is(c.blk, t)
<1>1. /\ Connected' = Connected /\ clients'[fd] = c
      /\ \A g \in Connected : g # fd => clients'[g] = clients[g]
  BY ClientReplaced DEF Connected
<1> DEFINE Rest == Owners(t) \ {fd}
<1>2. IsFiniteSet(Rest) /\ Cardinality(Owners(t)) \in Nat
      /\ Cardinality(Rest) = Cardinality(Owners(t)) - Is(clients[fd].blk, t)
  <2>1. fd \in Owners(t) <=> clients[fd].blk = t
    BY DEF Owners
  <2> QED BY <2>1, OwnersFinite, FS_RemoveElement DEF Is
<1>3. CASE c.blk = t
  <2>1. Owners(t)' = Rest \cup {fd}
    BY <1>1, <1>3 DEF Owners
  <2>2. Cardinality(Rest \cup {fd}) = Cardinality(Rest) + 1
    BY <1>2, FS_AddElement
  <2>3. Cardinality(Owners(t))' = Cardinality(Rest) + 1
    BY <2>1, <2>2
  <2> QED BY <1>2, <1>3, <2>3 DEF Is
<1>4. CASE c.blk # t
  <2>1. Owners(t)' = Rest
    BY <1>1, <1>4 DEF Owners
  <2>2. Cardinality(Owners(t))' = Cardinality(Rest)
    BY <2>1
  <2> QED BY <1>2, <1>4, <2>2 DEF Is
<1> QED BY <1>3, <1>4

(* Who owns a block of tier t after a client is gone.                       *)
LEMMA OwnersRemoved ==
    ASSUME ConnTypes, NEW fd \in Connected, Replaced(fd, NoClient), NEW t \in Tier
    PROVE  Cardinality(Owners(t))' = Cardinality(Owners(t)) - Is(clients[fd].blk, t)
<1>1. /\ Connected' = Connected \ {fd}
      /\ \A g \in Connected : g # fd => clients'[g] = clients[g]
  BY ClientRemoved DEF Connected
<1>2. Owners(t)' = Owners(t) \ {fd}
  BY <1>1 DEF Owners
<1>3. fd \in Owners(t) <=> clients[fd].blk = t
  BY DEF Owners
<1>4. Cardinality(Owners(t) \ {fd}) = Cardinality(Owners(t)) - Is(clients[fd].blk, t)
  <2>1. IsFiniteSet(Owners(t)) /\ Cardinality(Owners(t)) \in Nat
    BY OwnersFinite
  <2>2. Cardinality(Owners(t) \ {fd}) =
          IF fd \in Owners(t) THEN Cardinality(Owners(t)) - 1 ELSE Cardinality(Owners(t))
    BY <2>1, FS_RemoveElement
  <2> QED BY <1>3, <2>1, <2>2 DEF Is
<1> QED BY <1>2, <1>4

(* What allocate finds: the block there was, a free one, or none.           *)
LEMMA AllocateFinds ==
    ASSUME NEW f \in [Tier -> Nat], NEW blk \in {0} \cup Tier, NEW need \in Tier
    PROVE  LET t == allocate(f, blk, need) IN
           t \in {0} \cup Tier /\ (t = blk \/ t = 0 \/ f[t] > 0)
<1> DEFINE found == {t \in need .. Large : f[t] > 0}
<1>1. found \subseteq Tier /\ Tier = {1, 2}
  BY DEF Tier, Small, Large
<1>2. ASSUME found # {} PROVE Min(found) \in found
  <2>1. found \in SUBSET Nat
    BY <1>1
  <2>2. PICK m \in found : \A s \in found : m <= s
    BY <1>2, <2>1, SmallestExists
  <2>3. \E x \in found : \A y \in found : x =< y
    BY <2>2
  <2> QED BY <2>3 DEF Min
<1>3. CASE found = {}
  BY <1>1, <1>3 DEF allocate
<1>4. CASE found # {}
  BY <1>1, <1>2, <1>4 DEF allocate
<1> QED BY <1>3, <1>4

(* The free blocks after an exchange that gives nothing away twice.         *)
LEMMA Exchanged ==
    ASSUME NEW f \in [Tier -> Nat], NEW old \in {0} \cup Tier, NEW new \in {0} \cup Tier,
           new = old \/ new = 0 \/ f[new] > 0
    PROVE  /\ Exchange(f, old, new) \in [Tier -> Nat]
           /\ \A t \in Tier : Exchange(f, old, new)[t] = (f[t] + Is(t, old)) - Is(t, new)
BY DEF Exchange, Is, Tier, Small, Large

(* The blocks are conserved when one buffer and system_buffer_ change.      *)
LEMMA BlocksReplaced ==
    ASSUME IInv, NEW fd \in Connected, NEW c \in Client, Replaced(fd, c),
           sys' \in {0} \cup Tier, free' \in [Tier -> Nat], run' \in {"on", "stopping", "off"},
           \A t \in Tier : free'[t] = (free[t] + Is(clients[fd].blk, t) + Is(sys, t))
                                        - (Is(c.blk, t) + Is(sys', t))
    PROVE  BlockInv'
<1>1. BlockTypes'
  BY DEF BlockTypes
<1>2. ASSUME NEW t \in Tier
      PROVE  free'[t] + Cardinality(Owners(t))' + Is(sys', t) = TotalBlocks[t]
  <2>1. Cardinality(Owners(t))' =
          (Cardinality(Owners(t)) - Is(clients[fd].blk, t)) + Is(c.blk, t)
    BY OwnersReplaced DEF IInv
  <2>2. free[t] + Cardinality(Owners(t)) + Is(sys, t) = TotalBlocks[t]
    BY DEF IInv, BlockInv, BlocksConserved, Is
  <2>3. Cardinality(Owners(t)) \in Nat /\ free[t] \in Nat
    BY OwnersFinite DEF IInv, BlockInv, BlockTypes
  <2> QED BY <2>1, <2>2, <2>3 DEF Is
<1> QED BY <1>1, <1>2 DEF BlockInv, BlocksConserved, Is

(* The blocks are conserved when a client and its buffer go.                *)
LEMMA BlocksRemoved ==
    ASSUME IInv, NEW fd \in Connected, Replaced(fd, NoClient),
           sys' \in {0} \cup Tier, free' \in [Tier -> Nat], run' = run,
           \A t \in Tier : free'[t] = (free[t] + Is(clients[fd].blk, t) + Is(sys, t))
                                        - Is(sys', t)
    PROVE  BlockInv'
<1>1. BlockTypes'
  BY DEF BlockTypes, IInv, BlockInv
<1>2. ASSUME NEW t \in Tier
      PROVE  free'[t] + Cardinality(Owners(t))' + Is(sys', t) = TotalBlocks[t]
  <2>1. Cardinality(Owners(t))' = Cardinality(Owners(t)) - Is(clients[fd].blk, t)
    BY OwnersRemoved DEF IInv
  <2>2. free[t] + Cardinality(Owners(t)) + Is(sys, t) = TotalBlocks[t]
    BY DEF IInv, BlockInv, BlocksConserved, Is
  <2>3. Cardinality(Owners(t)) \in Nat /\ free[t] \in Nat
    BY OwnersFinite DEF IInv, BlockInv, BlockTypes
  <2> QED BY <2>1, <2>2, <2>3 DEF Is
<1> QED BY <1>1, <1>2 DEF BlockInv, BlocksConserved, Is

----------------------------------------------------------------------------
(* The order of the clients. *)

(* A bounded set of naturals can be put in order.                           *)
LEMMA AscendingExists ==
    ASSUME NEW S \in SUBSET Nat, NEW n \in Nat, \A x \in S : x <= n
    PROVE  \E s \in [1 .. Cardinality(S) -> S] :
             \A i, j \in 1 .. Cardinality(S) : i < j => s[i] < s[j]
<1> DEFINE InOrder(T) == \E s \in [1 .. Cardinality(T) -> T] :
             \A i, j \in 1 .. Cardinality(T) : i < j => s[i] < s[j]
           Bad == {T \in SUBSET S : ~InOrder(T)}
<1>1. IsFiniteSet(S)
  BY FS_BoundedSetOfNaturals
<1>2. IsWellFoundedOn(StrictSubsetOrdering(S), SUBSET S)
  <2>1. FiniteSubsetsOf(S) = SUBSET S
    BY <1>1, FS_FiniteSubsetsOfFinite
  <2> QED BY <1>1, <2>1, FS_StrictSubsetOrderingWellFounded
<1>3. SUFFICES ASSUME ~InOrder(S) PROVE FALSE
  OBVIOUS
<1>4. Bad \subseteq SUBSET S /\ Bad # {}
  BY <1>3
<1> HIDE DEF Bad
<1>5. \E T \in Bad : \A U \in Bad : ~(<<U, T>> \in StrictSubsetOrdering(S))
  BY <1>2, <1>4, WFMin
<1>6. PICK T \in Bad : \A U \in Bad : ~(<<U, T>> \in StrictSubsetOrdering(S))
  BY <1>5
<1>7. T \in SUBSET S /\ ~InOrder(T)
  BY <1>6 DEF Bad
<1>8. IsFiniteSet(T) /\ Cardinality(T) \in Nat /\ T \in SUBSET Nat
  BY <1>1, <1>7, FS_Subset, FS_CardinalityType
<1>9. CASE T = {}
  <2>1. Cardinality(T) = 0
    BY <1>9, FS_EmptySet
  <2>2. 1 .. 0 = {} /\ <<>> \in [{} -> T]
    OBVIOUS
  <2>3. InOrder(T)
    BY <2>1, <2>2
  <2> QED BY <1>7, <2>3
<1>10. CASE T # {}
  <2>1. PICK m \in T : \A x \in T : x <= m
    <3>1. \A x \in T : x <= n
      BY <1>7
    <3> QED BY <1>8, <1>10, <3>1, LargestExists
  <2> DEFINE U == T \ {m}
             c == Cardinality(T)
  <2>2. Cardinality(U) = c - 1 /\ c \in Nat \ {0}
    <3>1. c # 0
      BY <1>8, <1>10, FS_EmptySet
    <3> QED BY <1>8, <2>1, <3>1, FS_RemoveElement
  <2>3. <<U, T>> \in StrictSubsetOrdering(S)
    BY <1>7, <2>1 DEF StrictSubsetOrdering
  <2>4. InOrder(U)
    <3>1. U \notin Bad /\ U \in SUBSET S
      BY <1>6, <1>7, <2>3
    <3> QED BY <3>1 DEF Bad
  <2>5. PICK s \in [1 .. c - 1 -> U] : \A i, j \in 1 .. c - 1 : i < j => s[i] < s[j]
    BY <2>2, <2>4
  <2> DEFINE u == [i \in 1 .. c |-> IF i = c THEN m ELSE s[i]]
  <2>6. u \in [1 .. c -> T]
    <3>1. \A i \in 1 .. c : i # c => i \in 1 .. c - 1
      BY <2>2
    <3>2. \A i \in 1 .. c - 1 : s[i] \in T
      BY <2>5
    <3> QED BY <2>1, <3>1, <3>2
  <2>7. ASSUME NEW i \in 1 .. c, NEW j \in 1 .. c, i < j PROVE u[i] < u[j]
    <3>1. i \in 1 .. c - 1 /\ u[i] = s[i] /\ s[i] \in U
      BY <2>2, <2>5, <2>7
    <3>2. CASE j = c
      <4>1. s[i] \in Nat /\ m \in Nat /\ s[i] <= m /\ s[i] # m
        BY <1>8, <2>1, <3>1
      <4> QED BY <3>1, <3>2, <4>1
    <3>3. CASE j # c
      <4>1. j \in 1 .. c - 1
        BY <2>2, <3>3
      <4> QED BY <2>5, <2>7, <3>1, <3>3, <4>1
    <3> QED BY <3>2, <3>3
  <2> HIDE DEF u
  <2>8. InOrder(T)
    BY <2>6, <2>7
  <2> QED BY <1>7, <2>8
<1> QED BY <1>9, <1>10

(* What Ascending makes of descriptors: all of them, each once.             *)
LEMMA AscendingIsOrder ==
    ASSUME NEW S \in SUBSET FD
    PROVE  /\ Ascending(S) \in Seq(S) /\ {Ascending(S)[i] : i \in DOMAIN Ascending(S)} = S
           /\ \A i, j \in DOMAIN Ascending(S) : Ascending(S)[i] = Ascending(S)[j] => i = j
<1> DEFINE a == Ascending(S)
           n == Cardinality(S)
<1>1. S \in SUBSET Nat /\ MaxFD \in Nat /\ \A x \in S : x <= MaxFD
  BY LoopAssumption DEF FD
<1>2. IsFiniteSet(S) /\ n \in Nat
  BY <1>1, FS_BoundedSetOfNaturals, FS_CardinalityType
<1>3. \E s \in [1 .. n -> S] : \A i, j \in DOMAIN s : i < j => s[i] < s[j]
  BY <1>1, AscendingExists
<1>4. a \in [1 .. n -> S] /\ \A i, j \in 1 .. n : i < j => a[i] < a[j]
  <2>1. a \in [1 .. n -> S] /\ \A i, j \in DOMAIN a : i < j => a[i] < a[j]
    BY <1>3 DEF Ascending
  <2> QED BY <2>1
<1> HIDE DEF a
<1>5. \A i, j \in 1 .. n : a[i] = a[j] => i = j
  <2>1. SUFFICES ASSUME NEW i \in 1 .. n, NEW j \in 1 .. n, a[i] = a[j], i # j
                 PROVE  FALSE
    OBVIOUS
  <2>2. a[i] \in Nat /\ ~(a[i] < a[i])
    <3>1. a[i] \in S
      BY <1>4, <2>1
    <3>2. a[i] \in Nat
      BY <1>1, <3>1
    <3> QED BY <3>2
  <2>3. i < j \/ j < i
    BY <1>2, <2>1
  <2> QED BY <1>4, <2>1, <2>2, <2>3
<1>6. a \in Injection(1 .. n, S)
  BY <1>4, <1>5 DEF Injection, IsInjective
<1>7. a \in Surjection(1 .. n, S)
  <2>1. IsFiniteSet(1 .. n) /\ Cardinality(1 .. n) = n
    BY <1>2, FS_Interval
  <2> QED BY <1>2, <1>6, <2>1, FS_Injection
<1>8. {a[i] : i \in 1 .. n} = S
  BY <1>4, <1>7 DEF Surjection
<1>9. a \in Seq(S) /\ DOMAIN a = 1 .. n
  BY <1>2, <1>4
<1> QED BY <1>5, <1>8, <1>9 DEF a

(* The order after one client is gone.                                      *)
LEMMA DenseRemoved ==
    ASSUME ConnTypes, NEW fd \in Connected
    PROVE  LET d == RemoveDense(fd) IN
           /\ d \in Seq(FD) /\ {d[i] : i \in DOMAIN d} = Connected \ {fd}
           /\ \A i, j \in DOMAIN d : d[i] = d[j] => i = j
<1> DEFINE n == Len(dense)
           d == RemoveDense(fd)
<1>1. /\ n \in Nat /\ DOMAIN dense = 1 .. n /\ \A i \in 1 .. n : dense[i] \in FD
      /\ {dense[i] : i \in 1 .. n} = Connected
      /\ \A i, j \in 1 .. n : dense[i] = dense[j] => i = j
  BY LenProperties DEF ConnTypes
<1>2. PICK k \in 1 .. n : dense[k] = fd
  BY <1>1
<1> HIDE DEF n
<1>3. n \in 1 .. n /\ n - 1 \in Nat /\ \A i \in 1 .. n - 1 : i \in 1 .. n /\ i # n
  <2>1. n >= 1
    BY <1>1, <1>2
  <2> QED BY <1>1, <2>1
<1>4. /\ DOMAIN d = 1 .. n - 1
      /\ \A i \in 1 .. n - 1 : d[i] = IF dense[i] = fd THEN dense[n] ELSE dense[i]
  BY DEF RemoveDense, n
<1>5. d \in Seq(FD)
  <2>1. d \in [1 .. n - 1 -> FD]
    BY <1>1, <1>3 DEF RemoveDense, n
  <2> QED BY <1>3, <2>1
<1>6. \A i, j \in 1 .. n - 1 : d[i] = d[j] => i = j
  BY <1>1, <1>3, <1>4
<1>7. \A i \in 1 .. n - 1 : d[i] \in Connected \ {fd}
  BY <1>1, <1>3, <1>4
<1>8. ASSUME NEW x \in Connected \ {fd} PROVE \E i \in 1 .. n - 1 : d[i] = x
  <2>1. PICK j \in 1 .. n : dense[j] = x
    BY <1>1
  <2>2. CASE j = n
    <3>1. k \in 1 .. n - 1
      BY <1>1, <1>2, <2>1, <2>2
    <3> QED BY <1>2, <1>4, <2>1, <2>2, <3>1
  <2>3. CASE j # n
    <3>1. j \in 1 .. n - 1
      BY <1>1, <2>3
    <3> QED BY <1>4, <2>1, <3>1
  <2> QED BY <2>2, <2>3
<1>9. {d[i] : i \in 1 .. n - 1} = Connected \ {fd}
  BY <1>7, <1>8
<1> QED BY <1>4, <1>5, <1>6, <1>9

----------------------------------------------------------------------------
(* Events. *)

(* Nothing is left to do for fd in this turn.                               *)
Handled(fd) ==
  /\ batch' \subseteq batch /\ \A e \in batch' : e.fd # fd
  /\ writing' = 0 /\ writing \in {0, fd}

(* The event that a handler takes is about a client that waits for it.      *)
LEMMA EventHandled ==
    ASSUME IInv, NEW fd \in FD, NEW status, Handle(fd, status)
    PROVE  /\ writing = 0 /\ fd \in Connected
           /\ batch' \subseteq batch /\ \A e \in batch' : e.fd # fd
           /\ status \in {"READ", "WRITE"} => clients[fd].want = status
<1>1. PICK e \in batch : e.fd = fd /\ e.status = status /\ batch' = batch \ {e}
  BY DEF Handle
<1>2. EventInv /\ EventsFresh /\ fd # ServerFD
  BY LoopAssumption DEF IInv, EventInv, FD, ServerFD
<1>3. fd \in Connected /\ (status # "ERROR" => clients[fd].want = status)
  BY <1>1, <1>2 DEF EventInv, EventsFresh
<1>4. \A g \in batch' : g.fd # fd
  BY <1>1, <1>2 DEF EventInv
<1> QED BY <1>1, <1>3, <1>4 DEF Handle

----------------------------------------------------------------------------
(* A client that is disconnected. *)

Gone(fd) ==
  /\ Replaced(fd, NoClient)
  /\ dense' = RemoveDense(fd)
  /\ conn' = [conn EXCEPT ![clients[fd].peer] = "closed"]
  /\ inq' = [inq EXCEPT ![clients[fd].peer] = <<>>]
  /\ UNCHANGED <<outq, sent, answered>>
  /\ Handled(fd)

(* What is left of the peers and the clients.                               *)
LEMMA GoneFacts ==
    ASSUME IInv, NEW fd \in Connected, Gone(fd)
    PROVE  /\ clients[fd].peer \in Peer
           /\ Connected' = Connected \ {fd}
           /\ \A g \in Connected' : /\ g \in Connected /\ clients'[g] = clients[g]
                                    /\ clients[g] \in Client
                                    /\ clients[g].peer # clients[fd].peer
                                    /\ clients[g].peer \in Peer
           /\ conn'[clients[fd].peer] = "closed" /\ inq'[clients[fd].peer] = <<>>
           /\ \A p \in Peer : p # clients[fd].peer => conn'[p] = conn[p] /\ inq'[p] = inq[p]
           /\ sent' = sent /\ answered' = answered /\ outq' = outq
           /\ Backlog' \subseteq Backlog
<1>1. ConnTypes /\ ConnInv /\ Replaced(fd, NoClient)
  BY DEF IInv, Gone
<1>2. /\ Connected' = Connected \ {fd}
      /\ \A g \in FD : g # fd => clients'[g] = clients[g]
      /\ \A g \in Connected : g \in FD /\ clients[g] \in Client
  BY <1>1, ClientRemoved DEF Connected
<1>3. \A g \in Connected : clients[g].peer \in Peer
  BY <1>2 DEF Client
<1>4. \A g \in Connected \ {fd} : clients[g].peer # clients[fd].peer
  BY <1>1 DEF ConnInv
<1>5. /\ conn'[clients[fd].peer] = "closed" /\ inq'[clients[fd].peer] = <<>>
      /\ \A p \in Peer : p # clients[fd].peer => conn'[p] = conn[p] /\ inq'[p] = inq[p]
  BY <1>1, <1>3 DEF Gone, ConnTypes
<1>6. PeersIn' = PeersIn \ {clients[fd].peer}
  BY <1>2, <1>4 DEF PeersIn
<1>7. Backlog' \subseteq Backlog
  BY <1>5, <1>6 DEF Backlog
<1> QED BY <1>2, <1>3, <1>4, <1>5, <1>7 DEF Gone

(* The part of the invariant that is not about blocks.                      *)
Safe == ConnTypes /\ ConnInv /\ EventInv /\ DataInv /\ OrderInv

LEMMA GoneSafe ==
    ASSUME IInv, NEW fd \in Connected, Gone(fd)
    PROVE  Safe'
<1> DEFINE p == clients[fd].peer
<1>0. /\ p \in Peer
      /\ Connected' = Connected \ {fd}
      /\ \A g \in Connected' : /\ g \in Connected /\ clients'[g] = clients[g]
                               /\ clients[g] \in Client /\ clients[g].peer # p
                               /\ clients[g].peer \in Peer
      /\ conn'[p] = "closed" /\ inq'[p] = <<>>
      /\ \A q \in Peer : q # p => conn'[q] = conn[q] /\ inq'[q] = inq[q]
      /\ sent' = sent /\ answered' = answered
      /\ Backlog' \subseteq Backlog
  BY GoneFacts
<1>i. ConnTypes /\ ConnInv /\ EventInv /\ DataInv /\ OrderInv
  BY DEF IInv
<1>h. /\ batch' \subseteq batch /\ (\A e \in batch' : e.fd # fd)
      /\ writing' = 0 /\ writing \in {0, fd}
  BY DEF Gone, Handled
<1>t. ConnTypes'
  <2>1. conn' \in [Peer -> {"none", "open", "shut", "reset", "closed"}]
    BY <1>0, <1>i DEF Gone, ConnTypes
  <2>2. inq' \in [Peer -> Seq(Piece)] /\ outq' \in [Peer -> Seq(Piece)]
    BY <1>0, <1>i, EmptySeq DEF Gone, ConnTypes
  <2>3. sent' \in [Peer -> Piece] /\ answered' \in [Peer -> Piece]
    BY <1>0, <1>i DEF ConnTypes
  <2>4. clients' \in [FD -> Client \cup {NoClient}]
    BY <1>i, ClientRemoved DEF Gone
  <2>5. \A g \in Connected' : clients'[g].want = "READ" => Len(clients'[g].data) <= MaxRequest
    BY <1>0, <1>i DEF ConnTypes
  <2>6. /\ dense' \in Seq(FD) /\ {dense'[i] : i \in DOMAIN dense'} = Connected'
        /\ \A i, j \in DOMAIN dense' : dense'[i] = dense'[j] => i = j
    <3>1. dense' = RemoveDense(fd)
      BY DEF Gone
    <3> QED BY <1>0, <1>i, <3>1, DenseRemoved
  <2>7. /\ batch' \subseteq [fd : FD \cup {ServerFD}, status : {"READ", "WRITE", "ERROR"},
                           peer : Peer \cup {"none"}]
        /\ writing' \in FD \cup {0}
    BY <1>h, <1>i DEF ConnTypes
  <2> QED BY <2>1, <2>2, <2>3, <2>4, <2>5, <2>6, <2>7 DEF ConnTypes
<1>c. ConnInv'
  <2>1. \A g \in Connected' : conn'[clients'[g].peer] \in {"open", "shut", "reset"}
    BY <1>0, <1>i DEF ConnInv
  <2>2. \A f, g \in Connected' : clients'[f].peer = clients'[g].peer => f = g
    BY <1>0, <1>i DEF ConnInv
  <2>3. \A q \in Peer : conn'[q] \in {"none", "closed"} => inq'[q] = <<>>
    BY <1>0, <1>i DEF ConnInv
  <2>4. \A q \in Backlog' : answered'[q] = NoPiece(q)
    BY <1>0, <1>i DEF ConnInv
  <2> QED BY <2>1, <2>2, <2>3, <2>4 DEF ConnInv
<1>e. EventInv'
  <2>1. EventsFresh'
    <3>1. \A e \in batch' : e.fd # ServerFD => e.fd \in Connected' /\ clients'[e.fd].peer = e.peer
      BY <1>0, <1>h, <1>i DEF EventInv, EventsFresh
    <3> QED BY <3>1 DEF EventsFresh
  <2>2. \A e, g \in batch' : e.fd = g.fd => e = g
    BY <1>h, <1>i DEF EventInv
  <2>3. \A e \in batch' : e.fd # ServerFD /\ e.status # "ERROR" => clients'[e.fd].want = e.status
    BY <1>0, <1>h, <1>i, <2>1 DEF EventInv, EventsFresh
  <2> QED BY <1>h, <2>1, <2>2, <2>3 DEF EventInv
<1>d. DataInv'
  <2>1. \A q \in Peer : AllOf(inq'[q], "ask", q)
    <3>1. AllOf(<<>>, "ask", p)
      BY DEF AllOf
    <3> QED BY <1>0, <1>i, <3>1 DEF DataInv
  <2>2. \A g \in Connected' : AllOf(clients'[g].data,
                                   IF clients'[g].want = "WRITE" THEN "answer" ELSE "ask",
                                   clients'[g].peer)
    BY <1>0, <1>i DEF DataInv
  <2>3. ASSUME NEW g \in Connected', clients'[g].want = "WRITE"
        PROVE  clients'[g].data # <<>>
    <3>1. g # fd /\ g # 0 /\ g # writing
      BY <1>0, <1>h, LoopAssumption DEF Connected, FD
    <3> QED BY <1>0, <1>i, <2>3, <3>1 DEF DataInv
  <2> QED BY <2>1, <2>2, <2>3 DEF DataInv
<1>o. OrderInv'
  <2>1. Between(<<>>, answered[p], sent[p])
    BY DEF Between, Ordered
  <2>2. \A q \in Peer : /\ Ended(answered'[q].no, sent'[q])
                        /\ Between(inq'[q], answered'[q], sent'[q])
    BY <1>0, <1>i, <2>1 DEF OrderInv
  <2>3. ASSUME NEW g \in Connected'
        PROVE  LET c == clients'[g]
                   q == c.peer IN
               /\ c.want = "READ" => AskFits(c.data, inq'[q], answered'[q], sent'[q])
               /\ c.want = "WRITE" => AnswerFits(c.data, inq'[q], answered'[q], sent'[q])
    BY <1>0, <1>i DEF OrderInv
  <2> QED BY <2>2, <2>3 DEF OrderInv
<1> QED BY <1>t, <1>c, <1>e, <1>d, <1>o DEF Safe

----------------------------------------------------------------------------
(* A client whose buffer, interest or timer changes. *)

(* The client fd becomes c; only its own socket changes with it.             *)
Served1(fd, c) ==
  /\ Replaced(fd, c)
  /\ UNCHANGED <<conn, sent, dense>>
  /\ \A q \in Peer : q # c.peer => inq'[q] = inq[q] /\ answered'[q] = answered[q]
  /\ batch' \subseteq batch /\ \A e \in batch' : e.fd # fd
  /\ writing \in {0, fd} /\ writing' \in {0, fd}

(* What it takes for the invariant to go on: what the new buffer holds fits   *)
(* what the client waits for, and its place among what went in and out.        *)
LEMMA ServedSafe ==
    ASSUME IInv, NEW fd \in Connected, NEW c \in Client, Served1(fd, c),
           c.peer = clients[fd].peer,
           c.want = "READ" => Len(c.data) <= MaxRequest,
           inq' \in [Peer -> Seq(Piece)], outq' \in [Peer -> Seq(Piece)],
           answered' \in [Peer -> Piece],
           inq[c.peer] = <<>> => inq'[c.peer] = <<>>,
           AllOf(inq'[c.peer], "ask", c.peer),
           AllOf(c.data, IF c.want = "WRITE" THEN "answer" ELSE "ask", c.peer),
           c.want = "WRITE" /\ fd # writing' => c.data # <<>>,
           writing' # 0 => c.want = "WRITE",
           Ended(answered'[c.peer].no, sent[c.peer]),
           Between(inq'[c.peer], answered'[c.peer], sent[c.peer]),
           c.want = "READ" => AskFits(c.data, inq'[c.peer], answered'[c.peer], sent[c.peer]),
           c.want = "WRITE" => AnswerFits(c.data, inq'[c.peer], answered'[c.peer], sent[c.peer])
    PROVE  Safe'
<1> DEFINE p == c.peer
<1>i. ConnTypes /\ ConnInv /\ EventInv /\ DataInv /\ OrderInv
  BY DEF IInv
<1>1. /\ Connected' = Connected /\ clients'[fd] = c
      /\ \A g \in FD : g # fd => clients'[g] = clients[g]
      /\ clients' \in [FD -> Client \cup {NoClient}]
      /\ \A g \in Connected : clients[g] \in Client
  BY <1>i, ClientReplaced DEF Served1
<1>0. /\ p \in Peer /\ fd \in Connected'
      /\ \A g \in Connected' : /\ g \in Connected /\ g \in FD /\ g # 0
                               /\ clients'[g].peer = clients[g].peer
                               /\ clients[g].peer \in Peer
                               /\ g # fd => /\ clients'[g] = clients[g]
                                            /\ clients[g].peer # p
                                            /\ inq'[clients[g].peer] = inq[clients[g].peer]
                                            /\ answered'[clients[g].peer] = answered[clients[g].peer]
  <2>1. \A g \in Connected : clients[g].peer \in Peer /\ g \in FD /\ g # 0
    BY <1>1, LoopAssumption DEF Client, Connected, FD
  <2>2. \A g \in Connected : g # fd => clients[g].peer # p
    BY <1>i DEF ConnInv
  <2>3. \A g \in Connected : clients'[g].peer = clients[g].peer
    BY <1>1, <2>1
  <2> QED BY <1>1, <2>1, <2>2, <2>3 DEF Served1
<1>h. /\ conn' = conn /\ sent' = sent /\ dense' = dense
      /\ \A q \in Peer : q # p => inq'[q] = inq[q] /\ answered'[q] = answered[q]
      /\ batch' \subseteq batch /\ (\A e \in batch' : e.fd # fd)
      /\ writing \in {0, fd} /\ writing' \in {0, fd}
  BY DEF Served1
<1>b. Backlog' = Backlog /\ p \notin Backlog
  <2>1. PeersIn' = PeersIn
    BY <1>0, <1>1, SamePeers
  <2>2. p \in PeersIn
    BY DEF PeersIn
  <2> QED BY <1>h, <2>1, <2>2 DEF Backlog
<1>t. ConnTypes'
  <2>1. /\ conn' \in [Peer -> {"none", "open", "shut", "reset", "closed"}]
        /\ sent' \in [Peer -> Piece]
    BY <1>h, <1>i DEF ConnTypes
  <2>2. ASSUME NEW g \in Connected', clients'[g].want = "READ"
        PROVE  Len(clients'[g].data) <= MaxRequest
    <3>1. CASE g = fd
      BY <1>1, <2>2, <3>1
    <3>2. CASE g # fd
      BY <1>0, <1>i, <2>2, <3>2 DEF ConnTypes
    <3> QED BY <3>1, <3>2
  <2>3. /\ dense' \in Seq(FD) /\ {dense'[i] : i \in DOMAIN dense'} = Connected'
        /\ \A i, j \in DOMAIN dense' : dense'[i] = dense'[j] => i = j
    BY <1>1, <1>h, <1>i DEF ConnTypes
  <2>4. /\ batch' \subseteq [fd : FD \cup {ServerFD}, status : {"READ", "WRITE", "ERROR"},
                           peer : Peer \cup {"none"}]
        /\ writing' \in FD \cup {0}
    BY <1>0, <1>h, <1>i DEF ConnTypes
  <2> QED BY <1>1, <2>1, <2>2, <2>3, <2>4 DEF ConnTypes
<1>c. ConnInv'
  <2>1. \A g \in Connected' : conn'[clients'[g].peer] \in {"open", "shut", "reset"}
    BY <1>0, <1>h, <1>i DEF ConnInv
  <2>2. \A f, g \in Connected' : clients'[f].peer = clients'[g].peer => f = g
    BY <1>0, <1>i DEF ConnInv
  <2>3. \A q \in Peer : conn'[q] \in {"none", "closed"} => inq'[q] = <<>>
    BY <1>h, <1>i DEF ConnInv
  <2>4. \A q \in Backlog' : answered'[q] = NoPiece(q)
    <3>1. \A q \in Backlog : q \in Peer /\ q # p
      BY <1>b DEF Backlog
    <3> QED BY <1>b, <1>h, <1>i, <3>1 DEF ConnInv
  <2> QED BY <2>1, <2>2, <2>3, <2>4 DEF ConnInv
<1>e. EventInv'
  <2>1. \A e \in batch' : e.fd # ServerFD => /\ e.fd \in Connected'
                                             /\ clients'[e.fd].peer = e.peer
    BY <1>0, <1>1, <1>h, <1>i DEF EventInv, EventsFresh
  <2>2. \A e, g \in batch' : e.fd = g.fd => e = g
    BY <1>h, <1>i DEF EventInv
  <2>3. \A e \in batch' : e.fd # ServerFD /\ e.status # "ERROR" => clients'[e.fd].want = e.status
    BY <1>0, <1>h, <1>i, <2>1 DEF EventInv
  <2>4. writing' # 0 => /\ writing' \in Connected' /\ clients'[writing'].want = "WRITE"
                       /\ \A e \in batch' : e.fd # writing'
    BY <1>0, <1>1, <1>h
  <2> QED BY <2>1, <2>2, <2>3, <2>4 DEF EventInv, EventsFresh
<1>d. DataInv'
  <2>1. \A q \in Peer : AllOf(inq'[q], "ask", q)
    BY <1>h, <1>i DEF DataInv
  <2>2. \A g \in Connected' : AllOf(clients'[g].data,
                                   IF clients'[g].want = "WRITE" THEN "answer" ELSE "ask",
                                   clients'[g].peer)
    BY <1>0, <1>1, <1>i DEF DataInv
  <2>3. ASSUME NEW g \in Connected', clients'[g].want = "WRITE", g # writing'
        PROVE  clients'[g].data # <<>>
    <3>1. CASE g = fd
      BY <1>1, <2>3, <3>1
    <3>2. CASE g # fd
      <4>1. g # writing /\ clients'[g] = clients[g] /\ g \in Connected
        BY <1>0, <1>h, <3>2
      <4> QED BY <1>i, <2>3, <4>1 DEF DataInv
    <3> QED BY <3>1, <3>2
  <2> QED BY <2>1, <2>2, <2>3 DEF DataInv
<1>o. OrderInv'
  <2>1. \A q \in Peer : /\ Ended(answered'[q].no, sent'[q])
                        /\ Between(inq'[q], answered'[q], sent'[q])
    BY <1>h, <1>i DEF OrderInv
  <2>2. ASSUME NEW g \in Connected'
        PROVE  LET d == clients'[g]
                   q == d.peer IN
               /\ d.want = "READ" => AskFits(d.data, inq'[q], answered'[q], sent'[q])
               /\ d.want = "WRITE" => AnswerFits(d.data, inq'[q], answered'[q], sent'[q])
    <3>1. CASE g = fd
      BY <1>1, <1>h, <3>1
    <3>2. CASE g # fd
      BY <1>0, <1>h, <1>i, <3>2 DEF OrderInv
    <3> QED BY <3>1, <3>2
  <2> QED BY <2>1, <2>2 DEF OrderInv
<1> QED BY <1>t, <1>c, <1>e, <1>d, <1>o DEF Safe

----------------------------------------------------------------------------
(* Pieces that are read and answers to them. *)

Taken(data, in, n) == data \o SubSeq(in, 1, n)
Rest(in, n) == SubSeq(in, n + 1, Len(in))

(* Reading n pieces leaves the others in the socket.                         *)
LEMMA LeftPieces ==
    ASSUME NEW in \in Seq(Piece), NEW n \in 1 .. Len(in)
    PROVE  /\ Rest(in, n) \in Seq(Piece)
           /\ DOMAIN Rest(in, n) = 1 .. Len(in) - n
           /\ \A j \in 1 .. Len(in) - n : n + j \in 1 .. Len(in) /\ Rest(in, n)[j] = in[n + j]
<1>1. /\ Len(in) \in Nat /\ n \in Nat /\ n >= 1 /\ n <= Len(in)
      /\ \A i \in 1 .. Len(in) : in[i] \in Piece
  BY LenProperties
<1>2. /\ Rest(in, n) \in Seq(Piece) /\ Len(Rest(in, n)) = Len(in) - n
      /\ \A j \in 1 .. Len(in) - n : Rest(in, n)[j] = in[n + j]
  <2>1. \A i \in n + 1 .. Len(in) : in[i] \in Piece
    BY <1>1
  <2>2. /\ SubSeq(in, n + 1, Len(in)) \in Seq(Piece)
        /\ Len(SubSeq(in, n + 1, Len(in))) =
             (IF n + 1 <= Len(in) THEN Len(in) - (n + 1) + 1 ELSE 0)
        /\ \A j \in 1 .. Len(in) - (n + 1) + 1 :
             SubSeq(in, n + 1, Len(in))[j] = in[(n + 1) + j - 1]
    BY <1>1, <2>1, SubSeqProperties
  <2>3. Len(SubSeq(in, n + 1, Len(in))) = Len(in) - n
    BY <1>1, <2>2
  <2>4. ASSUME NEW j \in 1 .. Len(in) - n
        PROVE  SubSeq(in, n + 1, Len(in))[j] = in[n + j]
    <3>1. j \in 1 .. Len(in) - (n + 1) + 1 /\ (n + 1) + j - 1 = n + j
      BY <1>1
    <3> QED BY <2>2, <3>1
  <2> QED BY <2>2, <2>3, <2>4 DEF Rest
<1>3. DOMAIN Rest(in, n) = 1 .. Len(in) - n
  BY <1>2, LenProperties
<1>4. \A j \in 1 .. Len(in) - n : n + j \in 1 .. Len(in)
  BY <1>1
<1> QED BY <1>2, <1>3, <1>4

(* Reading n pieces moves them from the socket to the end of the buffer.     *)
LEMMA TakenPieces ==
    ASSUME NEW data \in Seq(Piece), NEW in \in Seq(Piece), NEW n \in 1 .. Len(in)
    PROVE  /\ Rest(in, n) \in Seq(Piece) /\ Taken(data, in, n) \in Seq(Piece)
           /\ DOMAIN Rest(in, n) = 1 .. Len(in) - n
           /\ \A j \in 1 .. Len(in) - n : n + j \in 1 .. Len(in) /\ Rest(in, n)[j] = in[n + j]
           /\ DOMAIN Taken(data, in, n) = 1 .. Len(data) + n /\ Len(data) \in Nat
           /\ Len(Taken(data, in, n)) = Len(data) + n
           /\ \A i \in 1 .. Len(data) : Taken(data, in, n)[i] = data[i]
           /\ \A i \in 1 .. Len(data) + n : ~(i <= Len(data)) =>
                /\ i - Len(data) \in 1 .. n /\ i - Len(data) \in 1 .. Len(in)
                /\ Taken(data, in, n)[i] = in[i - Len(data)]
<1>1. /\ Len(in) \in Nat /\ Len(data) \in Nat /\ n \in Nat /\ n >= 1 /\ n <= Len(in)
      /\ \A i \in 1 .. Len(in) : in[i] \in Piece
  BY LenProperties
<1>2. /\ Rest(in, n) \in Seq(Piece) /\ DOMAIN Rest(in, n) = 1 .. Len(in) - n
      /\ \A j \in 1 .. Len(in) - n : n + j \in 1 .. Len(in) /\ Rest(in, n)[j] = in[n + j]
  BY LeftPieces
<1>3. /\ SubSeq(in, 1, n) \in Seq(Piece) /\ Len(SubSeq(in, 1, n)) = n
      /\ \A j \in 1 .. n : SubSeq(in, 1, n)[j] = in[j]
  <2>1. \A i \in 1 .. n : in[i] \in Piece
    BY <1>1
  <2> QED BY <1>1, <2>1, SubSeqProperties
<1>4. /\ Taken(data, in, n) \in Seq(Piece)
      /\ Len(Taken(data, in, n)) = Len(data) + n
      /\ \A i \in 1 .. Len(data) + n : Taken(data, in, n)[i] =
           IF i <= Len(data) THEN data[i] ELSE SubSeq(in, 1, n)[i - Len(data)]
  BY <1>3, ConcatProperties DEF Taken
<1>5. DOMAIN Taken(data, in, n) = 1 .. Len(data) + n
  BY <1>4, LenProperties
<1>7. \A i \in 1 .. Len(data) : Taken(data, in, n)[i] = data[i]
  <2>1. \A i \in 1 .. Len(data) : i \in 1 .. Len(data) + n /\ i <= Len(data)
    BY <1>1
  <2> QED BY <1>4, <2>1
<1>8. ASSUME NEW i \in 1 .. Len(data) + n, ~(i <= Len(data))
      PROVE  /\ i - Len(data) \in 1 .. n /\ i - Len(data) \in 1 .. Len(in)
             /\ Taken(data, in, n)[i] = in[i - Len(data)]
  <2>1. i - Len(data) \in 1 .. n /\ i - Len(data) \in 1 .. Len(in)
    BY <1>1, <1>8
  <2> QED BY <1>3, <1>4, <1>8, <2>1
<1> QED BY <1>1, <1>2, <1>4, <1>5, <1>7, <1>8

(* Both parts are still pieces of one kind.                                  *)
LEMMA TakenAllOf ==
    ASSUME NEW data \in Seq(Piece), NEW in \in Seq(Piece), NEW n \in 1 .. Len(in),
           NEW kind, NEW p, AllOf(data, kind, p), AllOf(in, kind, p)
    PROVE  AllOf(Taken(data, in, n), kind, p) /\ AllOf(Rest(in, n), kind, p)
<1> DEFINE Good(x) == x.kind = kind /\ x.own = p
<1>1. /\ \A i \in 1 .. Len(data) : Good(data[i])
      /\ \A i \in 1 .. Len(in) : Good(in[i])
      /\ Len(data) \in Nat
  BY LenProperties DEF AllOf
<1> HIDE DEF Good
<1>2. /\ DOMAIN Rest(in, n) = 1 .. Len(in) - n
      /\ \A j \in 1 .. Len(in) - n : n + j \in 1 .. Len(in) /\ Rest(in, n)[j] = in[n + j]
  BY LeftPieces
<1>3. DOMAIN Taken(data, in, n) = 1 .. Len(data) + n
  BY TakenPieces
<1>4. \A i \in 1 .. Len(data) : Taken(data, in, n)[i] = data[i]
  BY TakenPieces
<1>5. \A i \in 1 .. Len(data) + n : ~(i <= Len(data)) =>
        i - Len(data) \in 1 .. Len(in) /\ Taken(data, in, n)[i] = in[i - Len(data)]
  BY TakenPieces
<1>6. \A i \in 1 .. Len(data) + n : Good(Taken(data, in, n)[i])
  <2> SUFFICES ASSUME NEW i \in 1 .. Len(data) + n PROVE Good(Taken(data, in, n)[i])
    OBVIOUS
  <2>1. CASE i <= Len(data)
    <3>1. i \in 1 .. Len(data)
      BY <1>1, <2>1
    <3> QED BY <1>1, <1>4, <3>1
  <2>2. CASE ~(i <= Len(data))
    BY <1>1, <1>5, <2>2
  <2> QED BY <2>1, <2>2
<1>7. \A j \in 1 .. Len(in) - n : Good(Rest(in, n)[j])
  BY <1>1, <1>2
<1> QED BY <1>2, <1>3, <1>6, <1>7 DEF AllOf, Good

(* What is left in the socket is in order and after the buffer.              *)
LEMMA TakenOrder ==
    ASSUME NEW data \in Seq(Piece), NEW in \in Seq(Piece), NEW n \in 1 .. Len(in),
           NEW a \in Piece, NEW s \in Piece,
           Between(in, a, s), AskFits(data, in, a, s)
    PROVE  /\ Between(Rest(in, n), a, s)
           /\ AskFits(Taken(data, in, n), Rest(in, n), a, s)
<1> DEFINE t == Taken(data, in, n)
           r == Rest(in, n)
<1>1. /\ DOMAIN data = 1 .. Len(data) /\ DOMAIN in = 1 .. Len(in)
      /\ Len(data) \in Nat /\ Len(in) \in Nat /\ n \in Nat
  BY LenProperties
<1>0. /\ DOMAIN r = 1 .. Len(in) - n
      /\ \A j \in 1 .. Len(in) - n : n + j \in 1 .. Len(in) /\ r[j] = in[n + j]
  BY LeftPieces
<1>2. /\ DOMAIN t = 1 .. Len(data) + n
      /\ \A i \in 1 .. Len(data) : t[i] = data[i]
      /\ \A i \in 1 .. Len(data) + n : ~(i <= Len(data)) =>
           /\ i - Len(data) \in 1 .. n /\ i - Len(data) \in 1 .. Len(in)
           /\ t[i] = in[i - Len(data)]
  BY TakenPieces
<1> HIDE DEF t, r
<1>3. /\ \A i, j \in 1 .. Len(in) : i < j => Before(in[i], in[j])
      /\ \A i, j \in 1 .. Len(data) : i < j => Before(data[i], data[j])
      /\ \A i \in 1 .. Len(data), j \in 1 .. Len(in) : Before(data[i], in[j])
      /\ a.end
  BY <1>1 DEF Between, AskFits, Ordered
<1> DEFINE In(x) == a.no < x.no /\ x.no <= s.no /\ (x.end => Ended(x.no, s))
<1>4. (\A i \in 1 .. Len(data) : In(data[i])) /\ \A i \in 1 .. Len(in) : In(in[i])
  BY <1>1 DEF Between, AskFits
<1> HIDE DEF In
<1>5. \A i \in 1 .. Len(data) + n : i <= Len(data) => i \in 1 .. Len(data)
  BY <1>1
<1>6. Ordered(r)
  <2>1. ASSUME NEW i \in DOMAIN r, NEW j \in DOMAIN r, i < j PROVE Before(r[i], r[j])
    <3>1. n + i \in 1 .. Len(in) /\ n + j \in 1 .. Len(in) /\ n + i < n + j
      BY <1>1, <1>0, <1>2, <2>1
    <3> QED BY <1>0, <1>2, <1>3, <3>1
  <2> QED BY <2>1 DEF Ordered
<1>7. Between(r, a, s)
  <2>1. \A i \in DOMAIN r : In(r[i])
    BY <1>0, <1>2, <1>4
  <2> QED BY <1>6, <2>1 DEF Between, In
<1>8. Ordered(t)
  <2>1. ASSUME NEW i \in DOMAIN t, NEW j \in DOMAIN t, i < j PROVE Before(t[i], t[j])
    <3>1. CASE j <= Len(data)
      <4>1. i <= Len(data)
        BY <1>1, <1>0, <1>2, <2>1, <3>1
      <4> QED BY <1>0, <1>2, <1>3, <1>5, <2>1, <3>1, <4>1
    <3>2. CASE ~(j <= Len(data)) /\ i <= Len(data)
      BY <1>0, <1>2, <1>3, <1>5, <3>2
    <3>3. CASE ~(j <= Len(data)) /\ ~(i <= Len(data))
      <4>1. i - Len(data) < j - Len(data)
        BY <1>1, <1>0, <1>2, <2>1
      <4> QED BY <1>0, <1>2, <1>3, <3>3, <4>1
    <3> QED BY <3>1, <3>2, <3>3
  <2> QED BY <2>1 DEF Ordered
<1>9. Between(t, a, s)
  <2>1. \A i \in DOMAIN t : In(t[i])
    BY <1>0, <1>2, <1>4, <1>5
  <2> QED BY <1>8, <2>1 DEF Between, In
<1>10. ASSUME NEW i \in DOMAIN t, NEW j \in DOMAIN r PROVE Before(t[i], r[j])
  <2>1. CASE i <= Len(data)
    BY <1>0, <1>2, <1>3, <1>5, <2>1
  <2>2. CASE ~(i <= Len(data))
    <3>1. i - Len(data) < n + j
      BY <1>1, <1>0, <1>2, <2>2
    <3> QED BY <1>0, <1>2, <1>3, <2>2, <3>1
  <2> QED BY <2>1, <2>2
<1>11. AskFits(t, r, a, s)
  BY <1>3, <1>9, <1>10 DEF AskFits
<1> QED BY <1>7, <1>11 DEF t, r

(* The answer to the first request of a buffer that holds all of it fits in   *)
(* where the last answer ended.                                              *)
LEMMA AnswerToFits ==
    ASSUME NEW data \in Seq(Piece), NEW in, NEW a \in Piece, NEW s \in Piece,
           NEW p \in Peer, NEW n \in Nat \ {0},
           data # <<>>, AllOf(data, "ask", p), AskFits(data, in, a, s),
           Parse(data) = "OK",
           \A j \in DOMAIN in : in[j].no \in Nat
    PROVE  /\ AnswerTo(data, n) \in Seq(Piece) /\ AnswerTo(data, n) # <<>>
           /\ AllOf(AnswerTo(data, n), "answer", p)
           /\ AnswerFits(AnswerTo(data, n), in, a, s)
<1> DEFINE t == AnswerTo(data, n)
<1>1. /\ DOMAIN data = 1 .. Len(data) /\ 1 \in DOMAIN data
      /\ \A i \in DOMAIN data : data[i] \in Piece
  BY LenProperties, EmptySeq
<1>2. data[1].own = p /\ data[1].no \in Nat /\ a.no < data[1].no /\ a.end
  BY <1>1 DEF AllOf, AskFits, Between, Piece
<1>3. Ended(data[1].no, s) /\ \A j \in DOMAIN in : data[1].no < in[j].no
  <2>1. PICK i \in DOMAIN data : data[i].end
    BY DEF Parse
  <2>2. data[1].no <= data[i].no
    <3>1. CASE i = 1
      BY <1>2, <3>1
    <3>2. CASE i # 1
      <4>1. 1 < i
        BY <1>1, <3>2
      <4> QED BY <1>1, <4>1 DEF AskFits, Between, Ordered, Before
    <3> QED BY <3>1, <3>2
  <2>3. \A j \in DOMAIN in : data[i].no < in[j].no
    BY <2>1 DEF AskFits, Before
  <2>4. data[i].no \in Nat /\ s.no \in Nat
    BY <1>1 DEF Piece
  <2>5. Ended(data[i].no, s)
    BY <2>1 DEF AskFits, Between
  <2>6. Ended(data[1].no, s)
    BY <1>2, <2>2, <2>4, <2>5 DEF Ended
  <2> QED BY <1>2, <2>2, <2>3, <2>4, <2>6
<1>4. /\ DOMAIN t = 1 .. n
      /\ \A i \in 1 .. n : t[i] = [kind |-> "answer", own |-> p, no |-> data[1].no,
                                  part |-> i, end |-> i = n]
  BY <1>2 DEF AnswerTo
<1>5. t \in Seq(Piece) /\ Len(t) = n /\ t # <<>>
  <2>1. ASSUME NEW i \in 1 .. n PROVE t[i] \in Piece
    <3>1. i \in Nat /\ (i = n) \in BOOLEAN
      OBVIOUS
    <3>2. [kind |-> "answer", own |-> p, no |-> data[1].no, part |-> i, end |-> i = n] \in Piece
      BY <1>2, <3>1 DEF Piece
    <3> QED BY <1>4, <3>2
  <2>2. t \in [1 .. n -> Piece]
    BY <2>1 DEF AnswerTo
  <2> QED BY <2>2
<1> HIDE DEF t
<1>6. AllOf(t, "answer", p)
  BY <1>4 DEF AllOf
<1>7. AnswerFits(t, in, a, s)
  <2>1. t[1].no = data[1].no
    BY <1>4
  <2>2. ASSUME NEW i \in DOMAIN t
        PROVE  /\ t[i].no = t[1].no /\ Ended(t[i].no, s)
               /\ t[i].end <=> i = Len(t)
               /\ \A j \in DOMAIN in : t[i].no < in[j].no
               /\ IF a.end THEN t[i].no > a.no /\ t[i].part = i
                           ELSE t[i].no = a.no /\ t[i].part = a.part + i
    <3>1. /\ t[i].no = data[1].no /\ t[i].part = i /\ (t[i].end <=> i = n)
      <4>1. t[i].no = data[1].no /\ t[i].part = i /\ t[i].end = (i = n)
        BY <1>4
      <4> QED BY <4>1
    <3>2. data[1].no > a.no
      BY <1>2 DEF Piece
    <3> QED BY <1>2, <1>3, <1>5, <2>1, <3>1, <3>2
  <2> QED BY <1>5, <2>2 DEF AnswerFits
<1> QED BY <1>5, <1>6, <1>7 DEF t

----------------------------------------------------------------------------
(* Handlers that read. *)

(* What a handler knows of the client whose input it reads.                  *)
LEMMA ReadFacts ==
    ASSUME IInv, NEW fd \in FD, Handle(fd, "READ")
    PROVE  /\ fd \in Connected /\ clients[fd] \in Client /\ clients[fd].want = "READ"
           /\ clients[fd].peer \in Peer /\ clients[fd].data \in Seq(Piece)
           /\ clients[fd].blk \in {0} \cup Tier
           /\ inq[clients[fd].peer] \in Seq(Piece)
           /\ answered[clients[fd].peer] \in Piece /\ sent[clients[fd].peer] \in Piece
           /\ AllOf(inq[clients[fd].peer], "ask", clients[fd].peer)
           /\ AllOf(clients[fd].data, "ask", clients[fd].peer)
           /\ Ended(answered[clients[fd].peer].no, sent[clients[fd].peer])
           /\ Between(inq[clients[fd].peer], answered[clients[fd].peer], sent[clients[fd].peer])
           /\ AskFits(clients[fd].data, inq[clients[fd].peer], answered[clients[fd].peer],
                      sent[clients[fd].peer])
           /\ writing = 0 /\ batch' \subseteq batch /\ \A e \in batch' : e.fd # fd
<1>1. /\ fd \in Connected /\ clients[fd].want = "READ"
      /\ writing = 0 /\ batch' \subseteq batch /\ \A e \in batch' : e.fd # fd
  BY EventHandled
<1>2. ConnTypes /\ DataInv /\ OrderInv
  BY DEF IInv
<1>3. clients[fd] \in Client
  BY <1>1, <1>2 DEF ConnTypes, Connected
<1>4. /\ clients[fd].peer \in Peer /\ clients[fd].data \in Seq(Piece)
      /\ clients[fd].blk \in {0} \cup Tier
  BY <1>3 DEF Client
<1>5. /\ inq[clients[fd].peer] \in Seq(Piece)
      /\ answered[clients[fd].peer] \in Piece /\ sent[clients[fd].peer] \in Piece
  BY <1>2, <1>4 DEF ConnTypes
<1>6. /\ AllOf(inq[clients[fd].peer], "ask", clients[fd].peer)
      /\ AllOf(clients[fd].data, "ask", clients[fd].peer)
  BY <1>1, <1>2, <1>4 DEF DataInv
<1>7. /\ Ended(answered[clients[fd].peer].no, sent[clients[fd].peer])
      /\ Between(inq[clients[fd].peer], answered[clients[fd].peer], sent[clients[fd].peer])
      /\ AskFits(clients[fd].data, inq[clients[fd].peer], answered[clients[fd].peer],
                 sent[clients[fd].peer])
  BY <1>1, <1>2, <1>4 DEF OrderInv
<1> QED BY <1>1, <1>3, <1>4, <1>5, <1>6, <1>7

(* The types of the blocks.                                                  *)
LEMMA BlockFacts == IInv => /\ sys \in {0} \cup Tier /\ free \in [Tier -> Nat]
                            /\ run \in {"on", "stopping", "off"}
BY DEF IInv, BlockInv, BlockTypes

(* What it has after a read of n pieces.                                     *)
LEMMA InputFacts ==
    ASSUME IInv, NEW fd \in FD, NEW n, Reads(fd, n)
    PROVE  /\ n \in 1 .. Len(inq[clients[fd].peer])
           /\ Input(fd, n).data = Taken(clients[fd].data, inq[clients[fd].peer], n)
           /\ Input(fd, n).data \in Seq(Piece) /\ Input(fd, n).data # <<>>
           /\ Input(fd, n).blk \in Tier
           /\ Provided(fd, n) \in [Tier -> Nat]
           /\ \A t \in Tier : Provided(fd, n)[t] =
                (free[t] + Is(t, clients[fd].blk)) - Is(t, Input(fd, n).blk)
<1> DEFINE c == clients[fd]
           in == inq[c.peer]
<1>1. Handle(fd, "READ") /\ n \in 1 .. Len(in) /\ Input(fd, n).blk # 0
  BY DEF Reads
<1>2. c.data \in Seq(Piece) /\ in \in Seq(Piece) /\ c.blk \in {0} \cup Tier
  BY <1>1, ReadFacts
<1>3. free \in [Tier -> Nat]
  BY BlockFacts
<1>4. Input(fd, n).data = Taken(c.data, in, n)
  BY DEF Input, Taken
<1>5. Input(fd, n).data \in Seq(Piece) /\ Input(fd, n).data # <<>>
  <2>1. Taken(c.data, in, n) \in Seq(Piece) /\ Len(Taken(c.data, in, n)) = Len(c.data) + n
    BY <1>1, <1>2, TakenPieces
  <2>2. Len(c.data) \in Nat /\ n \in Nat /\ n >= 1
    BY <1>1, <1>2, LenProperties
  <2>3. Len(Taken(c.data, in, n)) # 0
    BY <2>1, <2>2
  <2>4. Len(<<>>) = 0
    OBVIOUS
  <2> QED BY <1>4, <2>1, <2>3, <2>4
<1>6. /\ Input(fd, n).blk \in {0} \cup Tier
      /\ Input(fd, n).blk = c.blk \/ Input(fd, n).blk = 0 \/ free[Input(fd, n).blk] > 0
  <2>1. TierOf(Len(c.data) + 1) \in Tier
    BY DEF TierOf, Tier
  <2>2. Input(fd, n).blk = allocate(free, c.blk, TierOf(Len(c.data) + 1))
    BY DEF Input
  <2> QED BY <1>2, <1>3, <2>1, <2>2, AllocateFinds
<1>7. Provided(fd, n) = Exchange(free, c.blk, Input(fd, n).blk)
  BY DEF Provided
<1>8. /\ Provided(fd, n) \in [Tier -> Nat]
      /\ \A t \in Tier : Provided(fd, n)[t] = (free[t] + Is(t, c.blk)) - Is(t, Input(fd, n).blk)
  <2> DEFINE old == c.blk
             new == Input(fd, n).blk
  <2>1. old \in {0} \cup Tier /\ new \in {0} \cup Tier /\ (new = old \/ new = 0 \/ free[new] > 0)
    BY <1>2, <1>6
  <2> HIDE DEF old, new
  <2>2. /\ Exchange(free, old, new) \in [Tier -> Nat]
        /\ \A t \in Tier : Exchange(free, old, new)[t] = (free[t] + Is(t, old)) - Is(t, new)
    BY <1>3, <2>1, Exchanged
  <2> QED BY <1>7, <2>2 DEF old, new
<1> QED BY <1>1, <1>4, <1>5, <1>6, <1>8

(* What processSet leaves: the answer or nothing, and all blocks.            *)
LEMMA ProcessSetFacts ==
    ASSUME NEW f \in [Tier -> Nat], sys \in {0} \cup Tier, NEW answer, NEW need \in Tier
    PROVE  LET r == processSet(f, answer, need) IN
           /\ r.buffer.blk \in {0} \cup Tier
           /\ r.buffer = Empty \/ r.buffer.data = answer
           /\ r.free \in [Tier -> Nat]
           /\ \A t \in Tier : r.free[t] = (f[t] + Is(t, sys)) - Is(t, r.buffer.blk)
<1> DEFINE f1 == Exchange(f, sys, 0)
           u == allocate(f1, 0, need)
           r == processSet(f, answer, need)
<1>1. f1 \in [Tier -> Nat] /\ \A t \in Tier : f1[t] = (f[t] + Is(t, sys)) - Is(t, 0)
  BY Exchanged
<1>2. u \in {0} \cup Tier /\ (u = 0 \/ f1[u] > 0)
  BY <1>1, AllocateFinds
<1> HIDE DEF f1, u
<1>3. /\ Exchange(f1, 0, u) \in [Tier -> Nat]
      /\ \A t \in Tier : Exchange(f1, 0, u)[t] = (f1[t] + Is(t, 0)) - Is(t, u)
  BY <1>1, <1>2, Exchanged
<1>4. r.free = Exchange(f1, 0, u) /\ r.buffer.blk = u
  BY DEF processSet, Empty, f1, u
<1>5. r.buffer = Empty \/ r.buffer.data = answer
  BY DEF processSet
<1>6. \A t \in Tier : Is(t, 0) = 0 /\ Is(t, sys) \in Nat /\ Is(t, u) \in Nat /\ f[t] \in Nat
  BY DEF Is, Tier, Small, Large
<1>7. \A t \in Tier : r.free[t] = (f[t] + Is(t, sys)) - Is(t, u)
  BY <1>1, <1>3, <1>4, <1>6
<1> QED BY <1>2, <1>3, <1>4, <1>5, <1>7

(* client_Disconnect_ is what GoneSafe is about.                             *)
LEMMA DisconnectIsGone ==
    ASSUME NEW fd \in Connected, NEW blk, NEW f, client_Disconnect(fd, blk, f),
           batch' \subseteq batch, \A e \in batch' : e.fd # fd,
           writing' = 0, writing \in {0, fd}
    PROVE  Gone(fd) /\ Replaced(fd, NoClient) /\ free' = Exchange(f, blk, 0)
BY DEF client_Disconnect, Gone, Replaced, Handled

(* A client goes with the block of its buffer.                               *)
LEMMA GoneWithBlock ==
    ASSUME IInv, NEW fd \in Connected, client_Disconnect(fd, clients[fd].blk, free),
           batch' \subseteq batch, \A e \in batch' : e.fd # fd,
           writing' = 0, writing \in {0, fd}, sys' = sys, run' = run
    PROVE  IInv'
<1>1. Gone(fd) /\ Replaced(fd, NoClient) /\ free' = Exchange(free, clients[fd].blk, 0)
  BY DisconnectIsGone
<1>2. clients[fd].blk \in {0} \cup Tier
  <2>1. ConnTypes
    BY DEF IInv
  <2>2. clients[fd] \in Client
    BY <2>1 DEF ConnTypes, Connected
  <2> QED BY <2>2 DEF Client
<1>3. sys \in {0} \cup Tier /\ free \in [Tier -> Nat]
  BY BlockFacts
<1> DEFINE old == clients[fd].blk
<1> HIDE DEF old
<1>4. old \in {0} \cup Tier
  BY <1>2 DEF old
<1>5. /\ Exchange(free, old, 0) \in [Tier -> Nat]
      /\ \A t \in Tier : Exchange(free, old, 0)[t] = (free[t] + Is(t, old)) - Is(t, 0)
  BY <1>3, <1>4, Exchanged
<1>6. free' \in [Tier -> Nat] /\ \A t \in Tier : free'[t] = (free[t] + Is(t, old)) - Is(t, 0)
  BY <1>1, <1>5 DEF old
<1>7. \A t \in Tier : /\ Is(t, 0) = 0 /\ Is(t, old) = Is(old, t) /\ Is(old, t) \in Nat
                      /\ Is(sys, t) \in Nat /\ free[t] \in Nat
  BY <1>3 DEF Is, Tier, Small, Large
<1>8. \A t \in Tier : free'[t] = (free[t] + Is(old, t) + Is(sys, t)) - Is(sys', t)
  BY <1>6, <1>7
<1>9. BlockInv'
  BY <1>1, <1>3, <1>6, <1>8, BlocksRemoved DEF old
<1>10. Safe'
  BY <1>1, GoneSafe
<1> QED BY <1>9, <1>10 DEF IInv, Safe

ClientOf(fd, buffer, want) ==
  [peer |-> clients[fd].peer, data |-> buffer.data, blk |-> buffer.blk, want |-> want,
   idle |-> FALSE]

(* Served changes the buffer, the interest and the timer of one client.      *)
LEMMA ServedIsReplaced ==
    ASSUME ConnTypes, NEW fd \in Connected, NEW buffer, NEW want \in {"READ", "WRITE"},
           clients' = Served(fd, buffer, want), clients[fd] \in Client,
           buffer.data \in Seq(Piece), buffer.blk \in {0} \cup Tier
    PROVE  /\ Replaced(fd, ClientOf(fd, buffer, want))
           /\ ClientOf(fd, buffer, want) \in Client
           /\ ClientOf(fd, buffer, want).peer = clients[fd].peer
           /\ ClientOf(fd, buffer, want).data = buffer.data
           /\ ClientOf(fd, buffer, want).blk = buffer.blk
           /\ ClientOf(fd, buffer, want).want = want
<1>1. fd \in DOMAIN clients
  BY DEF ConnTypes, Connected
<1>2. Replaced(fd, ClientOf(fd, buffer, want))
  BY <1>1 DEF Served, Replaced, ClientOf
<1>3. ClientOf(fd, buffer, want) \in Client
  BY DEF ClientOf, Client
<1> QED BY <1>2, <1>3 DEF ClientOf

(* A handler that reads n pieces and keeps the client.                       *)
LEMMA ReadSafe ==
    ASSUME IInv, NEW fd \in FD, NEW n, Reads(fd, n), Consume(fd, n), writing' = writing,
           NEW c \in Client, Replaced(fd, c), c.peer = clients[fd].peer,
           \/ /\ c.want = "READ" /\ c.data = Input(fd, n).data
              /\ Len(Input(fd, n).data) <= MaxRequest
           \/ /\ c.want = "WRITE" /\ Parse(Input(fd, n).data) = "OK"
              /\ \E size \in Nat \ {0} : c.data = AnswerTo(Input(fd, n).data, size)
    PROVE  Safe'
<1> DEFINE p == c.peer
           a == answered[p]
           s == sent[p]
           in == inq[p]
           data == clients[fd].data
<1>0. Handle(fd, "READ")
  BY DEF Reads
<1>1. /\ fd \in Connected /\ p \in Peer /\ data \in Seq(Piece) /\ in \in Seq(Piece)
      /\ a \in Piece /\ s \in Piece
      /\ AllOf(in, "ask", p) /\ AllOf(data, "ask", p)
      /\ Ended(a.no, s) /\ Between(in, a, s) /\ AskFits(data, in, a, s)
      /\ writing = 0 /\ batch' \subseteq batch /\ \A e \in batch' : e.fd # fd
  BY <1>0, ReadFacts
<1>2. /\ n \in 1 .. Len(in) /\ Input(fd, n).data = Taken(data, in, n)
      /\ Input(fd, n).data \in Seq(Piece) /\ Input(fd, n).data # <<>>
  BY InputFacts
<1>3. /\ conn' = conn /\ sent' = sent /\ dense' = dense /\ answered' = answered /\ outq' = outq
      /\ inq' = [inq EXCEPT ![p] = Rest(@, n)]
  BY DEF Consume, Rest
<1>4. /\ Rest(in, n) \in Seq(Piece)
      /\ AllOf(Rest(in, n), "ask", p) /\ AllOf(Taken(data, in, n), "ask", p)
      /\ Between(Rest(in, n), a, s) /\ AskFits(Taken(data, in, n), Rest(in, n), a, s)
  BY <1>1, <1>2, TakenPieces, TakenAllOf, TakenOrder
<1>5. ConnTypes
  BY DEF IInv
<1>6. /\ inq' \in [Peer -> Seq(Piece)] /\ inq'[p] = Rest(in, n)
      /\ \A q \in Peer : q # p => inq'[q] = inq[q]
  BY <1>1, <1>3, <1>4, <1>5 DEF ConnTypes
<1>7. outq' \in [Peer -> Seq(Piece)] /\ answered' \in [Peer -> Piece]
  BY <1>3, <1>5 DEF ConnTypes
<1>8. in # <<>>
  <2>1. Len(<<>>) = 0 /\ 1 .. 0 = {}
    OBVIOUS
  <2> QED BY <1>2, <2>1
<1>9. Served1(fd, c)
  BY <1>1, <1>3, <1>6 DEF Served1
<1>10. /\ AllOf(c.data, IF c.want = "WRITE" THEN "answer" ELSE "ask", p)
       /\ c.want = "WRITE" => c.data # <<>>
       /\ c.want = "READ" => AskFits(c.data, Rest(in, n), a, s)
       /\ c.want = "WRITE" => AnswerFits(c.data, Rest(in, n), a, s)
  <2>1. CASE c.want = "READ"
    BY <1>2, <1>4, <2>1
  <2>2. CASE c.want = "WRITE"
    <3>1. PICK size \in Nat \ {0} : c.data = AnswerTo(Taken(data, in, n), size)
      BY <1>2, <2>2
    <3>2. Parse(Taken(data, in, n)) = "OK"
      BY <1>2, <2>2
    <3>3. \A j \in DOMAIN Rest(in, n) : Rest(in, n)[j].no \in Nat
      <4>1. \A j \in DOMAIN Rest(in, n) : Rest(in, n)[j] \in Piece
        BY <1>4, LenProperties
      <4> QED BY <4>1 DEF Piece
    <3>4. Taken(data, in, n) \in Seq(Piece) /\ Taken(data, in, n) # <<>>
      BY <1>2
    <3> DEFINE t == Taken(data, in, n)
               r == Rest(in, n)
    <3> HIDE DEF t, r
    <3>5. /\ AnswerTo(t, size) # <<>> /\ AllOf(AnswerTo(t, size), "answer", p)
          /\ AnswerFits(AnswerTo(t, size), r, a, s)
      <4>1. t \in Seq(Piece) /\ t # <<>> /\ Parse(t) = "OK" /\ AllOf(t, "ask", p)
            /\ AskFits(t, r, a, s) /\ \A j \in DOMAIN r : r[j].no \in Nat
        BY <1>4, <3>2, <3>3, <3>4 DEF t, r
      <4> QED BY <1>1, <4>1, AnswerToFits
    <3> QED BY <2>2, <3>1, <3>5 DEF t, r
  <2> QED BY <2>1, <2>2 DEF Client
<1>11. c.want = "READ" => Len(c.data) <= MaxRequest
  OBVIOUS
<1> HIDE DEF p, a, s, in, data
<1>12. /\ inq[c.peer] = <<>> => inq'[c.peer] = <<>>
       /\ AllOf(inq'[c.peer], "ask", c.peer)
       /\ AllOf(c.data, IF c.want = "WRITE" THEN "answer" ELSE "ask", c.peer)
       /\ c.want = "WRITE" /\ fd # writing' => c.data # <<>>
       /\ writing' # 0 => c.want = "WRITE"
       /\ Ended(answered'[c.peer].no, sent[c.peer])
       /\ Between(inq'[c.peer], answered'[c.peer], sent[c.peer])
       /\ c.want = "READ" => AskFits(c.data, inq'[c.peer], answered'[c.peer], sent[c.peer])
       /\ c.want = "WRITE" => AnswerFits(c.data, inq'[c.peer], answered'[c.peer], sent[c.peer])
  BY <1>1, <1>3, <1>4, <1>6, <1>8, <1>10 DEF p, a, s, in
<1> QED BY <1>1, <1>6, <1>7, <1>9, <1>11, <1>12, ServedSafe

(* An answer is made of pieces.                                              *)
LEMMA AnswerPieces ==
    ASSUME IInv, NEW fd \in FD, NEW n, Reads(fd, n), NEW size \in Nat \ {0}
    PROVE  AnswerTo(Input(fd, n).data, size) \in Seq(Piece)
<1> DEFINE d == Input(fd, n).data
<1>1. d \in Seq(Piece) /\ d # <<>>
  BY InputFacts
<1>2. d[1] \in Piece
  BY <1>1, EmptySeq, ElementOfSeq
<1>3. d[1].own \in Peer /\ d[1].no \in Nat
  BY <1>2 DEF Piece
<1> HIDE DEF d
<1>4. ASSUME NEW i \in 1 .. size
      PROVE  [kind |-> "answer", own |-> d[1].own, no |-> d[1].no, part |-> i,
              end |-> i = size] \in Piece
  <2>1. i \in Nat /\ (i = size) \in BOOLEAN
    OBVIOUS
  <2> QED BY <1>3, <2>1 DEF Piece
<1>5. AnswerTo(d, size) \in [1 .. size -> Piece]
  BY <1>4 DEF AnswerTo
<1>6. AnswerTo(d, size) \in Seq(Piece)
  BY <1>5
<1> QED BY <1>6 DEF d

(* A refused request, or an EXIT: the client goes, with the block its buffer  *)
(* has now; system_buffer_ gets the block u.                                 *)
LEMMA ReadGone ==
    ASSUME IInv, NEW fd \in FD, NEW n, Reads(fd, n), writing' = writing, run' = run,
           NEW f \in [Tier -> Nat], client_Disconnect(fd, Input(fd, n).blk, f),
           sys' \in {0} \cup Tier,
           \A t \in Tier : f[t] = (Provided(fd, n)[t] + Is(sys, t)) - Is(sys', t)
    PROVE  IInv'
<1> DEFINE old == clients[fd].blk
           new == Input(fd, n).blk
           g == Provided(fd, n)
<1>1. /\ fd \in Connected /\ old \in {0} \cup Tier
      /\ writing = 0 /\ batch' \subseteq batch /\ \A e \in batch' : e.fd # fd
  BY ReadFacts DEF Reads
<1>2. /\ new \in Tier /\ g \in [Tier -> Nat]
      /\ \A t \in Tier : g[t] = (free[t] + Is(t, old)) - Is(t, new)
  BY InputFacts
<1>3. Gone(fd) /\ Replaced(fd, NoClient) /\ free' = Exchange(f, new, 0)
  BY <1>1, DisconnectIsGone
<1>4. sys \in {0} \cup Tier /\ free \in [Tier -> Nat]
  BY BlockFacts
<1> HIDE DEF old, new, g
<1>5. /\ Exchange(f, new, 0) \in [Tier -> Nat]
      /\ \A t \in Tier : Exchange(f, new, 0)[t] = (f[t] + Is(t, new)) - Is(t, 0)
  <2>1. new \in {0} \cup Tier /\ 0 \in {0} \cup Tier
    BY <1>2
  <2> QED BY <2>1, Exchanged
<1>6. ASSUME NEW t \in Tier
      PROVE  free'[t] = (free[t] + Is(old, t) + Is(sys, t)) - Is(sys', t)
  <2>1. /\ Is(t, 0) = 0 /\ Is(t, old) = Is(old, t) /\ Is(old, t) \in Nat
        /\ Is(t, new) \in Nat /\ Is(sys, t) \in Nat /\ Is(sys', t) \in Nat
        /\ free[t] \in Nat /\ f[t] \in Nat /\ g[t] \in Nat
    BY <1>2, <1>4 DEF Is, Tier, Small, Large
  <2>2. free'[t] = (f[t] + Is(t, new)) - Is(t, 0)
    BY <1>3, <1>5
  <2>3. f[t] = (g[t] + Is(sys, t)) - Is(sys', t) /\ g[t] = (free[t] + Is(t, old)) - Is(t, new)
    BY <1>2 DEF g
  <2> QED BY <2>1, <2>2, <2>3
<1>7. BlockInv'
  BY <1>1, <1>3, <1>5, <1>6, BlocksRemoved DEF old
<1>8. Safe'
  BY <1>1, <1>3, GoneSafe
<1> QED BY <1>7, <1>8 DEF IInv, Safe

(* A client that is served keeps the blocks conserved if what it got was      *)
(* taken from the free ones.                                                 *)
LEMMA ReadBlocks ==
    ASSUME IInv, NEW fd \in FD, NEW n, Reads(fd, n),
           NEW c \in Client, Replaced(fd, c), c.blk \in {0} \cup Tier,
           sys' \in {0} \cup Tier, free' \in [Tier -> Nat], run' \in {"on", "stopping", "off"},
           \A t \in Tier : free'[t] = (Provided(fd, n)[t] + Is(t, Input(fd, n).blk) + Is(sys, t))
                                        - (Is(t, c.blk) + Is(sys', t))
    PROVE  BlockInv'
<1> DEFINE old == clients[fd].blk
           new == Input(fd, n).blk
           g == Provided(fd, n)
<1>1. fd \in Connected /\ old \in {0} \cup Tier
  BY ReadFacts DEF Reads
<1>2. /\ new \in Tier /\ g \in [Tier -> Nat]
      /\ \A t \in Tier : g[t] = (free[t] + Is(t, old)) - Is(t, new)
  BY InputFacts
<1>3. sys \in {0} \cup Tier /\ free \in [Tier -> Nat]
  BY BlockFacts
<1> HIDE DEF old, new, g
<1>4. ASSUME NEW t \in Tier
      PROVE  free'[t] = (free[t] + Is(old, t) + Is(sys, t)) - (Is(c.blk, t) + Is(sys', t))
  <2>1. /\ Is(t, old) = Is(old, t) /\ Is(old, t) \in Nat /\ Is(t, new) \in Nat
        /\ Is(sys, t) \in Nat /\ Is(sys', t) \in Nat
        /\ Is(t, c.blk) = Is(c.blk, t) /\ Is(c.blk, t) \in Nat
        /\ free[t] \in Nat /\ g[t] \in Nat
    BY <1>2, <1>3 DEF Is
  <2>2. /\ free'[t] = (g[t] + Is(t, new) + Is(sys, t)) - (Is(t, c.blk) + Is(sys', t))
        /\ g[t] = (free[t] + Is(t, old)) - Is(t, new)
    BY <1>2 DEF g, new
  <2> QED BY <2>1, <2>2
<1> QED BY <1>1, <1>4, BlocksReplaced DEF old

----------------------------------------------------------------------------
(* The steps of the main thread. *)

LEMMA ReadNothingStep ==
    ASSUME IInv, NEW fd \in FD, ReadNothing(fd)
    PROVE  IInv'
<1>1. /\ fd \in Connected /\ writing = 0 /\ batch' \subseteq batch
      /\ \A e \in batch' : e.fd # fd
  BY ReadFacts DEF ReadNothing
<1> QED BY <1>1, GoneWithBlock DEF ReadNothing

LEMMA ErrorEventStep ==
    ASSUME IInv, NEW fd \in FD, ErrorEvent(fd)
    PROVE  IInv'
<1>1. /\ fd \in Connected /\ writing = 0 /\ batch' \subseteq batch
      /\ \A e \in batch' : e.fd # fd
  BY EventHandled DEF ErrorEvent
<1> QED BY <1>1, GoneWithBlock DEF ErrorEvent

LEMMA IdleStep ==
    ASSUME IInv, idle_loop
    PROVE  IInv'
<1>1. PICK fd \in FD : expireFD(fd)
  BY DEF idle_loop
<1>2. fd \in Connected
  <2>1. ConnTypes
    BY DEF IInv
  <2> QED BY <1>1, <2>1 DEF expireFD, ConnTypes
<1>3. /\ batch = {} /\ writing = 0 /\ batch' = batch /\ writing' = writing
      /\ sys' = sys /\ run' = run
  BY DEF idle_loop, BetweenTurns
<1>4. client_Disconnect(fd, clients[fd].blk, free)
  BY <1>1 DEF expireFD
<1> QED BY <1>2, <1>3, <1>4, GoneWithBlock

LEMMA WriteErrorStep ==
    ASSUME IInv, NEW fd \in FD, WriteError(fd)
    PROVE  IInv'
<1>1. EventInv /\ fd = writing /\ fd # 0
  BY LoopAssumption DEF IInv, WriteError, FD
<1>2. fd \in Connected /\ \A e \in batch : e.fd # fd
  BY <1>1 DEF EventInv
<1>3. /\ batch' = batch /\ writing' = 0 /\ sys' = sys /\ run' = run
      /\ client_Disconnect(fd, clients[fd].blk, free)
  BY DEF WriteError
<1> QED BY <1>1, <1>2, <1>3, GoneWithBlock

LEMMA ReadRefusedStep ==
    ASSUME IInv, NEW fd \in FD, NEW n, ReadRefused(fd, n)
    PROVE  IInv'
<1>1. /\ Reads(fd, n) /\ client_Disconnect(fd, Input(fd, n).blk, Provided(fd, n))
      /\ sys' = sys /\ writing' = writing /\ run' = run
  BY DEF ReadRefused
<1>2. Provided(fd, n) \in [Tier -> Nat]
  BY <1>1, InputFacts
<1>3. sys \in {0} \cup Tier
  BY BlockFacts
<1> DEFINE g == Provided(fd, n)
<1> HIDE DEF g
<1>4. \A t \in Tier : g[t] = (g[t] + Is(sys, t)) - Is(sys', t)
  BY <1>1, <1>2 DEF Is, g
<1> QED BY <1>1, <1>2, <1>3, <1>4, ReadGone DEF g

LEMMA ReadPassStep ==
    ASSUME IInv, NEW fd \in FD, NEW n, ReadPass(fd, n)
    PROVE  IInv'
<1> DEFINE b == Input(fd, n)
           c == ClientOf(fd, b, "READ")
<1>1. /\ Reads(fd, n) /\ Len(b.data) <= MaxRequest /\ clients' = Served(fd, b, "READ")
      /\ free' = Provided(fd, n) /\ Consume(fd, n)
      /\ sys' = sys /\ writing' = writing /\ run' = run
  BY DEF ReadPass
<1>2. fd \in Connected /\ clients[fd] \in Client
  BY <1>1, ReadFacts DEF Reads
<1>3. b.data \in Seq(Piece) /\ b.blk \in Tier /\ Provided(fd, n) \in [Tier -> Nat]
  BY <1>1, InputFacts
<1>4. ConnTypes /\ sys \in {0} \cup Tier /\ run \in {"on", "stopping", "off"}
  BY BlockFacts DEF IInv
<1> HIDE DEF b
<1>5. /\ Replaced(fd, c) /\ c \in Client /\ c.peer = clients[fd].peer
      /\ c.data = b.data /\ c.blk = b.blk /\ c.want = "READ"
  BY <1>1, <1>2, <1>3, <1>4, ServedIsReplaced
<1> HIDE DEF c
<1>6. Safe'
  BY <1>1, <1>5, ReadSafe DEF b
<1>7. \A t \in Tier : free'[t] = (Provided(fd, n)[t] + Is(t, b.blk) + Is(sys, t))
                                   - (Is(t, c.blk) + Is(sys', t))
  BY <1>1, <1>3, <1>5 DEF Is
<1>8. BlockInv'
  BY <1>1, <1>3, <1>4, <1>5, <1>7, ReadBlocks DEF b
<1> QED BY <1>6, <1>8 DEF IInv, Safe

LEMMA ReadUnknownStep ==
    ASSUME IInv, NEW fd \in FD, NEW n, ReadUnknown(fd, n)
    PROVE  IInv'
<1> DEFINE i == Input(fd, n)
           g == Provided(fd, n)
           f == Exchange(g, i.blk, 0)
           u == allocate(f, 0, Small)
           b == [data |-> AnswerTo(i.data, 1), blk |-> u]
           c == ClientOf(fd, b, "WRITE")
<1>1. /\ Reads(fd, n) /\ Parse(i.data) = "OK" /\ clients' = Served(fd, b, "WRITE")
      /\ free' = Exchange(f, 0, u) /\ Consume(fd, n)
      /\ sys' = sys /\ writing' = writing /\ run' = run
  BY DEF ReadUnknown, Parsed
<1>2. fd \in Connected /\ clients[fd] \in Client /\ clients[fd].peer \in Peer
  BY <1>1, ReadFacts DEF Reads
<1>3. /\ i.data \in Seq(Piece) /\ i.data # <<>> /\ i.blk \in {0} \cup Tier
      /\ g \in [Tier -> Nat]
  BY <1>1, InputFacts
<1>4. ConnTypes /\ sys \in {0} \cup Tier /\ run \in {"on", "stopping", "off"}
  BY BlockFacts DEF IInv
<1> HIDE DEF i, g
<1>5. f \in [Tier -> Nat] /\ \A t \in Tier : f[t] = (g[t] + Is(t, i.blk)) - Is(t, 0)
  BY <1>3, Exchanged
<1> HIDE DEF f
<1>6. u \in {0} \cup Tier /\ (u = 0 \/ f[u] > 0)
  BY <1>5, AllocateFinds DEF Tier
<1> HIDE DEF u
<1>7. /\ Exchange(f, 0, u) \in [Tier -> Nat]
      /\ \A t \in Tier : Exchange(f, 0, u)[t] = (f[t] + Is(t, 0)) - Is(t, u)
  BY <1>5, <1>6, Exchanged
<1>8. AnswerTo(i.data, 1) \in Seq(Piece)
  BY <1>1, <1>2, AnswerPieces DEF i
<1>9. /\ Replaced(fd, c) /\ c \in Client /\ c.peer = clients[fd].peer
      /\ c.data = AnswerTo(i.data, 1) /\ c.blk = u /\ c.want = "WRITE"
  BY <1>1, <1>2, <1>4, <1>6, <1>8, ServedIsReplaced
<1> HIDE DEF c, b
<1>10. Safe'
  <2>1. \E size \in Nat \ {0} : c.data = AnswerTo(i.data, size)
    BY <1>9
  <2> QED BY <1>1, <1>9, <2>1, ReadSafe DEF i
<1>11. ASSUME NEW t \in Tier
       PROVE  free'[t] = (g[t] + Is(t, i.blk) + Is(sys, t)) - (Is(t, c.blk) + Is(sys', t))
  <2>1. f[t] = (g[t] + Is(t, i.blk)) - Is(t, 0) /\ free'[t] = (f[t] + Is(t, 0)) - Is(t, u)
    BY <1>1, <1>5, <1>7
  <2>2. /\ g[t] \in Nat /\ f[t] \in Nat /\ Is(t, i.blk) \in Nat /\ Is(t, 0) = 0
        /\ Is(t, u) \in Nat /\ Is(sys, t) \in Nat /\ sys' = sys
    BY <1>1, <1>3, <1>5 DEF Is, Tier, Small, Large
  <2> QED BY <1>9, <2>1, <2>2
<1>12. BlockInv'
  <2>1. free' \in [Tier -> Nat] /\ sys' \in {0} \cup Tier /\ run' \in {"on", "stopping", "off"}
        /\ c.blk \in {0} \cup Tier
    BY <1>1, <1>4, <1>6, <1>7, <1>9
  <2>2. \A t \in Tier : free'[t] = (Provided(fd, n)[t] + Is(t, Input(fd, n).blk) + Is(sys, t))
                                     - (Is(t, c.blk) + Is(sys', t))
    BY <1>11 DEF g, i
  <2> QED BY <1>1, <1>9, <2>1, <2>2, ReadBlocks
<1> QED BY <1>10, <1>12 DEF IInv, Safe

LEMMA ReadCommandStep ==
    ASSUME IInv, NEW fd \in FD, NEW n, NEW size \in Tier, ReadCommand(fd, n, size)
    PROVE  IInv'
<1> DEFINE i == Input(fd, n)
           g == Provided(fd, n)
           r == processSet(g, AnswerTo(i.data, size), size)
           c == ClientOf(fd, r.buffer, "WRITE")
<1>1. /\ Reads(fd, n) /\ Parse(i.data) = "OK" /\ writing' = writing /\ run' = run
      /\ \/ /\ r.buffer # Empty /\ clients' = Served(fd, r.buffer, "WRITE")
            /\ sys' = i.blk /\ free' = r.free /\ Consume(fd, n)
         \/ /\ r.buffer = Empty /\ sys' = 0
            /\ client_Disconnect(fd, i.blk, r.free)
  BY DEF ReadCommand, Parsed
<1>2. fd \in Connected /\ clients[fd] \in Client /\ clients[fd].peer \in Peer
  BY <1>1, ReadFacts DEF Reads
<1>3. i.blk \in {0} \cup Tier /\ g \in [Tier -> Nat]
  BY <1>1, InputFacts
<1>4. ConnTypes /\ sys \in {0} \cup Tier /\ run \in {"on", "stopping", "off"}
  BY BlockFacts DEF IInv
<1> HIDE DEF i, g
<1>5. /\ r.buffer.blk \in {0} \cup Tier
      /\ r.buffer = Empty \/ r.buffer.data = AnswerTo(i.data, size)
      /\ r.free \in [Tier -> Nat]
      /\ \A t \in Tier : r.free[t] = (g[t] + Is(t, sys)) - Is(t, r.buffer.blk)
  BY <1>3, <1>4, ProcessSetFacts
<1>6. size \in Nat \ {0}
  BY DEF Tier, Small, Large
<1>7. AnswerTo(i.data, size) \in Seq(Piece)
  BY <1>1, <1>2, <1>6, AnswerPieces DEF i
<1> HIDE DEF r
<1>8. ASSUME r.buffer # Empty, clients' = Served(fd, r.buffer, "WRITE"),
             sys' = i.blk, free' = r.free, Consume(fd, n)
      PROVE  IInv'
  <2>1. /\ Replaced(fd, c) /\ c \in Client /\ c.peer = clients[fd].peer
        /\ c.data = AnswerTo(i.data, size) /\ c.blk = r.buffer.blk /\ c.want = "WRITE"
    BY <1>2, <1>4, <1>5, <1>7, <1>8, ServedIsReplaced
  <2> HIDE DEF c
  <2>2. Safe'
    BY <1>1, <1>6, <1>8, <2>1, ReadSafe DEF i
  <2>3. ASSUME NEW t \in Tier
        PROVE  free'[t] = (g[t] + Is(t, i.blk) + Is(sys, t)) - (Is(t, c.blk) + Is(sys', t))
    <3>1. free'[t] = (g[t] + Is(t, sys)) - Is(t, r.buffer.blk)
      BY <1>5, <1>8
    <3>2. /\ Is(t, sys) = Is(sys, t) /\ Is(t, i.blk) = Is(sys', t) /\ g[t] \in Nat
          /\ Is(t, sys) \in Nat /\ Is(t, i.blk) \in Nat /\ Is(t, r.buffer.blk) \in Nat
      BY <1>3, <1>8 DEF Is
    <3> QED BY <2>1, <3>1, <3>2
  <2>4. BlockInv'
    <3>1. \A t \in Tier : free'[t] = (Provided(fd, n)[t] + Is(t, Input(fd, n).blk) + Is(sys, t))
                                       - (Is(t, c.blk) + Is(sys', t))
      BY <2>3 DEF g, i
    <3> QED BY <1>1, <1>3, <1>4, <1>5, <1>8, <2>1, <3>1, ReadBlocks
  <2> QED BY <2>2, <2>4 DEF IInv, Safe
<1>9. ASSUME r.buffer = Empty, sys' = 0, client_Disconnect(fd, i.blk, r.free)
      PROVE  IInv'
  <2>1. ASSUME NEW t \in Tier
        PROVE  r.free[t] = (g[t] + Is(sys, t)) - Is(sys', t)
    <3>1. r.buffer.blk = sys'
      BY <1>9 DEF Empty
    <3>2. Is(t, sys) = Is(sys, t) /\ Is(t, r.buffer.blk) = Is(sys', t)
      BY <3>1 DEF Is
    <3> QED BY <1>5, <3>2
  <2>2. sys' \in {0} \cup Tier
    BY <1>9
  <2>3. \A t \in Tier : r.free[t] = (Provided(fd, n)[t] + Is(sys, t)) - Is(sys', t)
    BY <2>1 DEF g
  <2> QED BY <1>1, <1>5, <1>9, <2>2, <2>3, ReadGone DEF i
<1> QED BY <1>1, <1>8, <1>9

LEMMA ReadExitStep ==
    ASSUME IInv, NEW fd \in FD, NEW n, ReadExit(fd, n)
    PROVE  IInv'
<1> DEFINE i == Input(fd, n)
           g == Provided(fd, n)
           r == processSet(g, AnswerTo(i.data, 1), Small)
<1>1. /\ Reads(fd, n) /\ writing' = writing /\ run' = run
      /\ sys' = r.buffer.blk /\ client_Disconnect(fd, i.blk, r.free)
  BY DEF ReadExit, Parsed
<1>2. g \in [Tier -> Nat]
  BY <1>1, InputFacts
<1>3. sys \in {0} \cup Tier
  BY BlockFacts
<1> HIDE DEF g
<1>4. /\ r.buffer.blk \in {0} \cup Tier /\ r.free \in [Tier -> Nat]
      /\ \A t \in Tier : r.free[t] = (g[t] + Is(t, sys)) - Is(t, r.buffer.blk)
  BY <1>2, <1>3, ProcessSetFacts DEF Tier
<1> HIDE DEF r
<1>5. \A t \in Tier : r.free[t] = (Provided(fd, n)[t] + Is(sys, t)) - Is(sys', t)
  BY <1>1, <1>4 DEF Is, g
<1> QED BY <1>1, <1>4, <1>5, ReadGone

LEMMA ReadShutdownStep ==
    ASSUME IInv, NEW fd \in FD, NEW n, ReadShutdown(fd, n)
    PROVE  IInv'
<1> DEFINE i == Input(fd, n)
           g == Provided(fd, n)
           r == processSet(g, AnswerTo(i.data, 1), Small)
           c == ClientOf(fd, i, "READ")
<1>1. /\ Reads(fd, n) /\ Len(i.data) <= MaxRequest /\ run' = "stopping"
      /\ clients' = Served(fd, i, "READ") /\ sys' = r.buffer.blk /\ free' = r.free
      /\ Consume(fd, n) /\ writing' = writing
  BY DEF ReadShutdown, Parsed
<1>2. fd \in Connected /\ clients[fd] \in Client
  BY <1>1, ReadFacts DEF Reads
<1>3. i.data \in Seq(Piece) /\ i.blk \in {0} \cup Tier /\ g \in [Tier -> Nat]
  BY <1>1, InputFacts
<1>4. ConnTypes /\ sys \in {0} \cup Tier
  BY BlockFacts DEF IInv
<1> HIDE DEF i, g
<1>5. /\ r.buffer.blk \in {0} \cup Tier /\ r.free \in [Tier -> Nat]
      /\ \A t \in Tier : r.free[t] = (g[t] + Is(t, sys)) - Is(t, r.buffer.blk)
  BY <1>3, <1>4, ProcessSetFacts DEF Tier
<1> HIDE DEF r
<1>6. /\ Replaced(fd, c) /\ c \in Client /\ c.peer = clients[fd].peer
      /\ c.data = i.data /\ c.blk = i.blk /\ c.want = "READ"
  BY <1>1, <1>2, <1>3, <1>4, ServedIsReplaced
<1> HIDE DEF c
<1>7. Safe'
  BY <1>1, <1>6, ReadSafe DEF i
<1>8. ASSUME NEW t \in Tier
      PROVE  free'[t] = (g[t] + Is(t, i.blk) + Is(sys, t)) - (Is(t, c.blk) + Is(sys', t))
  <2>1. free'[t] = (g[t] + Is(t, sys)) - Is(t, r.buffer.blk)
    BY <1>1, <1>5
  <2>2. /\ Is(t, sys) = Is(sys, t) /\ Is(t, r.buffer.blk) = Is(sys', t) /\ g[t] \in Nat
        /\ Is(t, sys) \in Nat /\ Is(t, i.blk) \in Nat /\ Is(t, r.buffer.blk) \in Nat
    BY <1>1, <1>3 DEF Is
  <2> QED BY <1>6, <2>1, <2>2
<1>9. BlockInv'
  <2>1. \A t \in Tier : free'[t] = (Provided(fd, n)[t] + Is(t, Input(fd, n).blk) + Is(sys, t))
                                     - (Is(t, c.blk) + Is(sys', t))
    BY <1>8 DEF g, i
  <2> QED BY <1>1, <1>3, <1>5, <1>6, <2>1, ReadBlocks
<1> QED BY <1>7, <1>9 DEF IInv, Safe

(* What is known of a client at any time.                                    *)
LEMMA ClientFacts ==
    ASSUME IInv, NEW fd \in Connected
    PROVE  /\ fd \in FD /\ fd # 0 /\ clients[fd] \in Client
           /\ clients[fd].peer \in Peer /\ clients[fd].data \in Seq(Piece)
           /\ clients[fd].blk \in {0} \cup Tier /\ clients[fd].want \in {"READ", "WRITE"}
           /\ clients[fd].want = "READ" => Len(clients[fd].data) <= MaxRequest
           /\ inq[clients[fd].peer] \in Seq(Piece)
           /\ answered[clients[fd].peer] \in Piece /\ sent[clients[fd].peer] \in Piece
           /\ AllOf(inq[clients[fd].peer], "ask", clients[fd].peer)
           /\ AllOf(clients[fd].data, IF clients[fd].want = "WRITE" THEN "answer" ELSE "ask",
                    clients[fd].peer)
           /\ Ended(answered[clients[fd].peer].no, sent[clients[fd].peer])
           /\ Between(inq[clients[fd].peer], answered[clients[fd].peer], sent[clients[fd].peer])
           /\ clients[fd].want = "READ" =>
                AskFits(clients[fd].data, inq[clients[fd].peer], answered[clients[fd].peer],
                        sent[clients[fd].peer])
           /\ clients[fd].want = "WRITE" =>
                AnswerFits(clients[fd].data, inq[clients[fd].peer], answered[clients[fd].peer],
                           sent[clients[fd].peer])
<1>1. ConnTypes /\ DataInv /\ OrderInv
  BY DEF IInv
<1>2. fd \in FD /\ fd # 0 /\ clients[fd] \in Client
  BY <1>1, LoopAssumption DEF ConnTypes, Connected, FD
<1>3. /\ clients[fd].peer \in Peer /\ clients[fd].data \in Seq(Piece)
      /\ clients[fd].blk \in {0} \cup Tier /\ clients[fd].want \in {"READ", "WRITE"}
  BY <1>2 DEF Client
<1>4. /\ inq[clients[fd].peer] \in Seq(Piece)
      /\ answered[clients[fd].peer] \in Piece /\ sent[clients[fd].peer] \in Piece
      /\ clients[fd].want = "READ" => Len(clients[fd].data) <= MaxRequest
  BY <1>1, <1>3 DEF ConnTypes
<1>5. /\ AllOf(inq[clients[fd].peer], "ask", clients[fd].peer)
      /\ AllOf(clients[fd].data, IF clients[fd].want = "WRITE" THEN "answer" ELSE "ask",
               clients[fd].peer)
  BY <1>1, <1>3 DEF DataInv
<1>6. /\ Ended(answered[clients[fd].peer].no, sent[clients[fd].peer])
      /\ Between(inq[clients[fd].peer], answered[clients[fd].peer], sent[clients[fd].peer])
  BY <1>1, <1>3 DEF OrderInv
<1>7. /\ clients[fd].want = "READ" =>
           AskFits(clients[fd].data, inq[clients[fd].peer], answered[clients[fd].peer],
                   sent[clients[fd].peer])
      /\ clients[fd].want = "WRITE" =>
           AnswerFits(clients[fd].data, inq[clients[fd].peer], answered[clients[fd].peer],
                      sent[clients[fd].peer])
  BY <1>1 DEF OrderInv
<1> QED BY <1>2, <1>3, <1>4, <1>5, <1>6, <1>7

(* A client changes its interest or its timer, its socket does not change.    *)
LEMMA KeptStep ==
    ASSUME IInv, NEW fd \in Connected, NEW c \in Client, Replaced(fd, c),
           c.peer = clients[fd].peer, c.data = clients[fd].data, c.blk = clients[fd].blk,
           c.want = clients[fd].want \/ (c.want = "READ" /\ c.data = <<>>),
           UNCHANGED <<conn, inq, outq, sent, answered, dense, sys, free, run>>,
           batch' \subseteq batch, \A e \in batch' : e.fd # fd,
           writing \in {0, fd}, writing' \in {0, fd},
           c.want = "WRITE" /\ fd # writing' => c.data # <<>>,
           writing' # 0 => c.want = "WRITE"
    PROVE  IInv'
<1> DEFINE p == c.peer
<1>1. /\ fd \in FD /\ p \in Peer /\ c.data \in Seq(Piece)
      /\ clients[fd].want \in {"READ", "WRITE"}
      /\ clients[fd].want = "READ" => Len(c.data) <= MaxRequest
      /\ AllOf(inq[p], "ask", p)
      /\ AllOf(c.data, IF clients[fd].want = "WRITE" THEN "answer" ELSE "ask", p)
      /\ Ended(answered[p].no, sent[p])
      /\ Between(inq[p], answered[p], sent[p])
      /\ clients[fd].want = "READ" => AskFits(c.data, inq[p], answered[p], sent[p])
      /\ clients[fd].want = "WRITE" => AnswerFits(c.data, inq[p], answered[p], sent[p])
  BY ClientFacts
<1>2. ASSUME c.data = <<>>
      PROVE  /\ AllOf(c.data, "ask", p) /\ Len(c.data) <= MaxRequest
             /\ answered[p].end => AskFits(c.data, inq[p], answered[p], sent[p])
  <2>1. DOMAIN <<>> = {} /\ Len(<<>>) = 0 /\ 0 <= MaxRequest
    BY LoopAssumption
  <2> QED BY <1>2, <2>1 DEF AllOf, AskFits, Between, Ordered
<1>3. /\ c.want = "READ" => /\ Len(c.data) <= MaxRequest
                            /\ AskFits(c.data, inq[p], answered[p], sent[p])
      /\ AllOf(c.data, IF c.want = "WRITE" THEN "answer" ELSE "ask", p)
      /\ c.want = "WRITE" => AnswerFits(c.data, inq[p], answered[p], sent[p])
  <2>1. CASE c.want = clients[fd].want
    BY <1>1, <2>1
  <2>2. CASE c.want = "READ" /\ c.data = <<>>
    <3>1. answered[p].end
      BY <1>1, <2>2 DEF AnswerFits, AskFits
    <3> QED BY <1>2, <2>2, <3>1
  <2> QED BY <2>1, <2>2
<1>4. Served1(fd, c)
  BY DEF Served1
<1>5. /\ inq' = inq /\ answered' = answered /\ inq' \in [Peer -> Seq(Piece)]
      /\ outq' \in [Peer -> Seq(Piece)] /\ answered' \in [Peer -> Piece]
  BY DEF IInv, ConnTypes
<1> HIDE DEF p
<1>6. Safe'
  <2>1. /\ c.want = "READ" => Len(c.data) <= MaxRequest
        /\ inq[c.peer] = <<>> => inq'[c.peer] = <<>>
        /\ AllOf(inq'[c.peer], "ask", c.peer)
        /\ AllOf(c.data, IF c.want = "WRITE" THEN "answer" ELSE "ask", c.peer)
        /\ Ended(answered'[c.peer].no, sent[c.peer])
        /\ Between(inq'[c.peer], answered'[c.peer], sent[c.peer])
        /\ c.want = "READ" => AskFits(c.data, inq'[c.peer], answered'[c.peer], sent[c.peer])
        /\ c.want = "WRITE" => AnswerFits(c.data, inq'[c.peer], answered'[c.peer], sent[c.peer])
    BY <1>1, <1>3, <1>5 DEF p
  <2> QED BY <1>4, <1>5, <2>1, ServedSafe
<1>7. BlockInv'
  <2>1. sys \in {0} \cup Tier /\ free \in [Tier -> Nat] /\ run \in {"on", "stopping", "off"}
    BY BlockFacts
  <2>2. \A t \in Tier : free'[t] = (free[t] + Is(clients[fd].blk, t) + Is(sys, t))
                                   - (Is(c.blk, t) + Is(sys', t))
    BY <2>1 DEF Is
  <2> QED BY <2>1, <2>2, BlocksReplaced
<1> QED BY <1>6, <1>7 DEF IInv, Safe

LEMMA WriteStartStep ==
    ASSUME IInv, NEW fd \in FD, WriteStart(fd)
    PROVE  IInv'
<1>1. /\ fd \in Connected /\ writing = 0 /\ batch' \subseteq batch
      /\ (\A e \in batch' : e.fd # fd) /\ clients[fd].want = "WRITE"
  BY EventHandled DEF WriteStart
<1>2. clients[fd] \in Client
  BY <1>1, ClientFacts
<1>3. /\ writing' = fd /\ clients' = clients
      /\ UNCHANGED <<conn, inq, outq, sent, answered, dense, sys, free, run>>
  BY DEF WriteStart, peerVars
<1>4. Replaced(fd, clients[fd])
  BY <1>3 DEF Replaced, IInv, ConnTypes
<1> QED BY <1>1, <1>2, <1>3, <1>4, KeptStep

(* The client that is written to.                                            *)
LEMMA WrittenTo ==
    ASSUME IInv, NEW fd \in FD, fd = writing
    PROVE  fd \in Connected /\ fd # 0 /\ clients[fd].want = "WRITE" /\ \A e \in batch : e.fd # fd
<1>1. fd # 0
  BY LoopAssumption DEF FD
<1> QED BY <1>1 DEF IInv, EventInv

LEMMA WriteInterruptedStep ==
    ASSUME IInv, NEW fd \in FD, WriteInterrupted(fd)
    PROVE  IInv'
<1>1. /\ fd = writing /\ clients[fd].data # <<>> /\ writing' = 0 /\ clients' = clients
      /\ batch' = batch
      /\ UNCHANGED <<conn, inq, outq, sent, answered, dense, sys, free, run>>
  BY DEF WriteInterrupted, peerVars
<1>2. fd \in Connected /\ \A e \in batch : e.fd # fd
  BY <1>1, WrittenTo
<1>3. clients[fd] \in Client
  BY <1>2, ClientFacts
<1>4. Replaced(fd, clients[fd])
  BY <1>1 DEF Replaced, IInv, ConnTypes
<1> QED BY <1>1, <1>2, <1>3, <1>4, KeptStep

LEMMA WriteDoneStep ==
    ASSUME IInv, NEW fd \in FD, WriteDone(fd)
    PROVE  IInv'
<1> DEFINE c == [clients[fd] EXCEPT !.want = "READ"]
<1>1. /\ fd = writing /\ clients[fd].data = <<>> /\ writing' = 0
      /\ clients' = [clients EXCEPT ![fd].want = "READ"] /\ batch' = batch
      /\ UNCHANGED <<conn, inq, outq, sent, answered, dense, sys, free, run>>
  BY DEF WriteDone, peerVars
<1>2. fd \in Connected /\ \A e \in batch : e.fd # fd
  BY <1>1, WrittenTo
<1>3. clients[fd] \in Client
  BY <1>2, ClientFacts
<1>4. /\ c \in Client /\ c.peer = clients[fd].peer /\ c.data = clients[fd].data
      /\ c.blk = clients[fd].blk /\ c.want = "READ"
  BY <1>3 DEF Client
<1>5. Replaced(fd, c)
  BY <1>1 DEF Replaced
<1> HIDE DEF c
<1> QED BY <1>1, <1>2, <1>4, <1>5, KeptStep

LEMMA TickStep ==
    ASSUME IInv, NEW fd \in FD, Tick(fd)
    PROVE  IInv'
<1> DEFINE c == [clients[fd] EXCEPT !.idle = TRUE]
<1>1. /\ fd \in Connected /\ clients' = [clients EXCEPT ![fd].idle = TRUE]
      /\ batch = {} /\ writing = 0 /\ batch' = batch /\ writing' = writing
      /\ UNCHANGED <<conn, inq, outq, sent, answered, dense, sys, free, run>>
  BY DEF Tick, BetweenTurns, peerVars
<1>2. clients[fd] \in Client
  BY <1>1, ClientFacts
<1>3. clients[fd].want = "WRITE" => clients[fd].data # <<>>
  <2>1. fd # writing
    BY <1>1, ClientFacts
  <2> QED BY <1>1, <2>1 DEF IInv, DataInv
<1>4. /\ c \in Client /\ c.peer = clients[fd].peer /\ c.data = clients[fd].data
      /\ c.blk = clients[fd].blk /\ c.want = clients[fd].want
  BY <1>2 DEF Client
<1>5. Replaced(fd, c)
  BY <1>1 DEF Replaced
<1> HIDE DEF c
<1> QED BY <1>1, <1>3, <1>4, <1>5, KeptStep

(* A piece of an answer leaves the buffer: the rest goes on where it ends.    *)
LEMMA AnswerGoesOn ==
    ASSUME NEW data \in Seq(Piece), data # <<>>, NEW in \in Seq(Piece),
           NEW a \in Piece, NEW s \in Piece,
           AnswerFits(data, in, a, s), Between(in, a, s)
    PROVE  /\ Head(data) \in Piece /\ Tail(data) \in Seq(Piece)
           /\ Ended(Head(data).no, s)
           /\ Between(in, Head(data), s)
           /\ AnswerFits(Tail(data), in, Head(data), s)
           /\ IF a.end THEN Head(data).no > a.no /\ Head(data).part = 1
                       ELSE Head(data).no = a.no /\ Head(data).part = a.part + 1
<1> DEFINE x == Head(data)
           t == Tail(data)
<1>1. /\ x \in Piece /\ t \in Seq(Piece) /\ Len(t) = Len(data) - 1 /\ x = data[1]
      /\ \A i \in 1 .. Len(t) : t[i] = data[i + 1]
      /\ DOMAIN t = 1 .. Len(t) /\ DOMAIN data = 1 .. Len(data) /\ Len(data) \in Nat \ {0}
  BY HeadTailProperties, LenProperties, EmptySeq
<1>2. 1 \in DOMAIN data /\ \A i \in DOMAIN t : i \in Nat /\ i + 1 \in DOMAIN data
  BY <1>1
<1> HIDE DEF x, t
<1>3. /\ Ended(x.no, s) /\ (x.end <=> 1 = Len(data))
      /\ \A j \in DOMAIN in : x.no < in[j].no
      /\ IF a.end THEN x.no > a.no /\ x.part = 1 ELSE x.no = a.no /\ x.part = a.part + 1
  BY <1>1, <1>2 DEF AnswerFits
<1>4. Between(in, x, s)
  BY <1>3 DEF Between
<1>5. t = <<>> => x.end
  <2>1. Len(<<>>) = 0
    OBVIOUS
  <2> QED BY <1>1, <1>3, <2>1
<1>6. ASSUME NEW i \in DOMAIN t
      PROVE  /\ t[i].no = t[1].no /\ Ended(t[i].no, s)
             /\ t[i].end <=> i = Len(t)
             /\ \A j \in DOMAIN in : t[i].no < in[j].no
             /\ IF x.end THEN t[i].no > x.no /\ t[i].part = i
                         ELSE t[i].no = x.no /\ t[i].part = x.part + i
  <2>1. /\ t[i] = data[i + 1] /\ t[1] = data[2] /\ 2 \in DOMAIN data /\ i + 1 \in DOMAIN data
        /\ i \in Nat /\ Len(t) \in Nat
    BY <1>1, <1>2
  <2>2. data[i + 1].no = data[1].no /\ data[2].no = data[1].no
    BY <2>1 DEF AnswerFits
  <2>3. /\ Ended(data[i + 1].no, s) /\ (data[i + 1].end <=> i + 1 = Len(data))
        /\ \A j \in DOMAIN in : data[i + 1].no < in[j].no
        /\ data[i + 1].part = IF a.end THEN i + 1 ELSE a.part + (i + 1)
    BY <2>1 DEF AnswerFits
  <2>4. ~x.end
    BY <1>1, <1>3, <2>1
  <2>5. a.part \in Nat
    BY DEF Piece
  <2>6. t[i].part = x.part + i
    <3>1. CASE a.end
      <4>1. x.part = 1 /\ data[i + 1].part = i + 1
        BY <1>3, <2>3, <3>1
      <4> QED BY <2>1, <4>1
    <3>2. CASE ~a.end
      <4>1. x.part = a.part + 1 /\ data[i + 1].part = a.part + (i + 1)
        BY <1>3, <2>3, <3>2
      <4> QED BY <2>1, <2>5, <4>1
    <3> QED BY <3>1, <3>2
  <2>7. (i + 1 = Len(data)) <=> (i = Len(t))
    BY <1>1, <2>1
  <2>8. t[i].end <=> i = Len(t)
    BY <2>1, <2>3, <2>7
  <2> QED BY <1>1, <2>1, <2>2, <2>3, <2>4, <2>6, <2>8
<1>7. AnswerFits(t, in, x, s)
  BY <1>5, <1>6 DEF AnswerFits
<1> QED BY <1>1, <1>3, <1>4, <1>7 DEF x, t

LEMMA WritePieceStep ==
    ASSUME IInv, NEW fd \in FD, WritePiece(fd)
    PROVE  IInv'
<1> DEFINE d == clients[fd].data
           p == clients[fd].peer
           old == clients[fd].blk
           new == IF Len(d) = 1 THEN 0 ELSE old
           b == [data |-> Tail(d), blk |-> new]
           c == ClientOf(fd, b, "WRITE")
           in == inq[p]
           a == answered[p]
           s == sent[p]
<1>1. /\ fd = writing /\ d # <<>>
      /\ outq' = [outq EXCEPT ![p] = Append(@, Head(d))]
      /\ answered' = [answered EXCEPT ![p] = Head(d)]
      /\ clients' = Served(fd, b, "WRITE") /\ free' = Exchange(free, old, new)
      /\ conn' = conn /\ inq' = inq /\ sent' = sent /\ dense' = dense /\ sys' = sys
      /\ batch' = batch /\ writing' = writing /\ run' = run
  BY DEF WritePiece
<1>2. fd \in Connected /\ fd # 0 /\ clients[fd].want = "WRITE" /\ \A e \in batch : e.fd # fd
  BY <1>1, WrittenTo
<1>3. /\ clients[fd] \in Client /\ p \in Peer /\ d \in Seq(Piece) /\ old \in {0} \cup Tier
      /\ in \in Seq(Piece) /\ a \in Piece /\ s \in Piece
      /\ AllOf(in, "ask", p) /\ AllOf(d, "answer", p)
      /\ Between(in, a, s) /\ AnswerFits(d, in, a, s)
  BY <1>2, ClientFacts
<1>4. /\ Head(d) \in Piece /\ Tail(d) \in Seq(Piece) /\ Ended(Head(d).no, s)
      /\ Between(in, Head(d), s) /\ AnswerFits(Tail(d), in, Head(d), s)
  BY <1>1, <1>3, AnswerGoesOn
<1>5. AllOf(Tail(d), "answer", p)
  <2>1. /\ \A i \in 1 .. Len(Tail(d)) : Tail(d)[i] = d[i + 1]
        /\ Len(Tail(d)) = Len(d) - 1 /\ DOMAIN Tail(d) = 1 .. Len(Tail(d))
        /\ DOMAIN d = 1 .. Len(d) /\ Len(d) \in Nat
    BY <1>1, <1>3, <1>4, HeadTailProperties, LenProperties
  <2>2. \A i \in DOMAIN Tail(d) : i + 1 \in DOMAIN d
    BY <2>1
  <2> QED BY <1>3, <2>1, <2>2 DEF AllOf
<1>6. ConnTypes /\ sys \in {0} \cup Tier /\ free \in [Tier -> Nat]
      /\ run \in {"on", "stopping", "off"}
  BY BlockFacts DEF IInv
<1>7. new \in {0} \cup Tier /\ (new = old \/ new = 0)
  BY <1>3
<1>8. /\ outq' \in [Peer -> Seq(Piece)] /\ answered' \in [Peer -> Piece]
      /\ answered'[p] = Head(d) /\ \A q \in Peer : q # p => answered'[q] = answered[q]
  <2>1. outq \in [Peer -> Seq(Piece)] /\ answered \in [Peer -> Piece]
    BY <1>6 DEF ConnTypes
  <2>2. Append(outq[p], Head(d)) \in Seq(Piece)
    BY <1>3, <1>4, <2>1, AppendProperties
  <2> QED BY <1>1, <1>3, <1>4, <2>1, <2>2
<1> HIDE DEF d, old, new, in, a, s
<1>9. /\ Replaced(fd, c) /\ c \in Client /\ c.peer = p /\ c.data = Tail(d) /\ c.blk = new
      /\ c.want = "WRITE"
  <2>1. b.data = Tail(d) /\ b.blk = new /\ b.data \in Seq(Piece) /\ b.blk \in {0} \cup Tier
    BY <1>4, <1>7
  <2> HIDE DEF b
  <2> QED BY <1>1, <1>2, <1>3, <1>6, <2>1, ServedIsReplaced
<1> HIDE DEF c, b
<1>10. Served1(fd, c)
  BY <1>1, <1>2, <1>8, <1>9 DEF Served1
<1>11. Safe'
  <2>1. /\ inq' \in [Peer -> Seq(Piece)]
        /\ inq[c.peer] = <<>> => inq'[c.peer] = <<>>
        /\ AllOf(inq'[c.peer], "ask", c.peer)
        /\ AllOf(c.data, IF c.want = "WRITE" THEN "answer" ELSE "ask", c.peer)
        /\ c.want = "WRITE" /\ fd # writing' => c.data # <<>>
        /\ Ended(answered'[c.peer].no, sent[c.peer])
        /\ Between(inq'[c.peer], answered'[c.peer], sent[c.peer])
        /\ AnswerFits(c.data, inq'[c.peer], answered'[c.peer], sent[c.peer])
    BY <1>1, <1>3, <1>4, <1>5, <1>6, <1>8, <1>9 DEF in, s, ConnTypes
  <2> QED BY <1>2, <1>8, <1>9, <1>10, <2>1, ServedSafe
<1>12. BlockInv'
  <2>1. /\ free' \in [Tier -> Nat]
        /\ \A t \in Tier : free'[t] = (free[t] + Is(t, old)) - Is(t, new)
    BY <1>1, <1>3, <1>6, <1>7, Exchanged
  <2>2. ASSUME NEW t \in Tier
        PROVE  free'[t] = (free[t] + Is(clients[fd].blk, t) + Is(sys, t))
                            - (Is(c.blk, t) + Is(sys', t))
    <3>1. /\ Is(t, old) = Is(clients[fd].blk, t) /\ Is(t, new) = Is(c.blk, t)
          /\ Is(t, old) \in Nat /\ Is(t, new) \in Nat /\ Is(sys, t) \in Nat
          /\ sys' = sys /\ free[t] \in Nat
      BY <1>1, <1>6, <1>9 DEF Is, old
    <3> QED BY <2>1, <3>1
  <2> QED BY <1>1, <1>2, <1>6, <1>9, <2>1, <2>2, BlocksReplaced
<1> QED BY <1>11, <1>12 DEF IInv, Safe

----------------------------------------------------------------------------
(* The steps of the environment. *)

(* What depends on the server's variables only goes on.                      *)
LEMMA ServerKept ==
    ASSUME IInv, UNCHANGED serverVars
    PROVE  EventInv' /\ BlockInv' /\ Connected' = Connected /\ PeersIn' = PeersIn
<1>1. /\ clients' = clients /\ dense' = dense /\ sys' = sys /\ free' = free /\ batch' = batch
      /\ writing' = writing /\ run' = run
  BY DEF serverVars
<1>2. Connected' = Connected
  BY <1>1 DEF Connected
<1>3. PeersIn' = PeersIn
  BY <1>1, <1>2, SamePeers
<1>4. EventInv'
  BY <1>1, <1>2 DEF IInv, EventInv, EventsFresh
<1>5. \A t : Owners(t)' = Owners(t)
  BY <1>1, <1>2 DEF Owners
<1>6. BlockInv'
  <2>1. BlockTypes'
    BY <1>1 DEF IInv, BlockInv, BlockTypes
  <2>2. BlocksConserved'
    <3>1. \A t \in Tier : free[t] + Cardinality(Owners(t)) + (IF sys = t THEN 1 ELSE 0)
                            = TotalBlocks[t]
      BY DEF IInv, BlockInv, BlocksConserved
    <3>2. \A t \in Tier : Cardinality(Owners(t))' = Cardinality(Owners(t))
      BY <1>5
    <3> QED BY <1>1, <3>1, <3>2 DEF BlocksConserved
  <2> QED BY <2>1, <2>2 DEF BlockInv
<1> QED BY <1>2, <1>3, <1>4, <1>6

(* The kernel or a peer changes one connection p; the server's side stays.    *)
Moved(p) ==
  /\ UNCHANGED serverVars
  /\ \A q \in Peer : q # p => /\ conn'[q] = conn[q] /\ inq'[q] = inq[q]
                              /\ sent'[q] = sent[q] /\ answered'[q] = answered[q]

LEMMA MovedStep ==
    ASSUME IInv, NEW p \in Peer, Moved(p),
           conn' \in [Peer -> {"none", "open", "shut", "reset", "closed"}],
           inq' \in [Peer -> Seq(Piece)], outq' \in [Peer -> Seq(Piece)],
           sent' \in [Peer -> Piece], answered' \in [Peer -> Piece],
           conn'[p] \in {"none", "closed"} => inq'[p] = <<>>,
           p \in PeersIn => conn'[p] \in {"open", "shut", "reset"},
           p \in Backlog' => answered'[p] = NoPiece(p),
           AllOf(inq'[p], "ask", p),
           Ended(answered'[p].no, sent'[p]), Between(inq'[p], answered'[p], sent'[p]),
           \A fd \in Connected : clients[fd].peer = p =>
             /\ clients[fd].want = "READ" =>
                  AskFits(clients[fd].data, inq'[p], answered'[p], sent'[p])
             /\ clients[fd].want = "WRITE" =>
                  AnswerFits(clients[fd].data, inq'[p], answered'[p], sent'[p])
    PROVE  IInv'
<1>1. /\ EventInv' /\ BlockInv' /\ Connected' = Connected /\ PeersIn' = PeersIn
      /\ clients' = clients /\ dense' = dense /\ batch' = batch /\ writing' = writing
  BY ServerKept DEF Moved, serverVars
<1>2. ConnTypes /\ ConnInv /\ DataInv /\ OrderInv
  BY DEF IInv
<1>3. \A fd \in Connected : clients[fd].peer \in Peer
  BY ClientFacts
<1>4. ConnTypes'
  <2>1. \A fd \in Connected' : clients'[fd].want = "READ" => Len(clients'[fd].data) <= MaxRequest
    BY <1>1, <1>2 DEF ConnTypes
  <2> QED BY <1>1, <1>2, <2>1 DEF ConnTypes
<1>5. ConnInv'
  <2>1. ASSUME NEW fd \in Connected'
        PROVE  conn'[clients'[fd].peer] \in {"open", "shut", "reset"}
    <3>1. clients[fd].peer \in PeersIn
      BY <1>1 DEF PeersIn
    <3> QED BY <1>1, <1>2, <1>3, <3>1 DEF ConnInv, Moved
  <2>2. \A f, g \in Connected' : clients'[f].peer = clients'[g].peer => f = g
    BY <1>1, <1>2 DEF ConnInv
  <2>3. \A q \in Peer : conn'[q] \in {"none", "closed"} => inq'[q] = <<>>
    BY <1>2 DEF ConnInv, Moved
  <2>4. ASSUME NEW q \in Backlog' PROVE answered'[q] = NoPiece(q)
    <3>1. q \in Peer /\ q \notin PeersIn /\ conn'[q] \in {"open", "shut", "reset"}
      BY <1>1 DEF Backlog
    <3>2. CASE q # p
      <4>1. q \in Backlog
        BY <3>1, <3>2 DEF Backlog, Moved
      <4> QED BY <1>2, <3>1, <3>2, <4>1 DEF ConnInv, Moved
    <3> QED BY <3>2
  <2> QED BY <2>1, <2>2, <2>3, <2>4 DEF ConnInv
<1>6. DataInv'
  <2>1. \A q \in Peer : AllOf(inq'[q], "ask", q)
    BY <1>2 DEF DataInv, Moved
  <2> QED BY <1>1, <1>2, <2>1 DEF DataInv
<1>7. OrderInv'
  <2>1. \A q \in Peer : /\ Ended(answered'[q].no, sent'[q])
                        /\ Between(inq'[q], answered'[q], sent'[q])
    BY <1>2 DEF OrderInv, Moved
  <2>2. ASSUME NEW fd \in Connected'
        PROVE  LET d == clients'[fd]
                   q == d.peer IN
               /\ d.want = "READ" => AskFits(d.data, inq'[q], answered'[q], sent'[q])
               /\ d.want = "WRITE" => AnswerFits(d.data, inq'[q], answered'[q], sent'[q])
    <3>1. CASE clients[fd].peer = p
      BY <1>1, <3>1
    <3>2. CASE clients[fd].peer # p
      BY <1>1, <1>2, <1>3, <3>2 DEF OrderInv, Moved
    <3> QED BY <3>1, <3>2
  <2> QED BY <2>1, <2>2 DEF OrderInv
<1> QED BY <1>1, <1>4, <1>5, <1>6, <1>7 DEF IInv

(* What is known of a peer at any time.                                      *)
LEMMA PeerFacts ==
    ASSUME IInv, NEW p \in Peer
    PROVE  /\ conn \in [Peer -> {"none", "open", "shut", "reset", "closed"}]
           /\ inq \in [Peer -> Seq(Piece)] /\ outq \in [Peer -> Seq(Piece)]
           /\ sent \in [Peer -> Piece] /\ answered \in [Peer -> Piece]
           /\ inq[p] \in Seq(Piece) /\ sent[p] \in Piece /\ answered[p] \in Piece
           /\ conn[p] \in {"none", "closed"} => inq[p] = <<>> /\ p \notin PeersIn
           /\ p \in PeersIn => conn[p] \in {"open", "shut", "reset"}
           /\ p \in Backlog => answered[p] = NoPiece(p)
           /\ AllOf(inq[p], "ask", p)
           /\ Ended(answered[p].no, sent[p]) /\ Between(inq[p], answered[p], sent[p])
           /\ \A fd \in Connected : clients[fd].peer = p =>
                /\ clients[fd].want = "READ" =>
                     AskFits(clients[fd].data, inq[p], answered[p], sent[p])
                /\ clients[fd].want = "WRITE" =>
                     AnswerFits(clients[fd].data, inq[p], answered[p], sent[p])
<1>1. ConnTypes /\ ConnInv /\ DataInv /\ OrderInv
  BY DEF IInv
<1>2. p \in PeersIn => conn[p] \in {"open", "shut", "reset"}
  BY <1>1 DEF ConnInv, PeersIn
<1>3. conn[p] \in {"none", "closed"} => inq[p] = <<>> /\ p \notin PeersIn
  BY <1>1, <1>2 DEF ConnInv
<1>4. p \in Backlog => answered[p] = NoPiece(p)
  BY <1>1 DEF ConnInv
<1>5. /\ conn \in [Peer -> {"none", "open", "shut", "reset", "closed"}]
      /\ inq \in [Peer -> Seq(Piece)] /\ outq \in [Peer -> Seq(Piece)]
      /\ sent \in [Peer -> Piece] /\ answered \in [Peer -> Piece]
      /\ inq[p] \in Seq(Piece) /\ sent[p] \in Piece /\ answered[p] \in Piece
  BY <1>1 DEF ConnTypes
<1>6. AllOf(inq[p], "ask", p)
  BY <1>1 DEF DataInv
<1>7. Ended(answered[p].no, sent[p]) /\ Between(inq[p], answered[p], sent[p])
  BY <1>1 DEF OrderInv
<1>8. \A fd \in Connected : clients[fd].peer = p =>
        /\ clients[fd].want = "READ" =>
             AskFits(clients[fd].data, inq[p], answered[p], sent[p])
        /\ clients[fd].want = "WRITE" =>
             AnswerFits(clients[fd].data, inq[p], answered[p], sent[p])
  BY <1>1 DEF OrderInv
<1> QED BY <1>2, <1>3, <1>4, <1>5, <1>6, <1>7, <1>8

LEMMA ConnectStep ==
    ASSUME IInv, NEW p \in Peer, Connect(p)
    PROVE  IInv'
<1>1. /\ conn[p] \in {"none", "closed"} /\ UNCHANGED serverVars
      /\ conn' = [conn EXCEPT ![p] = "open"] /\ inq' = [inq EXCEPT ![p] = <<>>]
      /\ outq' = [outq EXCEPT ![p] = <<>>] /\ sent' = [sent EXCEPT ![p] = NoPiece(p)]
      /\ answered' = [answered EXCEPT ![p] = NoPiece(p)]
  BY DEF Connect
<1>2. /\ conn \in [Peer -> {"none", "open", "shut", "reset", "closed"}]
      /\ inq \in [Peer -> Seq(Piece)] /\ outq \in [Peer -> Seq(Piece)]
      /\ sent \in [Peer -> Piece] /\ answered \in [Peer -> Piece]
      /\ p \notin PeersIn
  BY <1>1, PeerFacts
<1>3. NoPiece(p) \in Piece /\ NoPiece(p).no = 0 /\ NoPiece(p).end
  BY DEF NoPiece, Piece
<1> DEFINE z == NoPiece(p)
<1> HIDE DEF z
<1>4. <<>> \in Seq(Piece) /\ AllOf(<<>>, "ask", p) /\ Between(<<>>, z, z)
  BY EmptySeq DEF AllOf, Between, Ordered
<1>5. Ended(z.no, z)
  BY <1>3 DEF Ended, z
<1>6. /\ conn' \in [Peer -> {"none", "open", "shut", "reset", "closed"}]
      /\ inq' \in [Peer -> Seq(Piece)] /\ outq' \in [Peer -> Seq(Piece)]
      /\ sent' \in [Peer -> Piece] /\ answered' \in [Peer -> Piece]
      /\ conn'[p] = "open" /\ inq'[p] = <<>> /\ sent'[p] = z /\ answered'[p] = z
  BY <1>1, <1>2, <1>3, <1>4 DEF z
<1>7. Moved(p)
  BY <1>1 DEF Moved
<1>8. \A fd \in Connected : clients[fd].peer # p
  BY <1>2 DEF PeersIn
<1> QED BY <1>4, <1>5, <1>6, <1>7, <1>8, MovedStep DEF z

LEMMA ReceiveStep ==
    ASSUME IInv, NEW p \in Peer, Receive(p)
    PROVE  IInv'
<1>1. /\ conn' = conn /\ inq' = inq /\ sent' = sent /\ answered' = answered
      /\ UNCHANGED serverVars /\ outq[p] # <<>> /\ outq' = [outq EXCEPT ![p] = Tail(@)]
  BY DEF Receive
<1>2. outq' \in [Peer -> Seq(Piece)]
  <2>1. outq \in [Peer -> Seq(Piece)]
    BY PeerFacts
  <2>2. Tail(outq[p]) \in Seq(Piece)
    BY <1>1, <2>1, HeadTailProperties
  <2> QED BY <1>1, <2>1, <2>2
<1>3. Moved(p)
  BY <1>1 DEF Moved
<1>4. Backlog' = Backlog
  <2>1. PeersIn' = PeersIn
    BY <1>1, ServerKept
  <2> QED BY <1>1, <2>1 DEF Backlog
<1> QED BY <1>1, <1>2, <1>3, <1>4, PeerFacts, MovedStep

LEMMA LeaveStep ==
    ASSUME IInv, NEW p \in Peer, Leave(p)
    PROVE  IInv'
<1>1. PICK t \in {"shut", "reset"} : conn' = [conn EXCEPT ![p] = t]
  BY DEF Leave
<1>2. /\ conn[p] \in {"open", "shut"} /\ inq' = inq /\ outq' = outq /\ sent' = sent
      /\ answered' = answered /\ UNCHANGED serverVars
  BY DEF Leave
<1>3. /\ conn' \in [Peer -> {"none", "open", "shut", "reset", "closed"}]
      /\ conn'[p] \in {"shut", "reset"}
      /\ \A q \in Peer : q # p => conn'[q] = conn[q]
  <2>1. conn \in [Peer -> {"none", "open", "shut", "reset", "closed"}]
    BY PeerFacts
  <2> QED BY <1>1, <2>1
<1>4. Moved(p)
  BY <1>2, <1>3 DEF Moved
<1>5. p \in Backlog' => p \in Backlog
  <2>1. PeersIn' = PeersIn
    BY <1>2, ServerKept
  <2> QED BY <1>2, <2>1 DEF Backlog
<1> QED BY <1>2, <1>3, <1>4, <1>5, PeerFacts, MovedStep

(* A piece that is sent comes after all that was sent before.                *)
LEMMA SentFits ==
    ASSUME NEW in \in Seq(Piece), NEW a \in Piece, NEW s \in Piece, NEW new \in Piece,
           Ended(a.no, s), Between(in, a, s),
           new.no = (IF s.end THEN s.no + 1 ELSE s.no)
    PROVE  /\ Ended(a.no, new) /\ Between(Append(in, new), a, new)
           /\ \A data \in Seq(Piece) :
                /\ AskFits(data, in, a, s) => AskFits(data, Append(in, new), a, new)
                /\ AnswerFits(data, in, a, s) => AnswerFits(data, Append(in, new), a, new)
<1> DEFINE u == Append(in, new)
<1>1. /\ DOMAIN in = 1 .. Len(in) /\ Len(in) \in Nat
      /\ \A i \in 1 .. Len(in) : in[i] \in Piece
      /\ DOMAIN u = 1 .. Len(in) + 1
      /\ \A i \in 1 .. Len(in) : u[i] = in[i]
      /\ u[Len(in) + 1] = new
  <2>1. u \in Seq(Piece) /\ Len(u) = Len(in) + 1
    BY AppendProperties
  <2> QED BY <2>1, AppendProperties, LenProperties
<1>2. \A i \in 1 .. Len(in) + 1 : i = Len(in) + 1 \/ i \in 1 .. Len(in)
  BY <1>1
<1> HIDE DEF u
<1>3. a.no \in Nat /\ s.no \in Nat /\ new.no \in Nat
  BY DEF Piece
<1>4. ASSUME NEW n \in Nat, Ended(n, s)
      PROVE  n < new.no /\ Ended(n, new)
  BY <1>3, <1>4 DEF Ended
<1>5. ASSUME NEW x \in Piece, x.no <= s.no, x.end => Ended(x.no, s)
      PROVE  Before(x, new) /\ x.no <= new.no /\ (x.end => Ended(x.no, new))
  <2>1. x.no \in Nat
    BY DEF Piece
  <2>2. x.no <= new.no
    BY <1>3, <1>5, <2>1
  <2> QED BY <1>4, <1>5, <2>1, <2>2 DEF Before
<1>6. \A i \in 1 .. Len(in) : /\ a.no < in[i].no /\ in[i].no <= s.no
                              /\ in[i].end => Ended(in[i].no, s)
  BY <1>1 DEF Between
<1>7. Ordered(u)
  <2>1. ASSUME NEW i \in DOMAIN u, NEW j \in DOMAIN u, i < j PROVE Before(u[i], u[j])
    <3>1. i \in 1 .. Len(in)
      BY <1>1, <1>2, <2>1
    <3>2. CASE j = Len(in) + 1
      <4> DEFINE x == in[i]
      <4>1. x \in Piece /\ x.no <= s.no /\ (x.end => Ended(x.no, s)) /\ u[i] = x
        BY <1>1, <1>6, <3>1
      <4> HIDE DEF x
      <4>2. Before(x, new)
        BY <1>5, <4>1
      <4> QED BY <1>1, <3>2, <4>1, <4>2
    <3>3. CASE j \in 1 .. Len(in)
      <4>1. Before(in[i], in[j])
        BY <1>1, <2>1, <3>1, <3>3 DEF Between, Ordered
      <4> QED BY <1>1, <3>1, <3>3, <4>1
    <3> QED BY <1>1, <1>2, <3>2, <3>3
  <2> QED BY <2>1 DEF Ordered
<1>8. ASSUME NEW i \in DOMAIN u
      PROVE  a.no < u[i].no /\ u[i].no <= new.no /\ (u[i].end => Ended(u[i].no, new))
  <2>1. CASE i \in 1 .. Len(in)
    <3> DEFINE x == in[i]
    <3>1. /\ x \in Piece /\ x.no <= s.no /\ (x.end => Ended(x.no, s))
          /\ u[i] = x /\ a.no < x.no
      BY <1>1, <1>6, <2>1
    <3> HIDE DEF x
    <3>2. x.no <= new.no /\ (x.end => Ended(x.no, new))
      BY <1>5, <3>1
    <3> QED BY <3>1, <3>2
  <2>2. CASE i = Len(in) + 1
    <3>1. u[i] = new /\ a.no < new.no
      BY <1>1, <1>3, <1>4, <2>2
    <3>2. new.no <= new.no /\ (new.end => Ended(new.no, new))
      BY <1>3 DEF Ended
    <3> QED BY <3>1, <3>2
  <2> QED BY <1>1, <1>2, <2>1, <2>2
<1>9. Between(u, a, new)
  BY <1>7, <1>8 DEF Between
<1>10. ASSUME NEW data \in Seq(Piece), AskFits(data, in, a, s)
       PROVE  AskFits(data, u, a, new)
  <2>1. \A i \in DOMAIN data : data[i] \in Piece
    BY LenProperties
  <2>2. \A i \in DOMAIN data : /\ a.no < data[i].no /\ data[i].no <= s.no
                               /\ data[i].end => Ended(data[i].no, s)
    BY <1>10 DEF AskFits, Between
  <2>3. ASSUME NEW i \in DOMAIN data
        PROVE  /\ Before(data[i], new) /\ data[i].no <= new.no
               /\ data[i].end => Ended(data[i].no, new)
    <3> DEFINE x == data[i]
    <3>1. x \in Piece /\ x.no <= s.no /\ (x.end => Ended(x.no, s))
      BY <2>1, <2>2
    <3> HIDE DEF x
    <3>2. Before(x, new) /\ x.no <= new.no /\ (x.end => Ended(x.no, new))
      BY <1>5, <3>1
    <3> QED BY <3>2 DEF x
  <2>4. Between(data, a, new)
    BY <1>10, <2>2, <2>3 DEF AskFits, Between
  <2>5. \A i \in DOMAIN data, j \in DOMAIN u : Before(data[i], u[j])
    BY <1>1, <1>2, <1>10, <2>3 DEF AskFits
  <2> QED BY <1>10, <2>4, <2>5 DEF AskFits
<1>11. ASSUME NEW data \in Seq(Piece), AnswerFits(data, in, a, s)
       PROVE  AnswerFits(data, u, a, new)
  <2>1. \A i \in DOMAIN data : data[i].no \in Nat
    <3>1. \A i \in DOMAIN data : data[i] \in Piece
      BY LenProperties
    <3> QED BY <3>1 DEF Piece
  <2>2. \A i \in DOMAIN data : Ended(data[i].no, s) /\ \A j \in DOMAIN in : data[i].no < in[j].no
    BY <1>11 DEF AnswerFits
  <2>3. \A i \in DOMAIN data : data[i].no < new.no /\ Ended(data[i].no, new)
    BY <1>4, <2>1, <2>2
  <2>4. \A i \in DOMAIN data : \A j \in DOMAIN u : data[i].no < u[j].no
    BY <1>1, <1>2, <2>2, <2>3
  <2> QED BY <1>11, <2>3, <2>4 DEF AnswerFits
<1>12. Ended(a.no, new)
  BY <1>3, <1>4
<1> QED BY <1>9, <1>10, <1>11, <1>12 DEF u

LEMMA SendStep ==
    ASSUME IInv, NEW p \in Peer, Send(p)
    PROVE  IInv'
<1> DEFINE s == sent[p]
           in == inq[p]
           a == answered[p]
           part == IF s.end THEN 1 ELSE s.part + 1
           new == [kind |-> "ask", own |-> p, part |-> part, end |-> part = Pieces[p],
                   no |-> IF s.end THEN s.no + 1 ELSE s.no]
<1>1. /\ conn[p] = "open" /\ conn' = conn /\ outq' = outq /\ answered' = answered
      /\ UNCHANGED serverVars
      /\ sent' = [sent EXCEPT ![p] = new] /\ inq' = [inq EXCEPT ![p] = Append(@, new)]
  BY DEF Send
<1>2. /\ conn \in [Peer -> {"none", "open", "shut", "reset", "closed"}]
      /\ inq \in [Peer -> Seq(Piece)] /\ outq \in [Peer -> Seq(Piece)]
      /\ sent \in [Peer -> Piece] /\ answered \in [Peer -> Piece]
      /\ in \in Seq(Piece) /\ s \in Piece /\ a \in Piece
      /\ p \in Backlog => a = NoPiece(p)
      /\ AllOf(in, "ask", p) /\ Ended(a.no, s) /\ Between(in, a, s)
      /\ \A fd \in Connected : clients[fd].peer = p =>
           /\ clients[fd].want = "READ" => AskFits(clients[fd].data, in, a, s)
           /\ clients[fd].want = "WRITE" => AnswerFits(clients[fd].data, in, a, s)
  BY PeerFacts
<1>3. new \in Piece
  <2>1. s.no \in Nat /\ s.part \in Nat /\ s.end \in BOOLEAN
    BY <1>2 DEF Piece
  <2>2. part \in Nat /\ (part = Pieces[p]) \in BOOLEAN
        /\ (IF s.end THEN s.no + 1 ELSE s.no) \in Nat
    BY <2>1
  <2> HIDE DEF part
  <2> QED BY <2>2 DEF Piece
<1>4. /\ new.no = (IF s.end THEN s.no + 1 ELSE s.no) /\ new.kind = "ask" /\ new.own = p
  OBVIOUS
<1> HIDE DEF new, s, in, a
<1>5. /\ Ended(a.no, new) /\ Between(Append(in, new), a, new)
      /\ \A data \in Seq(Piece) :
           /\ AskFits(data, in, a, s) => AskFits(data, Append(in, new), a, new)
           /\ AnswerFits(data, in, a, s) => AnswerFits(data, Append(in, new), a, new)
  BY <1>2, <1>3, <1>4, SentFits
<1>6. AllOf(Append(in, new), "ask", p) /\ Append(in, new) \in Seq(Piece)
  <2>1. /\ Append(in, new) \in Seq(Piece) /\ Len(Append(in, new)) = Len(in) + 1
        /\ \A i \in 1 .. Len(in) : Append(in, new)[i] = in[i]
        /\ Append(in, new)[Len(in) + 1] = new /\ Len(in) \in Nat
        /\ DOMAIN in = 1 .. Len(in) /\ DOMAIN Append(in, new) = 1 .. Len(Append(in, new))
    BY <1>2, <1>3, AppendProperties, LenProperties
  <2>2. \A i \in 1 .. Len(in) + 1 : i = Len(in) + 1 \/ i \in 1 .. Len(in)
    BY <2>1
  <2> QED BY <1>2, <1>4, <2>1, <2>2 DEF AllOf
<1>7. /\ inq' \in [Peer -> Seq(Piece)] /\ sent' \in [Peer -> Piece]
      /\ inq'[p] = Append(in, new) /\ sent'[p] = new /\ answered'[p] = a
      /\ \A q \in Peer : q # p => inq'[q] = inq[q] /\ sent'[q] = sent[q]
  BY <1>1, <1>2, <1>3, <1>6 DEF in, a
<1>8. Moved(p)
  BY <1>1, <1>7 DEF Moved
<1>9. Backlog' = Backlog
  <2>1. PeersIn' = PeersIn
    BY <1>1, ServerKept
  <2> QED BY <1>1, <2>1 DEF Backlog
<1>10. \A fd \in Connected : clients[fd].data \in Seq(Piece)
  BY ClientFacts
<1>11. \A fd \in Connected : clients[fd].peer = p =>
         /\ clients[fd].want = "READ" =>
              AskFits(clients[fd].data, inq'[p], answered'[p], sent'[p])
         /\ clients[fd].want = "WRITE" =>
              AnswerFits(clients[fd].data, inq'[p], answered'[p], sent'[p])
  BY <1>2, <1>5, <1>7, <1>10
<1>12. /\ conn' \in [Peer -> {"none", "open", "shut", "reset", "closed"}]
       /\ outq' \in [Peer -> Seq(Piece)] /\ answered' \in [Peer -> Piece]
       /\ conn'[p] = "open"
       /\ p \in Backlog' => answered'[p] = NoPiece(p)
       /\ AllOf(inq'[p], "ask", p) /\ Ended(answered'[p].no, sent'[p])
       /\ Between(inq'[p], answered'[p], sent'[p])
  BY <1>1, <1>2, <1>5, <1>6, <1>7, <1>9
<1> QED BY <1>7, <1>8, <1>11, <1>12, MovedStep

----------------------------------------------------------------------------
(* A turn begins. *)

(* An event says what the client waits for.                                  *)
LEMMA StatusFacts ==
    ASSUME NEW c
    PROVE  /\ StatusOf(c) \in {"READ", "WRITE", "ERROR", "NONE"}
           /\ StatusOf(c) \in {"READ", "WRITE"} => c.want = StatusOf(c)
BY DEF StatusOf

LEMMA WaitStep ==
    ASSUME IInv, Wait
    PROVE  IInv'
<1>1. /\ writing = 0 /\ batch' \subseteq Ready
      /\ clients' = clients /\ dense' = dense /\ sys' = sys /\ free' = free
      /\ writing' = writing /\ run' = run
      /\ conn' = conn /\ inq' = inq /\ outq' = outq /\ sent' = sent /\ answered' = answered
  BY DEF Wait, BetweenTurns, kSubset, peerVars
<1>2. ASSUME NEW e \in batch'
      PROVE  \/ /\ e.fd \in Connected /\ e.fd \in FD /\ e.fd # ServerFD
                /\ e = [fd |-> e.fd, status |-> StatusOf(clients[e.fd]), peer |-> clients[e.fd].peer]
                /\ e.status \in {"READ", "WRITE", "ERROR"} /\ e.peer \in Peer
                /\ e.peer = clients[e.fd].peer
                /\ e.status # "ERROR" => clients[e.fd].want = e.status
             \/ e = [fd |-> ServerFD, status |-> "READ", peer |-> "none"] /\ e.fd = ServerFD
  <2>1. e \in Ready
    BY <1>1
  <2>2. CASE e \in {x \in {[fd |-> fd, status |-> StatusOf(clients[fd]), peer |-> clients[fd].peer] :
                              fd \in Connected} : x.status # "NONE"}
    <3>1. PICK fd \in Connected :
            e = [fd |-> fd, status |-> StatusOf(clients[fd]), peer |-> clients[fd].peer]
      BY <2>2
    <3>2. e.fd = fd /\ e.status = StatusOf(clients[fd]) /\ e.peer = clients[fd].peer
      BY <3>1
    <3>3. e.status # "NONE"
      BY <2>2
    <3>4. fd \in FD /\ fd # 0 /\ clients[fd].peer \in Peer
      BY ClientFacts
    <3>5. /\ StatusOf(clients[fd]) \in {"READ", "WRITE", "ERROR", "NONE"}
          /\ StatusOf(clients[fd]) \in {"READ", "WRITE"} => clients[fd].want = StatusOf(clients[fd])
      BY StatusFacts
    <3> QED BY <3>1, <3>2, <3>3, <3>4, <3>5 DEF ServerFD
  <2>3. CASE e \in {[fd |-> ServerFD, status |-> "READ", peer |-> "none"] : p \in Backlog}
    BY <2>3
  <2> QED BY <2>1, <2>2, <2>3 DEF Ready
<1>3. Connected' = Connected
  BY <1>1 DEF Connected
<1>4. EventInv'
  <2>1. \A e \in batch' : e.fd # ServerFD => /\ e.fd \in Connected'
                                             /\ clients'[e.fd].peer = e.peer
    BY <1>1, <1>2, <1>3
  <2>2. \A e, g \in batch' : e.fd = g.fd => e = g
    BY <1>2
  <2>3. \A e \in batch' : e.fd # ServerFD /\ e.status # "ERROR" => clients'[e.fd].want = e.status
    BY <1>1, <1>2
  <2> QED BY <1>1, <2>1, <2>2, <2>3 DEF EventInv, EventsFresh
<1>5. ConnTypes'
  <2>1. \A e \in batch' : e \in [fd : FD \cup {ServerFD}, status : {"READ", "WRITE", "ERROR"},
                                 peer : Peer \cup {"none"}]
    <3>1. ASSUME NEW e \in batch'
          PROVE  e \in [fd : FD \cup {ServerFD}, status : {"READ", "WRITE", "ERROR"},
                        peer : Peer \cup {"none"}]
      <4>1. CASE e.fd # ServerFD
        <5>1. /\ e.fd \in FD /\ e.status \in {"READ", "WRITE", "ERROR"} /\ e.peer \in Peer
              /\ e = [fd |-> e.fd, status |-> StatusOf(clients[e.fd]), peer |-> clients[e.fd].peer]
          BY <1>2, <4>1
        <5>2. e = [fd |-> e.fd, status |-> e.status, peer |-> e.peer]
          BY <5>1
        <5> QED BY <5>1, <5>2
      <4>2. CASE e.fd = ServerFD
        BY <1>2, <4>2
      <4> QED BY <4>1, <4>2
    <3> QED BY <3>1
  <2> QED BY <1>1, <1>3, <2>1 DEF IInv, ConnTypes
<1>6. ConnInv' /\ DataInv' /\ OrderInv'
  <2>1. Backlog' = Backlog
    <3>1. PeersIn' = PeersIn
      BY <1>1, <1>3, SamePeers
    <3> QED BY <1>1, <3>1 DEF Backlog
  <2>2. ConnInv'
    BY <1>1, <1>3, <2>1 DEF IInv, ConnInv
  <2>3. DataInv'
    BY <1>1, <1>3 DEF IInv, DataInv
  <2>4. OrderInv'
    BY <1>1, <1>3 DEF IInv, OrderInv
  <2> QED BY <2>2, <2>3, <2>4
<1>7. BlockInv'
  <2>1. \A t \in Tier : Cardinality(Owners(t))' = Cardinality(Owners(t))
    <3>1. \A t : Owners(t)' = Owners(t)
      BY <1>1, <1>3 DEF Owners
    <3> QED BY <3>1
  <2>2. \A t \in Tier : free[t] + Cardinality(Owners(t)) + (IF sys = t THEN 1 ELSE 0) = TotalBlocks[t]
    BY DEF IInv, BlockInv, BlocksConserved
  <2>3. BlocksConserved'
    BY <1>1, <2>1, <2>2 DEF BlocksConserved
  <2> QED BY <1>1, <2>3 DEF IInv, BlockInv, BlockTypes
<1> QED BY <1>4, <1>5, <1>6, <1>7 DEF IInv

(* The order of the clients when some more are accepted.                     *)
LEMMA DenseGrown ==
    ASSUME ConnTypes, NEW S \in SUBSET (FD \ Connected)
    PROVE  LET d == dense \o Ascending(S) IN
           /\ d \in Seq(FD) /\ {d[i] : i \in DOMAIN d} = Connected \cup S
           /\ \A i, j \in DOMAIN d : d[i] = d[j] => i = j
<1> DEFINE u == Ascending(S)
           d == dense \o u
           m == Len(dense)
           n == Len(u)
<1>1. /\ dense \in Seq(FD) /\ m \in Nat /\ DOMAIN dense = 1 .. m
      /\ {dense[i] : i \in 1 .. m} = Connected
      /\ \A i, j \in 1 .. m : dense[i] = dense[j] => i = j
  BY LenProperties DEF ConnTypes
<1>2. /\ u \in Seq(S) /\ n \in Nat /\ DOMAIN u = 1 .. n
      /\ {u[i] : i \in 1 .. n} = S
      /\ \A i, j \in 1 .. n : u[i] = u[j] => i = j
  <2>1. /\ u \in Seq(S) /\ {u[i] : i \in DOMAIN u} = S
        /\ \A i, j \in DOMAIN u : u[i] = u[j] => i = j
    BY AscendingIsOrder
  <2> QED BY <2>1, LenProperties
<1>3. u \in Seq(FD)
  BY <1>2, SeqMonotonic
<1> HIDE DEF u
<1>4. /\ d \in Seq(FD) /\ Len(d) = m + n
      /\ \A i \in 1 .. m + n : d[i] = IF i <= m THEN dense[i] ELSE u[i - m]
  BY <1>1, <1>3, ConcatProperties
<1>5. DOMAIN d = 1 .. m + n
  BY <1>4, LenProperties
<1> HIDE DEF d, m, n
<1>6. /\ \A i \in 1 .. m : i \in 1 .. m + n /\ d[i] = dense[i]
      /\ \A i \in 1 .. n : m + i \in 1 .. m + n /\ d[m + i] = u[i]
      /\ \A i \in 1 .. m + n : i \in 1 .. m \/ \E k \in 1 .. n : i = m + k
  <2>1. \A i \in 1 .. m : i \in 1 .. m + n /\ i <= m
    BY <1>1, <1>2
  <2>2. ASSUME NEW i \in 1 .. n PROVE m + i \in 1 .. m + n /\ d[m + i] = u[i]
    <3>1. m + i \in 1 .. m + n /\ ~(m + i <= m) /\ (m + i) - m = i
      BY <1>1, <1>2
    <3> QED BY <1>4, <3>1
  <2>3. ASSUME NEW i \in 1 .. m + n, i \notin 1 .. m PROVE \E k \in 1 .. n : i = m + k
    <3>1. i - m \in 1 .. n /\ i = m + (i - m)
      BY <1>1, <1>2, <2>3
    <3> QED BY <3>1
  <2> QED BY <1>4, <2>1, <2>2, <2>3
<1>7. /\ \A i \in 1 .. m : dense[i] \in Connected
      /\ \A i \in 1 .. n : u[i] \in S
      /\ Connected \cap S = {}
  BY <1>1, <1>2
<1>8. \A i, j \in 1 .. m + n : d[i] = d[j] => i = j
  <2>1. SUFFICES ASSUME NEW i \in 1 .. m + n, NEW j \in 1 .. m + n, d[i] = d[j] PROVE i = j
    OBVIOUS
  <2>2. CASE i \in 1 .. m /\ j \in 1 .. m
    BY <1>1, <1>6, <2>1, <2>2
  <2>3. CASE i \notin 1 .. m /\ j \notin 1 .. m
    <3>1. PICK k \in 1 .. n, l \in 1 .. n : i = m + k /\ j = m + l
      BY <1>6, <2>3
    <3> QED BY <1>2, <1>6, <2>1, <3>1
  <2>4. CASE i \in 1 .. m /\ j \notin 1 .. m
    <3>1. PICK l \in 1 .. n : j = m + l
      BY <1>6, <2>4
    <3> QED BY <1>6, <1>7, <2>1, <2>4, <3>1
  <2>5. CASE i \notin 1 .. m /\ j \in 1 .. m
    <3>1. PICK l \in 1 .. n : i = m + l
      BY <1>6, <2>5
    <3> QED BY <1>6, <1>7, <2>1, <2>5, <3>1
  <2> QED BY <2>2, <2>3, <2>4, <2>5
<1>9. {d[i] : i \in 1 .. m + n} = Connected \cup S
  <2>1. \A i \in 1 .. m + n : d[i] \in Connected \cup S
    BY <1>6, <1>7
  <2>2. \A x \in Connected : \E i \in 1 .. m + n : d[i] = x
    BY <1>1, <1>6
  <2>3. \A x \in S : \E i \in 1 .. m + n : d[i] = x
    BY <1>2, <1>6
  <2> QED BY <2>1, <2>2, <2>3
<1> QED BY <1>4, <1>5, <1>8, <1>9 DEF d, u

(* A client as client_Connect_ makes it.                                     *)
NewClient(p) == [peer |-> p, data |-> <<>>, blk |-> 0, want |-> "READ", idle |-> FALSE]

(* The descriptors of S are given to the connections who[fd] of the backlog;  *)
(* the other connections that wait are closed.                                *)
Accepted(S, who) ==
  /\ \A fd, g \in S : who[fd] = who[g] => fd = g
  /\ clients' = [fd \in FD |-> IF fd \in S THEN NewClient(who[fd]) ELSE clients[fd]]
  /\ dense' = dense \o Ascending(S)
  /\ conn' = [p \in Peer |-> IF p \in Backlog \ {who[fd] : fd \in S} THEN "closed" ELSE conn[p]]
  /\ inq' = [p \in Peer |-> IF p \in Backlog \ {who[fd] : fd \in S} THEN <<>> ELSE inq[p]]
  /\ UNCHANGED <<outq, sent, answered, sys, free, writing, run>>
  /\ writing = 0 /\ batch' \subseteq batch

(* What becomes of every client and every connection then.                    *)
LEMMA AcceptedFacts ==
    ASSUME IInv, NEW S \in SUBSET (FD \ Connected), NEW who \in [S -> Backlog], Accepted(S, who)
    PROVE  /\ Connected' = Connected \cup S
           /\ clients' \in [FD -> Client \cup {NoClient}]
           /\ \A fd \in S : /\ clients'[fd] = NewClient(who[fd]) /\ who[fd] \in Backlog
                            /\ who[fd] \in Peer /\ who[fd] \notin PeersIn
                            /\ conn'[who[fd]] = conn[who[fd]] /\ inq'[who[fd]] = inq[who[fd]]
           /\ \A fd \in Connected : /\ clients'[fd] = clients[fd] /\ clients[fd].peer \in PeersIn
                                    /\ clients[fd].peer \in Peer
                                    /\ conn'[clients[fd].peer] = conn[clients[fd].peer]
                                    /\ inq'[clients[fd].peer] = inq[clients[fd].peer]
           /\ \A p \in Peer : \/ conn'[p] = "closed" /\ inq'[p] = <<>>
                              \/ conn'[p] = conn[p] /\ inq'[p] = inq[p]
           /\ Backlog' \subseteq Backlog
<1> DEFINE new == {who[fd] : fd \in S}
<1>1. /\ clients' = [fd \in FD |-> IF fd \in S THEN NewClient(who[fd]) ELSE clients[fd]]
      /\ conn' = [p \in Peer |-> IF p \in Backlog \ new THEN "closed" ELSE conn[p]]
      /\ inq' = [p \in Peer |-> IF p \in Backlog \ new THEN <<>> ELSE inq[p]]
  BY DEF Accepted
<1>2. /\ \A fd \in S : /\ fd \in FD /\ clients[fd] = NoClient /\ who[fd] \in Backlog
                       /\ who[fd] \in new
      /\ \A p \in Backlog : p \in Peer /\ p \notin PeersIn
  BY DEF Connected, Backlog
<1>3. \A p \in Peer : NewClient(p) \in Client /\ NewClient(p) # NoClient
  <2>1. ASSUME NEW p \in Peer PROVE NewClient(p) \in Client
    <3>1. <<>> \in Seq(Piece)
      BY EmptySeq
    <3> QED BY <3>1 DEF NewClient, Client
  <2> QED BY <2>1, ClientIsOne
<1>4. \A fd \in Connected : /\ fd \in FD /\ fd \notin S /\ clients[fd].peer \in Peer
                            /\ clients[fd] # NoClient /\ clients[fd].peer \in PeersIn
  <2>1. \A fd \in Connected : fd \in FD /\ clients[fd].peer \in Peer
    BY ClientFacts
  <2> QED BY <2>1 DEF Connected, PeersIn
<1> HIDE DEF new
<1>5. Connected' = Connected \cup S
  <2>1. \A fd \in FD : clients'[fd] # NoClient <=> fd \in S \/ clients[fd] # NoClient
    BY <1>1, <1>2, <1>3
  <2> QED BY <2>1, <1>2 DEF Connected
<1>6. clients' \in [FD -> Client \cup {NoClient}]
  BY <1>1, <1>2, <1>3 DEF IInv, ConnTypes
<1>7. \A fd \in S : /\ clients'[fd] = NewClient(who[fd]) /\ who[fd] \in Backlog
                    /\ who[fd] \in Peer /\ who[fd] \notin PeersIn
                    /\ conn'[who[fd]] = conn[who[fd]] /\ inq'[who[fd]] = inq[who[fd]]
  BY <1>1, <1>2
<1>8. \A fd \in Connected : /\ clients'[fd] = clients[fd] /\ clients[fd].peer \in PeersIn
                            /\ clients[fd].peer \in Peer
                            /\ conn'[clients[fd].peer] = conn[clients[fd].peer]
                            /\ inq'[clients[fd].peer] = inq[clients[fd].peer]
  BY <1>1, <1>2, <1>4
<1>9. \A p \in Peer : \/ conn'[p] = "closed" /\ inq'[p] = <<>>
                      \/ conn'[p] = conn[p] /\ inq'[p] = inq[p]
  BY <1>1
<1>10. Backlog' \subseteq Backlog
  <2>1. PeersIn \subseteq PeersIn'
    <3>1. ASSUME NEW fd \in Connected PROVE clients[fd].peer \in PeersIn'
      BY <1>5, <1>8 DEF PeersIn
    <3> QED BY <3>1 DEF PeersIn
  <2>2. ASSUME NEW p \in Backlog' PROVE p \in Backlog
    <3>1. p \in Peer /\ p \notin PeersIn' /\ conn'[p] \in {"open", "shut", "reset"}
      BY DEF Backlog
    <3>2. conn'[p] = conn[p]
      BY <1>9, <3>1
    <3> QED BY <2>1, <3>1, <3>2 DEF Backlog
  <2> QED BY <2>2
<1> QED BY <1>5, <1>6, <1>7, <1>8, <1>9, <1>10

(* New clients wait to read, have an empty buffer and no block.               *)
LEMMA AcceptedStep ==
    ASSUME IInv, NEW S \in SUBSET (FD \ Connected), NEW who \in [S -> Backlog], Accepted(S, who)
    PROVE  IInv'
<1>1. /\ Connected' = Connected \cup S /\ clients' \in [FD -> Client \cup {NoClient}]
      /\ Backlog' \subseteq Backlog
      /\ \A p \in Peer : \/ conn'[p] = "closed" /\ inq'[p] = <<>>
                         \/ conn'[p] = conn[p] /\ inq'[p] = inq[p]
  BY AcceptedFacts
<1>2. \A fd \in S : /\ clients'[fd] = NewClient(who[fd]) /\ who[fd] \in Backlog
                    /\ who[fd] \in Peer /\ who[fd] \notin PeersIn
                    /\ conn'[who[fd]] = conn[who[fd]] /\ inq'[who[fd]] = inq[who[fd]]
  BY AcceptedFacts
<1>3. \A fd \in Connected : /\ clients'[fd] = clients[fd] /\ clients[fd].peer \in PeersIn
                            /\ clients[fd].peer \in Peer
                            /\ conn'[clients[fd].peer] = conn[clients[fd].peer]
                            /\ inq'[clients[fd].peer] = inq[clients[fd].peer]
  BY AcceptedFacts
<1>4. \A fd \in S : /\ clients'[fd].peer = who[fd] /\ clients'[fd].data = <<>>
                    /\ clients'[fd].blk = 0 /\ clients'[fd].want = "READ"
  <2>1. \A p : /\ NewClient(p).peer = p /\ NewClient(p).data = <<>>
               /\ NewClient(p).blk = 0 /\ NewClient(p).want = "READ"
    BY DEF NewClient
  <2>2. \A fd \in S : clients'[fd] = NewClient(who[fd])
    BY <1>2
  <2> QED BY <2>1, <2>2
<1>5. /\ outq' = outq /\ sent' = sent /\ answered' = answered /\ sys' = sys /\ free' = free
      /\ writing' = writing /\ run' = run /\ writing = 0 /\ batch' \subseteq batch
      /\ dense' = dense \o Ascending(S)
      /\ \A fd, g \in S : who[fd] = who[g] => fd = g
  BY DEF Accepted
<1>6. ConnTypes /\ ConnInv /\ EventInv /\ EventsFresh /\ DataInv /\ OrderInv /\ BlockInv
  BY DEF IInv, EventInv
<1>7. ConnTypes'
  <2>1. /\ conn' \in [Peer -> {"none", "open", "shut", "reset", "closed"}]
        /\ inq' \in [Peer -> Seq(Piece)]
    <3>1. <<>> \in Seq(Piece)
      BY EmptySeq
    <3> QED BY <1>6, <3>1 DEF Accepted, ConnTypes
  <2>2. \A fd \in Connected' : clients'[fd].want = "READ" => Len(clients'[fd].data) <= MaxRequest
    <3>1. Len(<<>>) <= MaxRequest
      BY EmptySeq, LenProperties, LoopAssumption
    <3> QED BY <1>1, <1>3, <1>4, <1>6, <3>1 DEF ConnTypes
  <2>3. /\ dense' \in Seq(FD) /\ {dense'[i] : i \in DOMAIN dense'} = Connected'
        /\ \A i, j \in DOMAIN dense' : dense'[i] = dense'[j] => i = j
    BY <1>1, <1>5, <1>6, DenseGrown
  <2> QED BY <1>1, <1>5, <1>6, <2>1, <2>2, <2>3 DEF ConnTypes
<1>8. ConnInv'
  <2>1. \A fd \in Connected' : conn'[clients'[fd].peer] \in {"open", "shut", "reset"}
    BY <1>1, <1>2, <1>3, <1>4, <1>6 DEF ConnInv, Backlog
  <2>2. \A fd, g \in Connected' : clients'[fd].peer = clients'[g].peer => fd = g
    <3>1. SUFFICES ASSUME NEW fd \in Connected', NEW g \in Connected',
                          clients'[fd].peer = clients'[g].peer
                   PROVE  fd = g
      OBVIOUS
    <3>2. CASE fd \in Connected /\ g \in Connected
      BY <1>3, <1>6, <3>1, <3>2 DEF ConnInv
    <3>3. CASE fd \in S /\ g \in S
      BY <1>4, <1>5, <3>1, <3>3
    <3>4. CASE \/ fd \in S /\ g \in Connected
               \/ g \in S /\ fd \in Connected
      BY <1>2, <1>3, <1>4, <3>1, <3>4
    <3> QED BY <1>1, <3>2, <3>3, <3>4
  <2>3. \A p \in Peer : conn'[p] \in {"none", "closed"} => inq'[p] = <<>>
    BY <1>1, <1>6 DEF ConnInv
  <2>4. \A p \in Backlog' : answered'[p] = NoPiece(p)
    BY <1>1, <1>5, <1>6 DEF ConnInv
  <2> QED BY <2>1, <2>2, <2>3, <2>4 DEF ConnInv
<1>9. EventInv'
  <2>1. \A e \in batch' : e.fd # ServerFD => /\ e.fd \in Connected /\ e.fd \in Connected'
                                             /\ clients'[e.fd] = clients[e.fd]
                                             /\ clients'[e.fd].peer = e.peer
    BY <1>1, <1>3, <1>5, <1>6 DEF EventsFresh
  <2>2. \A e, g \in batch' : e.fd = g.fd => e = g
    BY <1>5, <1>6 DEF EventInv
  <2>3. \A e \in batch' : e.fd # ServerFD /\ e.status # "ERROR" => clients'[e.fd].want = e.status
    BY <1>5, <1>6, <2>1 DEF EventInv
  <2> QED BY <1>5, <2>1, <2>2, <2>3 DEF EventInv, EventsFresh
<1>10. DataInv'
  <2>1. \A p : AllOf(<<>>, "ask", p)
    BY DEF AllOf
  <2>2. \A p \in Peer : AllOf(inq'[p], "ask", p)
    BY <1>1, <1>6, <2>1 DEF DataInv
  <2>3. ASSUME NEW fd \in Connected'
        PROVE  /\ AllOf(clients'[fd].data, IF clients'[fd].want = "WRITE" THEN "answer" ELSE "ask",
                        clients'[fd].peer)
               /\ clients'[fd].want = "WRITE" /\ fd # writing' => clients'[fd].data # <<>>
    <3>1. CASE fd \in Connected
      BY <1>3, <1>5, <1>6, <3>1 DEF DataInv
    <3>2. CASE fd \in S
      BY <1>4, <2>1, <3>2
    <3> QED BY <1>1, <3>1, <3>2
  <2> QED BY <2>2, <2>3 DEF DataInv
<1>11. OrderInv'
  <2>1. \A p : Between(<<>>, answered[p], sent[p])
    BY DEF Between, Ordered
  <2>2. \A p \in Peer : /\ Ended(answered'[p].no, sent'[p])
                        /\ Between(inq'[p], answered'[p], sent'[p])
    BY <1>1, <1>5, <1>6, <2>1 DEF OrderInv
  <2>3. ASSUME NEW fd \in Connected'
        PROVE  LET d == clients'[fd]
                   p == d.peer IN
               /\ d.want = "READ" => AskFits(d.data, inq'[p], answered'[p], sent'[p])
               /\ d.want = "WRITE" => AnswerFits(d.data, inq'[p], answered'[p], sent'[p])
    <3>1. CASE fd \in Connected
      BY <1>3, <1>5, <1>6, <3>1 DEF OrderInv
    <3>2. CASE fd \in S
      <4>1. /\ clients'[fd].peer = who[fd] /\ clients'[fd].data = <<>>
            /\ clients'[fd].want = "READ"
        BY <1>4, <3>2
      <4>2. answered[who[fd]].end
        <5>1. answered[who[fd]] = NoPiece(who[fd])
          BY <1>2, <1>6, <3>2 DEF ConnInv
        <5> QED BY <5>1 DEF NoPiece
      <4>3. AskFits(<<>>, inq'[who[fd]], answered[who[fd]], sent[who[fd]])
        BY <2>1, <4>2 DEF AskFits
      <4> QED BY <1>5, <4>1, <4>3
    <3> QED BY <1>1, <3>1, <3>2
  <2> QED BY <2>2, <2>3 DEF OrderInv
<1>12. BlockInv'
  <2>1. \A t \in Tier : Cardinality(Owners(t))' = Cardinality(Owners(t))
    <3>1. \A t \in Tier : Owners(t)' = Owners(t)
      <4>1. \A t \in Tier : t # 0
        BY DEF Tier, Small, Large
      <4> QED BY <1>1, <1>3, <1>4, <4>1 DEF Owners
    <3> QED BY <3>1
  <2>2. \A t \in Tier : free[t] + Cardinality(Owners(t)) + (IF sys = t THEN 1 ELSE 0) = TotalBlocks[t]
    BY <1>6 DEF BlockInv, BlocksConserved
  <2>3. BlocksConserved'
    BY <1>5, <2>1, <2>2 DEF BlocksConserved
  <2> QED BY <1>5, <1>6, <2>3 DEF BlockInv, BlockTypes
<1> QED BY <1>7, <1>8, <1>9, <1>10, <1>11, <1>12 DEF IInv

LEMMA ClientConnectStep ==
    ASSUME IInv, client_Connect
    PROVE  IInv'
<1> DEFINE open   == FD \ Connected
           count  == Min({MaxClients - Cardinality(Connected), Cardinality(Backlog)})
           lowest == {fd \in open : Cardinality({g \in open : g < fd}) < count}
<1>1. Handle(ServerFD, "READ")
  BY DEF client_Connect
<1>2. PICK who \in [lowest -> Backlog] :
        /\ \A fd, g \in lowest : who[fd] = who[g] => fd = g
        /\ clients' = [fd \in FD |-> IF fd \in lowest THEN NewClient(who[fd]) ELSE clients[fd]]
        /\ dense' = dense \o Ascending(lowest)
        /\ conn' = [p \in Peer |-> IF p \in Backlog \ {who[fd] : fd \in lowest} THEN "closed"
                                   ELSE conn[p]]
        /\ inq' = [p \in Peer |-> IF p \in Backlog \ {who[fd] : fd \in lowest} THEN <<>>
                                  ELSE inq[p]]
  BY DEF client_Connect, NewClient
<1>3. UNCHANGED <<outq, sent, answered, sys, free, writing, run>>
  BY DEF client_Connect
<1>4. writing = 0 /\ batch' \subseteq batch
  BY <1>1 DEF Handle
<1>5. lowest \in SUBSET (FD \ Connected)
  OBVIOUS
<1> HIDE DEF lowest
<1>6. Accepted(lowest, who)
  BY <1>2, <1>3, <1>4 DEF Accepted
<1> QED BY <1>2, <1>5, <1>6, AcceptedStep

----------------------------------------------------------------------------
(* The end of the process, the start, and all steps. *)

LEMMA BlocksToStart == TotalBlocks \in [Tier -> Nat] /\ \A t \in Tier : t # 0
BY LoopAssumption DEF TotalBlocks, Tier, Small, Large

LEMMA StopStep ==
    ASSUME IInv, Stop
    PROVE  IInv'
<1>1. /\ run' = "off" /\ clients' = [fd \in FD |-> NoClient] /\ dense' = <<>> /\ sys' = 0
      /\ conn' = [p \in Peer |-> IF conn[p] = "none" THEN "none" ELSE "closed"]
      /\ inq' = [p \in Peer |-> <<>>] /\ free' = TotalBlocks
      /\ outq' = outq /\ sent' = sent /\ answered' = answered
      /\ batch' = {} /\ writing' = 0
  BY DEF Stop, BetweenTurns
<1>2. Connected' = {} /\ Backlog' = {}
  BY <1>1 DEF Connected, Backlog
<1>3. ConnTypes /\ OrderInv
  BY DEF IInv
<1>4. ConnTypes'
  <2>1. <<>> \in Seq(Piece) /\ <<>> \in Seq(FD)
    BY EmptySeq
  <2>2. DOMAIN <<>> = {}
    BY EmptySeq, LenProperties
  <2>3. {dense'[i] : i \in DOMAIN dense'} = Connected'
    BY <1>1, <1>2, <2>2
  <2> QED BY <1>1, <1>2, <1>3, <2>1, <2>2, <2>3 DEF ConnTypes
<1>5. ConnInv'
  BY <1>1, <1>2 DEF ConnInv
<1>6. EventInv'
  BY <1>1 DEF EventInv, EventsFresh
<1>7. DataInv'
  BY <1>1, <1>2 DEF DataInv, AllOf
<1>8. OrderInv'
  <2>1. \A p : Between(<<>>, answered[p], sent[p])
    BY DEF Between, Ordered
  <2>2. \A p \in Peer : Ended(answered[p].no, sent[p])
    BY <1>3 DEF OrderInv
  <2> QED BY <1>1, <1>2, <2>1, <2>2 DEF OrderInv
<1>9. BlockInv'
  <2>1. BlocksConserved'
    <3>1. \A t : Owners(t)' = {}
      BY <1>2 DEF Owners
    <3>2. \A t : Cardinality(Owners(t))' = 0
      BY <3>1, FS_EmptySet
    <3> QED BY <1>1, <3>2, BlocksToStart DEF BlocksConserved
  <2> QED BY <1>1, <2>1, BlocksToStart DEF BlockInv, BlockTypes
<1> QED BY <1>4, <1>5, <1>6, <1>7, <1>8, <1>9 DEF IInv

LEMMA InitInv == Init => IInv
<1> SUFFICES ASSUME Init PROVE IInv
  OBVIOUS
<1>1. Connected = {} /\ Backlog = {}
  BY DEF Init, Connected, Backlog
<1>2. ConnTypes
  <2>1. <<>> \in Seq(Piece) /\ <<>> \in Seq(FD)
    BY EmptySeq
  <2>2. DOMAIN <<>> = {}
    BY EmptySeq, LenProperties
  <2>3. {dense[i] : i \in DOMAIN dense} = Connected
    BY <1>1, <2>2 DEF Init
  <2>4. \A p \in Peer : NoPiece(p) \in Piece
    BY DEF NoPiece, Piece
  <2> QED BY <1>1, <2>1, <2>2, <2>3, <2>4 DEF Init, ConnTypes
<1>3. ConnInv
  BY <1>1 DEF Init, ConnInv
<1>4. EventInv
  BY DEF Init, EventInv, EventsFresh
<1>5. DataInv
  BY <1>1 DEF Init, DataInv, AllOf
<1>6. OrderInv
  <2>1. \A p \in Peer : Ended(NoPiece(p).no, NoPiece(p)) /\ Between(<<>>, NoPiece(p), NoPiece(p))
    BY DEF NoPiece, Ended, Between, Ordered
  <2> QED BY <1>1, <2>1 DEF Init, OrderInv
<1>7. BlockInv
  <2>1. BlocksConserved
    <3>1. \A t : Owners(t) = {}
      BY <1>1 DEF Owners
    <3>2. \A t : Cardinality(Owners(t)) = 0
      BY <3>1, FS_EmptySet
    <3> QED BY <3>2, BlocksToStart DEF Init, BlocksConserved
  <2> QED BY <2>1, BlocksToStart DEF Init, BlockInv, BlockTypes
<1> QED BY <1>2, <1>3, <1>4, <1>5, <1>6, <1>7 DEF IInv

LEMMA StutterStep ==
    ASSUME IInv, UNCHANGED vars
    PROVE  IInv'
<1>1. /\ UNCHANGED serverVars /\ clients' = clients /\ dense' = dense /\ batch' = batch
      /\ writing' = writing /\ conn' = conn /\ inq' = inq /\ outq' = outq
      /\ sent' = sent /\ answered' = answered
  BY DEF vars, serverVars
<1>2. EventInv' /\ BlockInv' /\ Connected' = Connected /\ PeersIn' = PeersIn
  BY <1>1, ServerKept
<1>3. ConnTypes'
  BY <1>1, <1>2 DEF IInv, ConnTypes
<1>4. ConnInv'
  BY <1>1, <1>2 DEF IInv, ConnInv, Backlog
<1>5. DataInv' /\ OrderInv'
  BY <1>1, <1>2 DEF IInv, DataInv, OrderInv
<1> QED BY <1>2, <1>3, <1>4, <1>5 DEF IInv

LEMMA NextInv == IInv /\ [Next]_vars => IInv'
<1> SUFFICES ASSUME IInv, [Next]_vars PROVE IInv'
  OBVIOUS
<1>1. ASSUME NEW p \in Peer, Connect(p) \/ Send(p) \/ Receive(p) \/ Leave(p) PROVE IInv'
  BY <1>1, ConnectStep, SendStep, ReceiveStep, LeaveStep
<1>2. ASSUME NEW fd \in FD, NEW n \in 1 .. MaxInput,
             \/ ReadRefused(fd, n) \/ ReadPass(fd, n) \/ ReadUnknown(fd, n)
             \/ (\E size \in Tier : ReadCommand(fd, n, size))
             \/ ReadExit(fd, n) \/ ReadShutdown(fd, n)
      PROVE  IInv'
  BY <1>2, ReadRefusedStep, ReadPassStep, ReadUnknownStep, ReadCommandStep, ReadExitStep,
     ReadShutdownStep
<1>3. ASSUME NEW fd \in FD, client_Read(fd) PROVE IInv'
  BY <1>2, <1>3, ReadNothingStep DEF client_Read
<1>4. ASSUME NEW fd \in FD, client_Write(fd) PROVE IInv'
  BY <1>4, WriteStartStep, WritePieceStep, WriteDoneStep, WriteInterruptedStep, WriteErrorStep
     DEF client_Write
<1>5. CASE Environment
  BY <1>1, <1>5, TickStep DEF Environment
<1>6. CASE HandlerStep
  BY <1>3, <1>4, <1>6, ClientConnectStep, ErrorEventStep DEF HandlerStep
<1>7. CASE Wait \/ Stop \/ idle_loop
  BY <1>7, WaitStep, StopStep, IdleStep
<1>8. CASE UNCHANGED vars
  BY <1>8, StutterStep
<1> QED BY <1>5, <1>6, <1>7, <1>8 DEF Next

----------------------------------------------------------------------------
(* What a step writes to the sockets. *)

(* The step gives p a piece of an answer only if it goes on where p's answers  *)
(* have ended.                                                               *)
GoesOn(p) ==
  Len(outq'[p]) > Len(outq[p]) =>
       LET x == answered'[p] IN
       /\ x = outq'[p][Len(outq'[p])]
       /\ x.kind = "answer" /\ x.own = p /\ x.no <= sent[p].no
       /\ IF answered[p].end THEN x.no > answered[p].no /\ x.part = 1
                             ELSE x.no = answered[p].no /\ x.part = answered[p].part + 1

LEMMA NothingWritten ==
    ASSUME IInv, outq' = outq, NEW p \in Peer
    PROVE  GoesOn(p)
<1>1. Len(outq[p]) \in Nat /\ outq'[p] = outq[p]
  BY LenProperties DEF IInv, ConnTypes
<1> QED BY <1>1 DEF GoesOn

(* Only three actions change what is on its way to the peers.                  *)
LEMMA SocketsKept ==
    ASSUME [Next]_vars
    PROVE  \/ outq' = outq
           \/ \E p \in Peer : Connect(p) \/ Receive(p)
           \/ \E fd \in FD : WritePiece(fd)
<1>1. ASSUME NEW p \in Peer, Send(p) \/ Leave(p) PROVE outq' = outq
  BY <1>1 DEF Send, Leave
<1>2. ASSUME NEW fd \in FD, client_Read(fd) PROVE outq' = outq
  <2>1. ASSUME NEW n, \/ ReadRefused(fd, n) \/ ReadPass(fd, n) \/ ReadUnknown(fd, n)
                      \/ (\E size \in Tier : ReadCommand(fd, n, size))
                      \/ ReadExit(fd, n) \/ ReadShutdown(fd, n)
        PROVE  outq' = outq
    BY <2>1 DEF ReadRefused, ReadPass, ReadUnknown, ReadCommand, ReadExit, ReadShutdown,
                Consume, client_Disconnect
  <2>2. ASSUME ReadNothing(fd) PROVE outq' = outq
    BY <2>2 DEF ReadNothing, client_Disconnect
  <2> QED BY <1>2, <2>1, <2>2 DEF client_Read
<1>3. ASSUME NEW fd \in FD, client_Write(fd), ~WritePiece(fd) PROVE outq' = outq
  BY <1>3 DEF client_Write, WriteStart, WriteDone, WriteInterrupted, WriteError,
              client_Disconnect, peerVars
<1>4. ASSUME NEW fd \in FD, ErrorEvent(fd) PROVE outq' = outq
  BY <1>4 DEF ErrorEvent, client_Disconnect
<1>5. ASSUME NEW fd \in FD, Tick(fd) PROVE outq' = outq
  BY <1>5 DEF Tick, peerVars
<1>6. ASSUME idle_loop PROVE outq' = outq
  BY <1>6 DEF idle_loop, expireFD, client_Disconnect
<1>7. ASSUME Wait \/ Stop \/ client_Connect \/ UNCHANGED vars PROVE outq' = outq
  BY <1>7 DEF Wait, Stop, client_Connect, vars, peerVars
<1> QED BY <1>1, <1>2, <1>3, <1>4, <1>5, <1>6, <1>7 DEF Next, Environment, HandlerStep

LEMMA PieceGoesOn ==
    ASSUME IInv, NEW fd \in FD, WritePiece(fd), NEW q \in Peer
    PROVE  GoesOn(q)
<1> DEFINE p == clients[fd].peer
           d == clients[fd].data
           x == Head(d)
<1>1. /\ fd = writing /\ d # <<>>
      /\ outq' = [outq EXCEPT ![p] = Append(@, x)]
      /\ answered' = [answered EXCEPT ![p] = x]
  BY DEF WritePiece
<1>2. fd \in Connected /\ clients[fd].want = "WRITE"
  BY <1>1, WrittenTo
<1>3. /\ p \in Peer /\ d \in Seq(Piece) /\ inq[p] \in Seq(Piece)
      /\ answered[p] \in Piece /\ sent[p] \in Piece
      /\ AllOf(d, "answer", p)
      /\ Between(inq[p], answered[p], sent[p])
      /\ AnswerFits(d, inq[p], answered[p], sent[p])
  BY <1>2, ClientFacts
<1>4. /\ x \in Piece /\ Ended(x.no, sent[p])
      /\ IF answered[p].end THEN x.no > answered[p].no /\ x.part = 1
                            ELSE x.no = answered[p].no /\ x.part = answered[p].part + 1
  BY <1>1, <1>3, AnswerGoesOn
<1>5. x.kind = "answer" /\ x.own = p
  <2>1. 1 \in DOMAIN d /\ x = d[1]
    BY <1>1, <1>3, HeadTailProperties, LenProperties, EmptySeq
  <2> QED BY <1>3, <2>1 DEF AllOf
<1>6. /\ outq \in [Peer -> Seq(Piece)] /\ answered \in [Peer -> Piece]
      /\ \A r \in Peer : Len(outq[r]) \in Nat
  BY LenProperties DEF IInv, ConnTypes
<1>7. CASE q # p
  <2>1. outq'[q] = outq[q] /\ Len(outq[q]) \in Nat
    BY <1>1, <1>6, <1>7
  <2> QED BY <2>1 DEF GoesOn
<1>8. CASE q = p
  <2>1. outq'[p] = Append(outq[p], x) /\ answered'[p] = x
    BY <1>1, <1>3, <1>6
  <2>2. Append(outq[p], x)[Len(Append(outq[p], x))] = x
    BY <1>3, <1>4, <1>6, AppendProperties
  <2>3. x.no <= sent[p].no
    BY <1>4 DEF Ended
  <2> QED BY <1>4, <1>5, <1>8, <2>1, <2>2, <2>3 DEF GoesOn
<1> QED BY <1>7, <1>8

LEMMA AnswersGoOn == IInv /\ [Next]_vars => \A p \in Peer : GoesOn(p)
<1> SUFFICES ASSUME IInv, [Next]_vars, NEW q \in Peer PROVE GoesOn(q)
  OBVIOUS
<1>1. outq \in [Peer -> Seq(Piece)] /\ \A r \in Peer : Len(outq[r]) \in Nat
  BY LenProperties DEF IInv, ConnTypes
<1>2. ASSUME NEW p \in Peer, Connect(p) PROVE GoesOn(q)
  <2>1. outq' = [outq EXCEPT ![p] = <<>>]
    BY <1>2 DEF Connect
  <2>2. Len(<<>>) = 0
    BY EmptySeq
  <2>3. ~(Len(outq'[q]) > Len(outq[q]))
    BY <1>1, <2>1, <2>2
  <2> QED BY <2>3 DEF GoesOn
<1>3. ASSUME NEW p \in Peer, Receive(p) PROVE GoesOn(q)
  <2>1. outq[p] # <<>> /\ outq' = [outq EXCEPT ![p] = Tail(@)]
    BY <1>3 DEF Receive
  <2>2. Len(Tail(outq[p])) = Len(outq[p]) - 1
    BY <1>1, <2>1, HeadTailProperties
  <2>3. ~(Len(outq'[q]) > Len(outq[q]))
    BY <1>1, <2>1, <2>2
  <2> QED BY <2>3 DEF GoesOn
<1> QED BY <1>2, <1>3, SocketsKept, NothingWritten, PieceGoesOn

----------------------------------------------------------------------------
(* What is proved about EventLoop. *)

(* The inductive invariant: what buffers, sockets and blocks hold of the      *)
(* requests and answers of AsyncLoop's clients, in every state.               *)
THEOREM InvariantHolds == Spec => []IInv
<1>1. Init => IInv
  BY InitInv
<1>2. IInv /\ [Next]_vars => IInv'
  BY NextInv
<1> QED BY <1>1, <1>2, PTL DEF Spec

(* The variables keep their types, and no buffer that AsyncLoop reads into     *)
(* grows beyond conf_maxRequestSize_.                                         *)
THEOREM TypeCorrect == Spec => []TypeOK
<1>1. IInv => TypeOK
  BY DEF IInv, BlockInv, TypeOK
<1> QED BY <1>1, InvariantHolds, PTL

(* No memory block leaks or is given out twice, through every swap of the      *)
(* client's buffer with system_buffer_ in Result::processSet, every growth in   *)
(* provideBufferAtLeast and every client_Disconnect_.                           *)
THEOREM BlocksConservedHolds == Spec => []BlocksConserved
<1>1. IInv => BlocksConserved
  BY DEF IInv, BlockInv
<1> QED BY <1>1, InvariantHolds, PTL

(* No event of a turn is handled for another client than the one epoll          *)
(* reported, though handlers before it in the turn accept and disconnect.        *)
THEOREM EventsFreshHolds == Spec => []EventsFresh
<1>1. IInv => EventsFresh
  BY DEF IInv, EventInv
<1> QED BY <1>1, InvariantHolds, PTL

(* The one IOBuffer of a client holds an answer while the selector waits to      *)
(* write and input while it waits to read, between write(2)s.                     *)
THEOREM BufferMatchesInterestHolds == Spec => []BufferMatchesInterest
<1>1. IInv => BufferMatchesInterest
  BY DEF IInv, DataInv, BufferMatchesInterest
<1> QED BY <1>1, InvariantHolds, PTL

(* What SocketOps::write gives to a peer goes on with the answer it has begun or  *)
(* begins the answer to a later request of the same peer, through short writes,    *)
(* pipelined requests and the shared system_buffer_.                               *)
THEOREM AnswersInOrderHolds == Spec => AnswersInOrder
<1>1. IInv /\ [Next]_vars => [\A p \in Peer : GoesOn(p)]_vars
  BY AnswersGoOn
<1>2. [\A p \in Peer : GoesOn(p)]_vars
        => [\A p \in Peer : Len(outq'[p]) > Len(outq[p]) =>
             LET x == answered'[p] IN
             /\ x = outq'[p][Len(outq'[p])]
             /\ x.kind = "answer" /\ x.own = p /\ x.no <= sent[p].no
             /\ IF answered[p].end THEN x.no > answered[p].no /\ x.part = 1
                             ELSE x.no = answered[p].no /\ x.part = answered[p].part + 1]_vars
  BY DEF GoesOn
<1> QED BY <1>1, <1>2, InvariantHolds, PTL DEF Spec, AnswersInOrder

----------------------------------------------------------------------------
(* AsyncCompletionLoop: clients, the submission queue, the completions. *)

(* A client of the completion loop is not the absence of one.               *)
LEMMA RingClientIsOne ==
    ASSUME NEW c \in RingClient
    PROVE  c # NoClient
<1>1. DOMAIN c # DOMAIN NoClient
  <2>1. "data" \in DOMAIN c
    BY DEF RingClient
  <2>2. "data" \notin DOMAIN NoClient
    BY DEF NoClient
  <2> QED BY <2>1, <2>2
<1> QED BY <1>1

LEMMA RingConnected ==
    ASSUME RingTypes
    PROVE  /\ Connected \subseteq FD /\ IsFiniteSet(Connected)
           /\ Cardinality(Connected) \in Nat
           /\ \A fd \in Connected : clients[fd] \in RingClient
<1>1. Connected \subseteq FD /\ \A fd \in Connected : clients[fd] \in RingClient
  BY DEF RingTypes, Connected
<1>2. IsFiniteSet(Connected)
  <2>1. IsFiniteSet(FD)
    BY FS_Interval, LoopAssumption DEF FD
  <2> QED BY <1>1, <2>1, FS_Subset
<1> QED BY <1>1, <1>2, FS_CardinalityType

(* One client is changed or comes in.                                       *)
LEMMA RingClientSet ==
    ASSUME RingTypes, NEW fd \in FD, NEW c \in RingClient, Replaced(fd, c)
    PROVE  /\ Connected' = Connected \cup {fd}
           /\ clients'[fd] = c
           /\ \A g \in FD : g # fd => clients'[g] = clients[g]
           /\ clients' \in [FD -> RingClient \cup {NoClient}]
<1>1. clients \in [FD -> RingClient \cup {NoClient}]
  BY DEF RingTypes
<1>2. clients'[fd] = c /\ \A g \in FD : g # fd => clients'[g] = clients[g]
  BY <1>1 DEF Replaced
<1>3. clients' \in [FD -> RingClient \cup {NoClient}]
  BY <1>1 DEF Replaced
<1>4. Connected' = Connected \cup {fd}
  BY <1>2, RingClientIsOne DEF Connected
<1> QED BY <1>2, <1>3, <1>4

(* One client is removed.                                                   *)
LEMMA RingClientRemoved ==
    ASSUME RingTypes, NEW fd \in FD, Replaced(fd, NoClient)
    PROVE  /\ Connected' = Connected \ {fd}
           /\ \A g \in FD : g # fd => clients'[g] = clients[g]
           /\ clients' \in [FD -> RingClient \cup {NoClient}]
<1>1. clients \in [FD -> RingClient \cup {NoClient}]
  BY DEF RingTypes
<1>2. clients'[fd] = NoClient /\ \A g \in FD : g # fd => clients'[g] = clients[g]
  BY <1>1 DEF Replaced
<1>3. clients' \in [FD -> RingClient \cup {NoClient}]
  BY <1>1 DEF Replaced
<1>4. Connected' = Connected \ {fd}
  BY <1>2 DEF Connected
<1> QED BY <1>2, <1>3, <1>4

(* The submission queue has room for one more operation and its timeout, since *)
(* every client has at most one in it.                                        *)
LEMMA RoomForRequest ==
    ASSUME RingTypes, FlightInv
    PROVE  SpaceLeft \in Int /\ SpaceLeft >= 2
<1>1. Queued \subseteq Connected /\ Timed \subseteq Queued
  BY DEF Queued, Timed, FlightInv, NoOp
<1>2. /\ Cardinality(Queued) \in Nat /\ Cardinality(Queued) <= Cardinality(Connected)
      /\ Cardinality(Timed) \in Nat /\ Cardinality(Timed) <= Cardinality(Queued)
  BY <1>1, RingConnected, FS_Subset, FS_CardinalityType
<1>3. Cardinality(Connected) \in Nat /\ Cardinality(Connected) <= MaxClients
  BY RingConnected DEF RingTypes
<1>4. MaxClients \in Nat /\ Reserved \in Nat
  BY LoopAssumption, RingAssumption
<1>5. Max({Reserved, 1}) \in {Reserved, 1} /\ Max({Reserved, 1}) >= 1
  <2>1. \E x \in {Reserved, 1} : \A y \in {Reserved, 1} : x >= y
    <3>1. CASE Reserved >= 1
      BY <1>4, <3>1
    <3>2. CASE ~(Reserved >= 1)
      BY <1>4, <3>2
    <3> QED BY <3>1, <3>2
  <2>2. Max({Reserved, 1}) \in {Reserved, 1}
        /\ \A y \in {Reserved, 1} : Max({Reserved, 1}) >= y
    BY <2>1 DEF Max
  <2> QED BY <2>2
<1>6. QSize \in Nat /\ QSize >= 2 * MaxClients + 3
  BY <1>4, <1>5 DEF QSize
<1> DEFINE q == Cardinality(Queued)
           t == Cardinality(Timed)
<1>7. SpaceLeft = (QSize - q) - t - (IF accept = "sq" THEN 1 ELSE 0)
  BY DEF SpaceLeft
<1>8. q \in Nat /\ t \in Nat /\ q <= MaxClients /\ t <= MaxClients
  BY <1>2, <1>3, <1>4
<1> HIDE DEF q, t
<1>9. CASE accept = "sq"
  BY <1>4, <1>6, <1>7, <1>8, <1>9
<1>10. CASE accept # "sq"
  BY <1>4, <1>6, <1>7, <1>8, <1>10
<1> QED BY <1>9, <1>10

(* The completions that are not handled yet, by their places.               *)
LEMMA PendingTypes ==
    ASSUME RingTypes
    PROVE  /\ Pending \in Seq(RingEvent) /\ Len(Pending) \in Nat
           /\ DOMAIN Pending = 1 .. Len(Pending)
           /\ \A i \in DOMAIN Pending : Pending[i] \in RingEvent
           /\ Len(Pending) = Len(events) + Len(cq)
           /\ Len(events) \in Nat /\ Len(cq) \in Nat
           /\ \A i \in 1 .. Len(events) : Pending[i] = events[i]
           /\ \A i \in 1 .. Len(cq) : Len(events) + i \in DOMAIN Pending
                                      /\ Pending[Len(events) + i] = cq[i]
           /\ DOMAIN cq = 1 .. Len(cq)
<1>1. cq \in Seq(RingEvent) /\ events \in Seq(RingEvent)
  BY DEF RingTypes
<1>2. Len(cq) \in Nat /\ Len(events) \in Nat /\ DOMAIN cq = 1 .. Len(cq)
  BY <1>1, LenProperties
<1>3. /\ Pending \in Seq(RingEvent) /\ Len(Pending) = Len(events) + Len(cq)
      /\ \A i \in 1 .. Len(events) + Len(cq) : Pending[i] =
           IF i <= Len(events) THEN events[i] ELSE cq[i - Len(events)]
  BY <1>1, ConcatProperties DEF Pending
<1>4. DOMAIN Pending = 1 .. Len(Pending)
  BY <1>3, LenProperties
<1>5. \A i \in 1 .. Len(events) : Pending[i] = events[i]
  <2>1. \A i \in 1 .. Len(events) : i \in 1 .. Len(events) + Len(cq) /\ i <= Len(events)
    BY <1>2
  <2> QED BY <1>3, <2>1
<1>6. ASSUME NEW i \in 1 .. Len(cq)
      PROVE  Len(events) + i \in DOMAIN Pending /\ Pending[Len(events) + i] = cq[i]
  <2>1. /\ Len(events) + i \in 1 .. Len(events) + Len(cq) /\ ~(Len(events) + i <= Len(events))
        /\ (Len(events) + i) - Len(events) = i
    BY <1>2
  <2> QED BY <1>3, <1>4, <2>1
<1>7. \A i \in DOMAIN Pending : Pending[i] \in RingEvent
  BY <1>3, <1>4, ElementOfSeq
<1> QED BY <1>2, <1>3, <1>4, <1>5, <1>6, <1>7

(* The kernel completes an operation.                                        *)
LEMMA PendingGrown ==
    ASSUME RingTypes, NEW e \in RingEvent, events' = events, cq' = Append(cq, e)
    PROVE  /\ cq' \in Seq(RingEvent) /\ events' \in Seq(RingEvent)
           /\ Len(Pending) \in Nat
           /\ DOMAIN Pending = 1 .. Len(Pending)
           /\ DOMAIN Pending' = 1 .. Len(Pending) + 1
           /\ \A i \in 1 .. Len(Pending) : Pending'[i] = Pending[i]
           /\ Pending'[Len(Pending) + 1] = e
           /\ (\E i \in DOMAIN cq' : cq'[i].op = "ACCEPT")
                <=> (\E i \in DOMAIN cq : cq[i].op = "ACCEPT") \/ e.op = "ACCEPT"
<1>1. cq \in Seq(RingEvent) /\ events \in Seq(RingEvent)
  BY DEF RingTypes
<1>2. Len(cq) \in Nat /\ Len(events) \in Nat /\ DOMAIN cq = 1 .. Len(cq)
  BY <1>1, LenProperties
<1>3. /\ cq' \in Seq(RingEvent) /\ Len(cq') = Len(cq) + 1
      /\ \A i \in 1 .. Len(cq) : cq'[i] = cq[i]
      /\ cq'[Len(cq) + 1] = e
  BY <1>1, AppendProperties
<1>4. DOMAIN cq' = 1 .. Len(cq) + 1
  BY <1>3, LenProperties
<1>5. /\ Pending \in Seq(RingEvent) /\ Len(Pending) \in Nat
      /\ DOMAIN Pending = 1 .. Len(Pending)
  BY PendingTypes
<1>6. Pending' = Append(Pending, e)
  <2>1. <<e>> \in Seq(RingEvent) /\ Append(cq, e) = cq \o <<e>>
    BY <1>1, AppendIsConcat
  <2>2. events \o (cq \o <<e>>) = (events \o cq) \o <<e>>
    BY <1>1, <2>1, ConcatAssociative
  <2>3. Append(Pending, e) = Pending \o <<e>>
    BY <1>5, AppendIsConcat
  <2> QED BY <2>1, <2>2, <2>3 DEF Pending
<1>7. /\ Pending' \in Seq(RingEvent) /\ Len(Pending') = Len(Pending) + 1
      /\ \A i \in 1 .. Len(Pending) : Pending'[i] = Pending[i]
      /\ Pending'[Len(Pending) + 1] = e
  BY <1>5, <1>6, AppendProperties
<1>8. DOMAIN Pending' = 1 .. Len(Pending) + 1
  BY <1>7, LenProperties
<1>9. (\E i \in DOMAIN cq' : cq'[i].op = "ACCEPT")
        <=> (\E i \in DOMAIN cq : cq[i].op = "ACCEPT") \/ e.op = "ACCEPT"
  <2>1. \A i \in 1 .. Len(cq) + 1 : i \in 1 .. Len(cq) \/ i = Len(cq) + 1
    BY <1>2
  <2>2. \A i \in 1 .. Len(cq) : i \in 1 .. Len(cq) + 1
    BY <1>2
  <2>3. Len(cq) + 1 \in 1 .. Len(cq) + 1
    BY <1>2
  <2> QED BY <1>2, <1>3, <1>4, <2>1, <2>2, <2>3
<1> QED BY <1>1, <1>3, <1>5, <1>7, <1>8, <1>9

(* The loop turns to the next completion.                                    *)
LEMMA PendingTaken ==
    ASSUME RingTypes, events # <<>>, events' = Tail(events), cq' = cq
    PROVE  /\ cq' \in Seq(RingEvent) /\ events' \in Seq(RingEvent)
           /\ Len(Pending) \in Nat /\ Len(Pending) >= 1
           /\ DOMAIN Pending = 1 .. Len(Pending)
           /\ 1 \in DOMAIN Pending /\ Pending[1] = Head(events)
           /\ DOMAIN Pending' = 1 .. Len(Pending) - 1
           /\ \A i \in DOMAIN Pending' : i + 1 \in DOMAIN Pending /\ Pending'[i] = Pending[i + 1]
           /\ \A i \in DOMAIN Pending : i # 1 =>
                i - 1 \in DOMAIN Pending' /\ Pending'[i - 1] = Pending[i]
<1>1. cq \in Seq(RingEvent) /\ events \in Seq(RingEvent)
  BY DEF RingTypes
<1>2. /\ Len(events) \in Nat \ {0} /\ Len(cq) \in Nat /\ Len(Pending) = Len(events) + Len(cq)
      /\ Len(Pending) \in Nat /\ DOMAIN Pending = 1 .. Len(Pending)
      /\ \A i \in 1 .. Len(events) : Pending[i] = events[i]
  BY <1>1, PendingTypes, EmptySeq
<1>3. /\ Tail(events) \in Seq(RingEvent) /\ Len(Tail(events)) = Len(events) - 1
      /\ \A i \in 1 .. Len(Tail(events)) : Tail(events)[i] = events[i + 1]
      /\ Head(events) = events[1]
  BY <1>1, HeadTailProperties
<1>4. /\ Pending' \in Seq(RingEvent) /\ Len(Pending') = Len(Tail(events)) + Len(cq)
      /\ \A i \in 1 .. Len(Tail(events)) + Len(cq) : Pending'[i] =
           IF i <= Len(Tail(events)) THEN Tail(events)[i] ELSE cq[i - Len(Tail(events))]
  BY <1>1, <1>3, ConcatProperties DEF Pending
<1>5. DOMAIN Pending' = 1 .. Len(Pending) - 1
  <2>1. Len(Pending') = Len(Pending) - 1
    BY <1>2, <1>3, <1>4
  <2> QED BY <1>4, <2>1, LenProperties
<1>6. ASSUME NEW i \in 1 .. Len(Pending) - 1
      PROVE  i + 1 \in 1 .. Len(Pending) /\ Pending'[i] = Pending[i + 1]
  <2>1. /\ i + 1 \in 1 .. Len(Pending) /\ i \in 1 .. Len(Tail(events)) + Len(cq)
        /\ i + 1 \in 1 .. Len(events) + Len(cq)
    BY <1>2, <1>3
  <2>2. \A k \in 1 .. Len(events) + Len(cq) : Pending[k] =
          IF k <= Len(events) THEN events[k] ELSE cq[k - Len(events)]
    BY <1>1, ConcatProperties DEF Pending
  <2>3. CASE i <= Len(Tail(events))
    <3>1. i \in 1 .. Len(Tail(events)) /\ i + 1 <= Len(events)
      BY <1>2, <1>3, <2>3
    <3> QED BY <1>3, <1>4, <2>1, <2>2, <2>3, <3>1
  <2>4. CASE ~(i <= Len(Tail(events)))
    <3>1. ~(i + 1 <= Len(events)) /\ (i + 1) - Len(events) = i - Len(Tail(events))
      BY <1>2, <1>3, <2>4
    <3> QED BY <1>4, <2>1, <2>2, <2>4, <3>1
  <2> QED BY <2>1, <2>3, <2>4
<1>7. ASSUME NEW i \in 1 .. Len(Pending), i # 1
      PROVE  i - 1 \in 1 .. Len(Pending) - 1 /\ Pending'[i - 1] = Pending[i]
  <2>1. i - 1 \in 1 .. Len(Pending) - 1 /\ (i - 1) + 1 = i
    BY <1>2, <1>7
  <2> QED BY <1>6, <2>1
<1>8. 1 \in 1 .. Len(Pending) /\ Pending[1] = Head(events) /\ Len(Pending) >= 1
  <2>1. 1 \in 1 .. Len(events) /\ 1 \in 1 .. Len(Pending) /\ Len(Pending) >= 1
    BY <1>2
  <2> QED BY <1>2, <1>3, <2>1
<1> QED BY <1>1, <1>2, <1>3, <1>5, <1>6, <1>7, <1>8

(* The parts of the inductive invariant.                                     *)
LEMMA RingParts ==
    ASSUME RingInv, engine = "uring"
    PROVE  RingTypes /\ FlightInv /\ PendingInv /\ AcceptInv /\ SockInv /\ AskedInv
BY DEF RingInv

(* A client with an operation under way.                                     *)
LEMMA FlightFacts ==
    ASSUME RingInv, engine = "uring", NEW fd \in FD, flight[fd] # NoOp
    PROVE  /\ fd \in Connected /\ clients[fd] \in RingClient
           /\ sock[fd] = clients[fd].peer /\ sock[fd] \in Peer
           /\ flight[fd].op \in {"READ", "WRITE", "CLOSE"} /\ flight[fd].room \in Int
           /\ Holds(flight[fd].op, clients[fd])
           /\ \A i \in DOMAIN Pending : ~About(i, fd)
           /\ ~Closing(fd)
<1>1. RingTypes /\ FlightInv /\ SockInv
  BY RingParts
<1>2. /\ fd \in Connected /\ Holds(flight[fd].op, clients[fd])
      /\ \A i \in DOMAIN Pending : ~About(i, fd)
  BY <1>1 DEF FlightInv
<1>3. ~Closing(fd)
  BY <1>2 DEF Closing
<1>4. clients[fd] \in RingClient
  BY <1>1, <1>2, RingConnected
<1>5. sock[fd] = clients[fd].peer
  BY <1>1, <1>2, <1>3 DEF SockInv
<1>6. clients[fd].peer \in Peer
  BY <1>4 DEF RingClient
<1>7. flight[fd].op \in {"READ", "WRITE", "CLOSE"} /\ flight[fd].room \in Int
  <2>1. flight[fd] \in Operation
    BY <1>1 DEF RingTypes
  <2> QED BY <2>1 DEF Operation
<1> QED BY <1>2, <1>3, <1>4, <1>5, <1>6, <1>7

(* The kernel completes the operation of fd.                                 *)
LEMMA CompletedStep ==
    ASSUME RingInv, engine = "uring", NEW fd \in FD, flight[fd] # NoOp,
           NEW res \in {"OK", "ERROR", "CANCELED"}, NEW data \in Seq(Piece),
           Complete(fd, res, data),
           flight[fd].op = "READ" => AllOf(data, "ask", sock[fd]),
           inq' \in [Peer -> Seq(Piece)], outq' \in [Peer -> Seq(Piece)],
           \A p \in Peer : AllOf(inq'[p], "ask", p),
           sock' = IF flight[fd].op = "CLOSE" THEN [sock EXCEPT ![fd] = "none"] ELSE sock
    PROVE  RingInv'
<1> DEFINE e == Completion(flight[fd].op, fd, sock[fd], res, data)
           n == Len(Pending)
<1>1. RingTypes /\ FlightInv /\ PendingInv /\ AcceptInv /\ SockInv /\ AskedInv
  BY RingParts
<1>2. /\ fd \in Connected /\ clients[fd] \in RingClient
      /\ sock[fd] = clients[fd].peer /\ sock[fd] \in Peer
      /\ flight[fd].op \in {"READ", "WRITE", "CLOSE"}
      /\ Holds(flight[fd].op, clients[fd])
      /\ \A i \in DOMAIN Pending : ~About(i, fd)
      /\ ~Closing(fd)
  BY FlightFacts
<1>3. /\ e.op = flight[fd].op /\ e.fd = fd /\ e.peer = sock[fd] /\ e.res = res /\ e.data = data
      /\ e \in RingEvent
  BY <1>2 DEF Completion, RingEvent
<1>4. /\ flight' = [flight EXCEPT ![fd] = NoOp] /\ cq' = Append(cq, e) /\ events' = events
      /\ sent' = sent /\ clients' = clients /\ run' = run /\ accept' = accept
      /\ engine' = engine
  BY DEF Complete
<1> HIDE DEF e
<1>5. /\ cq' \in Seq(RingEvent) /\ events' \in Seq(RingEvent)
      /\ n \in Nat /\ DOMAIN Pending = 1 .. n /\ DOMAIN Pending' = 1 .. n + 1
      /\ \A i \in 1 .. n : Pending'[i] = Pending[i]
      /\ Pending'[n + 1] = e
  BY <1>1, <1>3, <1>4, PendingGrown
<1>51. (\E i \in DOMAIN cq' : cq'[i].op = "ACCEPT")
         <=> (\E i \in DOMAIN cq : cq[i].op = "ACCEPT") \/ e.op = "ACCEPT"
  BY <1>1, <1>3, <1>4, PendingGrown
<1> HIDE DEF n
<1>6. /\ \A i \in 1 .. n + 1 : i \in 1 .. n \/ i = n + 1
      /\ n + 1 \in 1 .. n + 1 /\ \A i \in 1 .. n : i \in 1 .. n + 1 /\ i # n + 1
  BY <1>5
<1>7. /\ Connected' = Connected
      /\ flight'[fd] = NoOp /\ \A g \in FD : g # fd => flight'[g] = flight[g]
      /\ \A g \in FD : g # fd => sock'[g] = sock[g]
      /\ flight[fd].op # "CLOSE" => sock'[fd] = sock[fd]
      /\ flight[fd].op = "CLOSE" => sock'[fd] = "none"
  BY <1>1, <1>4 DEF Connected, RingTypes
<1>8. RingTypes'
  <2>1. flight' \in [FD -> Operation]
    BY <1>1, <1>4 DEF RingTypes, Operation
  <2>2. sock' \in [FD -> Peer \cup {"none"}]
    BY <1>1 DEF RingTypes
  <2> QED BY <1>1, <1>4, <1>5, <1>7, <2>1, <2>2 DEF RingTypes
<1>9. FlightInv'
  <2> SUFFICES ASSUME NEW g \in FD, flight'[g] # NoOp
               PROVE  /\ g \in Connected' /\ Holds(flight'[g].op, clients'[g])
                      /\ \A i \in DOMAIN Pending' : ~About(i, g)'
    BY DEF FlightInv, Holds, About, AllOf
  <2>1. g # fd /\ flight'[g] = flight[g]
    BY <1>7
  <2>2. \A i \in 1 .. n + 1 : ~About(i, g)'
    <3>1. \A i \in 1 .. n : ~(Pending[i].fd = g /\ Pending[i].op # "ACCEPT")
      BY <1>1, <1>5, <2>1 DEF FlightInv, About
    <3>2. \A i \in 1 .. n : ~(Pending'[i].fd = g /\ Pending'[i].op # "ACCEPT")
      BY <1>5, <3>1
    <3>3. ~(Pending'[n + 1].fd = g /\ Pending'[n + 1].op # "ACCEPT")
      BY <1>3, <1>5, <2>1
    <3> QED BY <1>6, <3>2, <3>3 DEF About
  <2> QED BY <1>1, <1>4, <1>5, <1>7, <2>1, <2>2 DEF FlightInv
<1>10. PendingInv'
  <2> SUFFICES ASSUME NEW i \in 1 .. n + 1, Pending'[i].op # "ACCEPT"
               PROVE  /\ Pending'[i].fd \in Connected
                      /\ clients[Pending'[i].fd].peer = Pending'[i].peer
                      /\ Holds(Pending'[i].op, clients[Pending'[i].fd])
                      /\ Pending'[i].op = "READ" =>
                           AllOf(Pending'[i].data, "ask", Pending'[i].peer)
                      /\ \A j \in 1 .. n + 1 :
                           Pending'[j].fd = Pending'[i].fd /\ Pending'[j].op # "ACCEPT" => j = i
    BY <1>4, <1>5, <1>7 DEF PendingInv, About
  <2>0. \A j \in 1 .. n : ~(Pending[j].fd = fd /\ Pending[j].op # "ACCEPT")
    BY <1>2, <1>5 DEF About
  <2>1. CASE i \in 1 .. n
    <3>1. /\ Pending'[i] = Pending[i] /\ Pending[i].op # "ACCEPT"
          /\ Pending[i].fd # fd
      BY <1>5, <2>0, <2>1
    <3>2. /\ Pending[i].fd \in Connected
          /\ clients[Pending[i].fd].peer = Pending[i].peer
          /\ Holds(Pending[i].op, clients[Pending[i].fd])
          /\ Pending[i].op = "READ" => AllOf(Pending[i].data, "ask", Pending[i].peer)
          /\ \A j \in 1 .. n :
               Pending[j].fd = Pending[i].fd /\ Pending[j].op # "ACCEPT" => j = i
      BY <1>1, <1>5, <2>1, <3>1 DEF PendingInv, About
    <3>3. \A j \in 1 .. n + 1 :
            Pending'[j].fd = Pending'[i].fd /\ Pending'[j].op # "ACCEPT" => j = i
      BY <1>3, <1>5, <1>6, <3>1, <3>2
    <3> QED BY <3>1, <3>2, <3>3
  <2>2. CASE i = n + 1
    <3>1. Pending'[i] = e
      BY <1>5, <2>2
    <3>2. \A j \in 1 .. n : ~(Pending'[j].fd = fd /\ Pending'[j].op # "ACCEPT")
      BY <1>5, <2>0
    <3>3. \A j \in 1 .. n + 1 :
            Pending'[j].fd = Pending'[i].fd /\ Pending'[j].op # "ACCEPT" => j = i
      BY <1>3, <1>6, <2>2, <3>1, <3>2
    <3>4. e.op = "READ" => AllOf(e.data, "ask", e.peer)
      BY <1>3
    <3> QED BY <1>2, <1>3, <3>1, <3>3, <3>4
  <2> QED BY <1>6, <2>1, <2>2
<1>11. AcceptInv'
  <2> SUFFICES ASSUME NEW i \in DOMAIN Pending', Pending'[i].op = "ACCEPT"
               PROVE  /\ accept # "kernel"
                      /\ \A j \in DOMAIN Pending' : Pending'[j].op = "ACCEPT" => j = i
                      /\ Pending'[i].res # "OK" => Pending'[i].fd = ServerFD
                      /\ Pending'[i].res = "OK" =>
                           /\ Pending'[i].fd \in FD /\ sock'[Pending'[i].fd] = Pending'[i].peer
                           /\ Pending'[i].fd \in Connected =>
                                \E j \in DOMAIN Pending' :
                                  /\ j < i /\ Pending'[j].fd = Pending'[i].fd
                                  /\ Pending'[j].op # "ACCEPT" /\ Pending'[j].op = "CLOSE"
    BY <1>4, <1>5, <1>7 DEF AcceptInv, About
  <2>1. i \in 1 .. n /\ Pending'[i] = Pending[i]
    BY <1>2, <1>3, <1>5, <1>6
  <2>2. /\ accept # "kernel"
        /\ \A j \in 1 .. n : Pending[j].op = "ACCEPT" => j = i
        /\ Pending[i].res # "OK" => Pending[i].fd = ServerFD
        /\ Pending[i].res = "OK" =>
             /\ Pending[i].fd \in FD /\ sock[Pending[i].fd] = Pending[i].peer
             /\ Pending[i].fd \in Connected =>
                  \E j \in 1 .. n : j < i /\ About(j, Pending[i].fd) /\ Pending[j].op = "CLOSE"
    BY <1>1, <1>5, <2>1 DEF AcceptInv
  <2>3. Pending[i].res = "OK" => Pending[i].fd # fd
    BY <1>2, <1>5, <2>2
  <2>4. \A j \in DOMAIN Pending' : Pending'[j].op = "ACCEPT" => j = i
    BY <1>2, <1>3, <1>5, <1>6, <2>2
  <2>5. Pending[i].res = "OK" => sock'[Pending[i].fd] = sock[Pending[i].fd]
    BY <1>7, <2>2, <2>3
  <2>6. ASSUME NEW j \in 1 .. n, About(j, Pending[i].fd), Pending[j].op = "CLOSE"
        PROVE  /\ j \in DOMAIN Pending' /\ Pending'[j].fd = Pending'[i].fd
               /\ Pending'[j].op # "ACCEPT" /\ Pending'[j].op = "CLOSE"
    BY <1>5, <1>6, <2>1, <2>6 DEF About
  <2> QED BY <2>1, <2>2, <2>4, <2>5, <2>6
<1>12. SockInv'
  <2> DEFINE Shut(g) == \E i \in DOMAIN Pending' : Pending'[i].fd = g /\ Pending'[i].op = "CLOSE"
             Came(g) == \E i \in DOMAIN Pending' : /\ Pending'[i].op = "ACCEPT"
                                                  /\ Pending'[i].res = "OK" /\ Pending'[i].fd = g
  <2>1. ASSUME NEW g \in FD
        PROVE  Shut(g) <=> Closing(g) \/ (g = fd /\ flight[fd].op = "CLOSE")
    BY <1>3, <1>5, <1>6 DEF Closing, About
  <2>2. ASSUME NEW g \in FD, NEW i \in DOMAIN Pending,
               Pending[i].op = "ACCEPT", Pending[i].res = "OK", Pending[i].fd = g
        PROVE  Came(g)
    BY <1>5, <1>6, <2>2
  <2>3. /\ \A g \in Connected : Shut(g) => Closing(g)'
        /\ \A g \in FD : Closing(g)' => Shut(g)
    BY DEF Closing, About
  <2> HIDE DEF Shut
  <2>4. ASSUME NEW g \in Connected
        PROVE  sock'[g] = clients[g].peer \/ Shut(g)
    <3>1. g \in FD
      BY DEF Connected
    <3>2. sock[g] = clients[g].peer \/ Closing(g)
      BY <1>1 DEF SockInv
    <3> QED BY <1>2, <1>7, <2>1, <3>1, <3>2
  <2>5. ASSUME NEW g \in FD, sock'[g] # "none"
        PROVE  (g \in Connected /\ ~Shut(g)) \/ Came(g)
    <3>1. sock[g] # "none" /\ ~(g = fd /\ flight[fd].op = "CLOSE")
      BY <1>2, <1>7, <2>5
    <3>2. CASE g \in Connected /\ ~Closing(g)
      BY <2>1, <3>1, <3>2
    <3>3. CASE ~(g \in Connected /\ ~Closing(g))
      <4>1. PICK i \in DOMAIN Pending :
              Pending[i].op = "ACCEPT" /\ Pending[i].res = "OK" /\ Pending[i].fd = g
        BY <1>1, <3>1, <3>3 DEF SockInv
      <4> QED BY <2>2, <4>1
    <3> QED BY <3>2, <3>3
  <2> QED BY <1>4, <1>7, <2>3, <2>4, <2>5 DEF SockInv
<1>13. AskedInv'
  <2>1. ASSUME run = "on", NEW g \in Connected
        PROVE  \/ flight'[g] # NoOp
               \/ \E i \in 1 .. n + 1 : Pending'[i].fd = g /\ Pending'[i].op # "ACCEPT"
    <3>1. g \in FD
      BY DEF Connected
    <3>2. flight[g] # NoOp \/ \E i \in 1 .. n : About(i, g)
      BY <1>1, <1>5, <2>1 DEF AskedInv
    <3>3. CASE g = fd
      BY <1>3, <1>5, <1>6, <3>3, <1>2
    <3>4. CASE g # fd /\ flight[g] # NoOp
      BY <1>7, <3>1, <3>4
    <3>5. CASE \E i \in 1 .. n : About(i, g)
      BY <1>5, <1>6, <3>5 DEF About
    <3> QED BY <3>2, <3>3, <3>4, <3>5
  <2>2. (\E i \in DOMAIN cq' : cq'[i].op = "ACCEPT") <=> (\E i \in DOMAIN cq : cq[i].op = "ACCEPT")
    BY <1>2, <1>3, <1>51
  <2>3. run # "off" => (accept = "none" <=> \E i \in DOMAIN cq : cq[i].op = "ACCEPT")
    BY <1>1 DEF AskedInv
  <2>4. run = "off" => events = <<>>
    BY <1>1 DEF AskedInv
  <2> QED BY <1>4, <1>5, <1>7, <2>1, <2>2, <2>3, <2>4 DEF AskedInv, About
<1> QED BY <1>8, <1>9, <1>10, <1>11, <1>12, <1>13 DEF RingInv

(* While the kernel looks for a connection it has a descriptor for it: only    *)
(* clients have descriptors, and there are more of these than clients.        *)
LEMMA FreeDescriptor ==
    ASSUME RingInv, engine = "uring", accept = "kernel"
    PROVE  LET fd == Min({g \in FD : sock[g] = "none"}) IN fd \in FD /\ sock[fd] = "none"
<1> DEFINE unused == {g \in FD : sock[g] = "none"}
<1>1. RingTypes /\ AcceptInv /\ SockInv
  BY RingParts
<1>2. \A i \in DOMAIN Pending : Pending[i].op # "ACCEPT"
  BY <1>1 DEF AcceptInv
<1>3. \A g \in FD : sock[g] # "none" => g \in Connected
  BY <1>1, <1>2 DEF SockInv
<1>4. unused # {}
  <2>1. SUFFICES ASSUME unused = {} PROVE FALSE
    OBVIOUS
  <2>2. FD \subseteq Connected
    BY <1>3, <2>1
  <2>3. MaxClients \in Nat /\ MaxFD \in Nat /\ MaxClients < MaxFD
    BY LoopAssumption
  <2>4. Cardinality(FD) = MaxFD
    BY <2>3, FS_Interval DEF FD
  <2>5. Cardinality(FD) <= Cardinality(Connected)
    BY <1>1, <2>2, RingConnected, FS_Subset
  <2>6. Cardinality(Connected) <= MaxClients /\ Cardinality(Connected) \in Nat
    BY <1>1, RingConnected DEF RingTypes
  <2> QED BY <2>3, <2>4, <2>5, <2>6
<1>5. unused \in SUBSET Nat
  BY DEF FD
<1>6. PICK m \in unused : \A g \in unused : m <= g
  BY <1>4, <1>5, SmallestExists
<1>7. \E x \in unused : \A y \in unused : x =< y
  BY <1>6
<1>8. Min(unused) \in unused
  BY <1>7 DEF Min
<1> QED BY <1>8

(* accept(2) is completed: with a descriptor, or with an error.               *)
LEMMA AcceptCompletedStep ==
    ASSUME RingInv, engine = "uring", NEW e \in RingEvent, e.op = "ACCEPT",
           accept = "kernel", accept' = "none", engine' = engine,
           cq' = Append(cq, e), events' = events,
           inq' = inq, outq' = outq, sent' = sent, clients' = clients, flight' = flight,
           run' = run,
           \/ /\ e.res = "OK" /\ e.fd \in FD /\ sock[e.fd] = "none"
              /\ sock' = [sock EXCEPT ![e.fd] = e.peer]
           \/ e.res # "OK" /\ e.fd = ServerFD /\ sock' = sock
    PROVE  RingInv'
<1> DEFINE n == Len(Pending)
<1>1. RingTypes /\ FlightInv /\ PendingInv /\ AcceptInv /\ SockInv /\ AskedInv
  BY RingParts
<1>2. /\ cq' \in Seq(RingEvent) /\ events' \in Seq(RingEvent)
      /\ n \in Nat /\ DOMAIN Pending = 1 .. n /\ DOMAIN Pending' = 1 .. n + 1
      /\ \A i \in 1 .. n : Pending'[i] = Pending[i]
      /\ Pending'[n + 1] = e
  BY <1>1, PendingGrown
<1>3. \E i \in DOMAIN cq' : cq'[i].op = "ACCEPT"
  BY <1>1, PendingGrown
<1> HIDE DEF n
<1>4. /\ \A i \in DOMAIN Pending' : i \in DOMAIN Pending \/ i = n + 1
      /\ n + 1 \in DOMAIN Pending'
      /\ \A i \in DOMAIN Pending : i \in DOMAIN Pending' /\ i < n + 1 /\ Pending'[i] = Pending[i]
  BY <1>2
<1>5. Connected' = Connected /\ Connected \subseteq FD
  BY DEF Connected
<1>6. \A i \in DOMAIN Pending : Pending[i].op # "ACCEPT"
  BY <1>1 DEF AcceptInv
<1>7. /\ \A g \in FD : g # e.fd => sock'[g] = sock[g]
      /\ e.fd \in FD => sock[e.fd] = "none" /\ sock'[e.fd] = e.peer /\ e.res = "OK"
      /\ e.fd \notin FD => e.res # "OK" /\ e.fd = ServerFD
  <2>1. ServerFD \notin FD
    BY DEF ServerFD, FD
  <2> QED BY <1>1, <2>1 DEF RingTypes
<1>8. \A fd \in Connected : sock[fd] = "none" => Closing(fd)
  <2>1. \A fd \in Connected : clients[fd].peer \in Peer
    BY <1>1, RingConnected DEF RingClient
  <2> QED BY <1>1, <2>1, RingAssumption DEF SockInv
<1>9. RingTypes'
  <2>1. sock' \in [FD -> Peer \cup {"none"}]
    BY <1>1 DEF RingTypes, RingEvent
  <2> QED BY <1>1, <1>2, <1>5, <2>1 DEF RingTypes
<1>10. FlightInv'
  <2> SUFFICES ASSUME NEW g \in FD, flight[g] # NoOp
               PROVE  /\ g \in Connected' /\ Holds(flight'[g].op, clients'[g])
                      /\ \A i \in DOMAIN Pending' : ~About(i, g)'
    BY DEF FlightInv
  <2>1. \A i \in DOMAIN Pending' : ~(Pending'[i].fd = g /\ Pending'[i].op # "ACCEPT")
    <3>1. \A i \in DOMAIN Pending : ~(Pending[i].fd = g /\ Pending[i].op # "ACCEPT")
      BY <1>1 DEF FlightInv, About
    <3> QED BY <1>2, <1>4, <3>1
  <2> QED BY <1>1, <1>5, <2>1 DEF FlightInv, About
<1>11. PendingInv'
  <2> SUFFICES ASSUME NEW i \in DOMAIN Pending', Pending'[i].op # "ACCEPT"
               PROVE  /\ Pending'[i].fd \in Connected
                      /\ clients[Pending'[i].fd].peer = Pending'[i].peer
                      /\ Holds(Pending'[i].op, clients[Pending'[i].fd])
                      /\ Pending'[i].op = "READ" =>
                           AllOf(Pending'[i].data, "ask", Pending'[i].peer)
                      /\ \A j \in DOMAIN Pending' :
                           Pending'[j].fd = Pending'[i].fd /\ Pending'[j].op # "ACCEPT" => j = i
    BY <1>5 DEF PendingInv, About
  <2>1. i \in DOMAIN Pending /\ Pending'[i] = Pending[i]
    BY <1>2, <1>4
  <2>2. /\ Pending[i].fd \in Connected
        /\ clients[Pending[i].fd].peer = Pending[i].peer
        /\ Holds(Pending[i].op, clients[Pending[i].fd])
        /\ Pending[i].op = "READ" => AllOf(Pending[i].data, "ask", Pending[i].peer)
        /\ \A j \in DOMAIN Pending :
             Pending[j].fd = Pending[i].fd /\ Pending[j].op # "ACCEPT" => j = i
    BY <1>1, <2>1 DEF PendingInv, About
  <2>3. \A j \in DOMAIN Pending' :
          Pending'[j].fd = Pending'[i].fd /\ Pending'[j].op # "ACCEPT" => j = i
    BY <1>2, <1>4, <2>1, <2>2
  <2> QED BY <2>1, <2>2, <2>3
<1>12. AcceptInv'
  <2> SUFFICES ASSUME NEW i \in DOMAIN Pending', Pending'[i].op = "ACCEPT"
               PROVE  /\ \A j \in DOMAIN Pending' : Pending'[j].op = "ACCEPT" => j = i
                      /\ Pending'[i].res # "OK" => Pending'[i].fd = ServerFD
                      /\ Pending'[i].res = "OK" =>
                           /\ Pending'[i].fd \in FD /\ sock'[Pending'[i].fd] = Pending'[i].peer
                           /\ Pending'[i].fd \in Connected =>
                                \E j \in DOMAIN Pending' :
                                  /\ j < i /\ Pending'[j].fd = Pending'[i].fd
                                  /\ Pending'[j].op # "ACCEPT" /\ Pending'[j].op = "CLOSE"
    BY <1>5 DEF AcceptInv, About
  <2>1. i = n + 1 /\ Pending'[i] = e
    BY <1>2, <1>4, <1>6
  <2>2. \A j \in DOMAIN Pending' : Pending'[j].op = "ACCEPT" => j = i
    BY <1>2, <1>4, <1>6, <2>1
  <2>3. ASSUME e.fd \in Connected
        PROVE  \E j \in DOMAIN Pending' : /\ j < i /\ Pending'[j].fd = e.fd
                                          /\ Pending'[j].op # "ACCEPT" /\ Pending'[j].op = "CLOSE"
    <3>1. PICK j \in DOMAIN Pending : About(j, e.fd) /\ Pending[j].op = "CLOSE"
      BY <1>5, <1>7, <1>8, <2>3 DEF Closing
    <3> QED BY <1>4, <2>1, <3>1 DEF About
  <2> QED BY <1>7, <2>1, <2>2, <2>3
<1>13. SockInv'
  <2> DEFINE Shut(g) == \E i \in DOMAIN Pending' : Pending'[i].fd = g /\ Pending'[i].op = "CLOSE"
             Came(g) == \E i \in DOMAIN Pending' : /\ Pending'[i].op = "ACCEPT"
                                                  /\ Pending'[i].res = "OK" /\ Pending'[i].fd = g
  <2>1. ASSUME NEW g \in FD
        PROVE  Shut(g) <=> Closing(g)
    BY <1>2, <1>4 DEF Closing, About
  <2>2. e.fd \in FD => Came(e.fd)
    BY <1>2, <1>4, <1>7
  <2>3. /\ \A g \in Connected : Shut(g) => Closing(g)'
        /\ \A g \in FD : Closing(g)' => Shut(g)
    BY DEF Closing, About
  <2> HIDE DEF Shut
  <2>4. ASSUME NEW g \in Connected
        PROVE  sock'[g] = clients[g].peer \/ Shut(g)
    <3>1. sock[g] = clients[g].peer \/ Closing(g)
      BY <1>1 DEF SockInv
    <3>2. CASE g = e.fd
      BY <1>5, <1>7, <1>8, <2>1, <3>2
    <3>3. CASE g # e.fd
      BY <1>5, <1>7, <2>1, <3>1, <3>3
    <3> QED BY <3>2, <3>3
  <2>5. ASSUME NEW g \in FD, sock'[g] # "none"
        PROVE  (g \in Connected /\ ~Shut(g)) \/ Came(g)
    <3>1. CASE g = e.fd
      BY <2>2, <3>1
    <3>2. CASE g # e.fd
      <4>1. sock[g] # "none"
        BY <1>7, <2>5, <3>2
      <4>2. g \in Connected /\ ~Closing(g)
        BY <1>1, <1>6, <4>1 DEF SockInv
      <4> QED BY <2>1, <4>2
    <3> QED BY <3>1, <3>2
  <2> QED BY <1>5, <2>3, <2>4, <2>5 DEF SockInv
<1>14. AskedInv'
  <2>1. ASSUME run = "on", NEW g \in Connected
        PROVE  \/ flight[g] # NoOp
               \/ \E i \in DOMAIN Pending' : Pending'[i].fd = g /\ Pending'[i].op # "ACCEPT"
    <3>1. flight[g] # NoOp \/ \E i \in DOMAIN Pending : About(i, g)
      BY <1>1, <2>1 DEF AskedInv
    <3>2. CASE \E i \in DOMAIN Pending : About(i, g)
      BY <1>4, <3>2 DEF About
    <3> QED BY <3>1, <3>2
  <2>2. run = "off" => events = <<>>
    BY <1>1 DEF AskedInv
  <2> QED BY <1>3, <1>5, <2>1, <2>2 DEF AskedInv, About
<1> QED BY <1>9, <1>10, <1>11, <1>12, <1>13, <1>14 DEF RingInv

LEMMA KernelAcceptStep ==
    ASSUME RingInv, engine = "uring", NEW p \in Peer, KernelAccept(p)
    PROVE  RingInv'
<1> DEFINE fd == Min({g \in FD : sock[g] = "none"})
<1>1. /\ accept = "kernel" /\ accept' = "none" /\ events' = events /\ engine' = engine
      /\ inq' = inq /\ outq' = outq /\ sent' = sent /\ clients' = clients /\ flight' = flight
      /\ run' = run
      /\ \/ /\ sock' = [sock EXCEPT ![fd] = p]
            /\ cq' = Append(cq, Completion("ACCEPT", fd, p, "OK", <<>>))
         \/ /\ cq' = Append(cq, Completion("ACCEPT", ServerFD, p, "ERROR", <<>>))
            /\ sock' = sock
  BY DEF KernelAccept, serverVars
<1>2. fd \in FD /\ sock[fd] = "none"
  BY <1>1, FreeDescriptor
<1> HIDE DEF fd
<1>3. <<>> \in Seq(Piece)
  BY EmptySeq
<1>4. CASE /\ sock' = [sock EXCEPT ![fd] = p]
           /\ cq' = Append(cq, Completion("ACCEPT", fd, p, "OK", <<>>))
  <2> DEFINE e == Completion("ACCEPT", fd, p, "OK", <<>>)
  <2>1. e \in RingEvent /\ e.op = "ACCEPT" /\ e.res = "OK" /\ e.fd = fd /\ e.peer = p
    BY <1>2, <1>3 DEF Completion, RingEvent
  <2> HIDE DEF e
  <2>2. cq' = Append(cq, e)
    BY <1>4 DEF e
  <2> QED BY <1>1, <1>2, <1>4, <2>1, <2>2, AcceptCompletedStep
<1>5. CASE /\ cq' = Append(cq, Completion("ACCEPT", ServerFD, p, "ERROR", <<>>))
           /\ sock' = sock
  <2> DEFINE e == Completion("ACCEPT", ServerFD, p, "ERROR", <<>>)
  <2>1. e \in RingEvent /\ e.op = "ACCEPT" /\ e.res = "ERROR" /\ e.fd = ServerFD
    BY <1>3 DEF Completion, RingEvent
  <2> HIDE DEF e
  <2>2. cq' = Append(cq, e)
    BY <1>5 DEF e
  <2> QED BY <1>1, <1>5, <2>1, <2>2, AcceptCompletedStep
<1> QED BY <1>1, <1>4, <1>5

(* The handler of a read or a write changes the client it is about and asks for *)
(* its next operation, o; after a SHUTDOWN it asks for none.                  *)
LEMMA HandledStep ==
    ASSUME RingInv, engine = "uring", NEW fd, fd = Head(events).fd,
           Head(events).op \in {"READ", "WRITE"},
           events # <<>>, events' = Tail(events), cq' = cq, accept' = accept, engine' = engine,
           NEW c \in RingClient, Replaced(fd, c), c.peer = clients[fd].peer,
           NEW o \in Operation, flight' = [flight EXCEPT ![fd] = o],
           o # NoOp => Holds(o.op, c), o = NoOp => run' # "on",
           run' = run \/ run' = "stopping",
           sock' = sock, inq' = inq, outq' = outq, sent' = sent
    PROVE  RingInv'
<1>1. RingTypes /\ FlightInv /\ PendingInv /\ AcceptInv /\ SockInv /\ AskedInv
  BY RingParts
<1>2. /\ cq' \in Seq(RingEvent) /\ events' \in Seq(RingEvent)
      /\ 1 \in DOMAIN Pending /\ Pending[1] = Head(events)
      /\ \A i \in DOMAIN Pending' : i + 1 \in DOMAIN Pending /\ Pending'[i] = Pending[i + 1]
      /\ \A i \in DOMAIN Pending : i # 1 =>
           i - 1 \in DOMAIN Pending' /\ Pending'[i - 1] = Pending[i]
  BY <1>1, PendingTaken
<1>3. /\ \A i \in DOMAIN Pending' : i \in Nat /\ i + 1 # 1
      /\ \A i, j \in DOMAIN Pending' : i + 1 = j + 1 => i = j
      /\ \A i \in DOMAIN Pending' : \A j \in DOMAIN Pending : j < i + 1 => j - 1 < i
  <2>1. DOMAIN Pending' = 1 .. Len(Pending) - 1 /\ DOMAIN Pending = 1 .. Len(Pending)
        /\ Len(Pending) \in Nat
    BY <1>1, PendingTaken
  <2> HIDE DEF Pending
  <2>2. \A i \in DOMAIN Pending' : i \in Nat /\ i >= 1
    BY <2>1
  <2>3. \A i \in DOMAIN Pending : i \in Nat /\ i >= 1
    BY <2>1
  <2> QED BY <2>2, <2>3
<1>4. fd \in Connected /\ \A j \in DOMAIN Pending : About(j, fd) => j = 1
  BY <1>1, <1>2 DEF PendingInv
<1>5. fd \in FD /\ Connected \subseteq FD
  BY <1>4 DEF Connected
<1>6. /\ Connected' = Connected
      /\ clients'[fd] = c /\ \A g \in FD : g # fd => clients'[g] = clients[g]
      /\ clients' \in [FD -> RingClient \cup {NoClient}]
  <2>1. Connected \cup {fd} = Connected
    BY <1>4
  <2> QED BY <1>1, <1>5, <2>1, RingClientSet
<1>7. \A i \in DOMAIN Pending' : ~(Pending'[i].fd = fd /\ Pending'[i].op # "ACCEPT")
  BY <1>2, <1>3, <1>4 DEF About
<1>8. flight'[fd] = o /\ \A g \in FD : g # fd => flight'[g] = flight[g]
  BY <1>1, <1>5 DEF RingTypes
<1>9. RingTypes'
  <2>1. flight' \in [FD -> Operation]
    BY <1>1 DEF RingTypes
  <2> QED BY <1>1, <1>2, <1>6, <2>1 DEF RingTypes
<1>10. FlightInv'
  <2> SUFFICES ASSUME NEW g \in FD, flight'[g] # NoOp
               PROVE  /\ g \in Connected' /\ Holds(flight'[g].op, clients'[g])
                      /\ \A i \in DOMAIN Pending' : ~About(i, g)'
    BY DEF FlightInv
  <2>1. CASE g = fd
    BY <1>4, <1>6, <1>7, <1>8, <2>1 DEF About
  <2>2. CASE g # fd
    <3>1. /\ g \in Connected /\ Holds(flight[g].op, clients[g])
          /\ \A i \in DOMAIN Pending : ~(Pending[i].fd = g /\ Pending[i].op # "ACCEPT")
      BY <1>1, <1>8, <2>2 DEF FlightInv, About
    <3>2. \A i \in DOMAIN Pending' : ~(Pending'[i].fd = g /\ Pending'[i].op # "ACCEPT")
      BY <1>2, <3>1
    <3> QED BY <1>6, <1>8, <2>2, <3>1, <3>2 DEF About
  <2> QED BY <2>1, <2>2
<1>11. PendingInv'
  <2> SUFFICES ASSUME NEW i \in DOMAIN Pending', Pending'[i].op # "ACCEPT"
               PROVE  /\ Pending'[i].fd \in Connected'
                      /\ clients'[Pending'[i].fd].peer = Pending'[i].peer
                      /\ Holds(Pending'[i].op, clients'[Pending'[i].fd])
                      /\ Pending'[i].op = "READ" =>
                           AllOf(Pending'[i].data, "ask", Pending'[i].peer)
                      /\ \A j \in DOMAIN Pending' :
                           Pending'[j].fd = Pending'[i].fd /\ Pending'[j].op # "ACCEPT" => j = i
    BY DEF PendingInv, About
  <2>1. i + 1 \in DOMAIN Pending /\ Pending'[i] = Pending[i + 1] /\ Pending'[i].fd # fd
    BY <1>2, <1>7
  <2>2. /\ Pending'[i].fd \in Connected
        /\ clients[Pending'[i].fd].peer = Pending'[i].peer
        /\ Holds(Pending'[i].op, clients[Pending'[i].fd])
        /\ Pending'[i].op = "READ" => AllOf(Pending'[i].data, "ask", Pending'[i].peer)
        /\ \A j \in DOMAIN Pending :
             Pending[j].fd = Pending'[i].fd /\ Pending[j].op # "ACCEPT" => j = i + 1
    BY <1>1, <2>1 DEF PendingInv, About
  <2>3. \A j \in DOMAIN Pending' :
          Pending'[j].fd = Pending'[i].fd /\ Pending'[j].op # "ACCEPT" => j = i
    BY <1>2, <1>3, <2>2
  <2>4. clients'[Pending'[i].fd] = clients[Pending'[i].fd]
    BY <1>5, <1>6, <2>1, <2>2
  <2> QED BY <1>6, <2>2, <2>3, <2>4
<1>12. AcceptInv'
  <2> SUFFICES ASSUME NEW i \in DOMAIN Pending', Pending'[i].op = "ACCEPT"
               PROVE  /\ accept # "kernel"
                      /\ \A j \in DOMAIN Pending' : Pending'[j].op = "ACCEPT" => j = i
                      /\ Pending'[i].res # "OK" => Pending'[i].fd = ServerFD
                      /\ Pending'[i].res = "OK" =>
                           /\ Pending'[i].fd \in FD /\ sock[Pending'[i].fd] = Pending'[i].peer
                           /\ Pending'[i].fd \in Connected =>
                                \E j \in DOMAIN Pending' :
                                  /\ j < i /\ Pending'[j].fd = Pending'[i].fd
                                  /\ Pending'[j].op # "ACCEPT" /\ Pending'[j].op = "CLOSE"
    BY <1>6 DEF AcceptInv, About
  <2>1. i + 1 \in DOMAIN Pending /\ Pending'[i] = Pending[i + 1]
    BY <1>2
  <2>2. /\ accept # "kernel"
        /\ \A j \in DOMAIN Pending : Pending[j].op = "ACCEPT" => j = i + 1
        /\ Pending'[i].res # "OK" => Pending'[i].fd = ServerFD
        /\ Pending'[i].res = "OK" =>
             /\ Pending'[i].fd \in FD /\ sock[Pending'[i].fd] = Pending'[i].peer
             /\ Pending'[i].fd \in Connected =>
                  \E j \in DOMAIN Pending :
                    j < i + 1 /\ About(j, Pending'[i].fd) /\ Pending[j].op = "CLOSE"
    BY <1>1, <2>1 DEF AcceptInv
  <2>3. \A j \in DOMAIN Pending' : Pending'[j].op = "ACCEPT" => j = i
    BY <1>2, <1>3, <2>2
  <2>4. ASSUME NEW j \in DOMAIN Pending, j < i + 1, About(j, Pending'[i].fd),
               Pending[j].op = "CLOSE"
        PROVE  \E k \in DOMAIN Pending' : /\ k < i /\ Pending'[k].fd = Pending'[i].fd
                                          /\ Pending'[k].op # "ACCEPT" /\ Pending'[k].op = "CLOSE"
    <3>1. j # 1
      BY <1>2, <2>4
    <3>2. j - 1 \in DOMAIN Pending' /\ Pending'[j - 1] = Pending[j] /\ j - 1 < i
      BY <1>2, <1>3, <2>4, <3>1
    <3> QED BY <2>4, <3>2 DEF About
  <2> QED BY <2>2, <2>3, <2>4
<1>13. SockInv'
  <2> DEFINE Shut(g) == \E i \in DOMAIN Pending' : Pending'[i].fd = g /\ Pending'[i].op = "CLOSE"
             Came(g) == \E i \in DOMAIN Pending' : /\ Pending'[i].op = "ACCEPT"
                                                  /\ Pending'[i].res = "OK" /\ Pending'[i].fd = g
  <2>1. ASSUME NEW g \in FD
        PROVE  Shut(g) <=> Closing(g)
    <3>1. ASSUME NEW i \in DOMAIN Pending, About(i, g), Pending[i].op = "CLOSE"
          PROVE  Shut(g)
      <4>1. i # 1
        BY <1>2, <3>1
      <4>2. i - 1 \in DOMAIN Pending' /\ Pending'[i - 1] = Pending[i]
        BY <1>2, <4>1
      <4> QED BY <3>1, <4>2 DEF About
    <3>2. ASSUME NEW i \in DOMAIN Pending', Pending'[i].fd = g, Pending'[i].op = "CLOSE"
          PROVE  Closing(g)
      BY <1>2, <3>2 DEF Closing, About
    <3> HIDE DEF Pending
    <3> QED BY <3>1, <3>2 DEF Closing
  <2>2. ASSUME NEW g \in FD, NEW i \in DOMAIN Pending,
               Pending[i].op = "ACCEPT", Pending[i].res = "OK", Pending[i].fd = g
        PROVE  Came(g)
    <3>1. i # 1
      BY <1>2, <2>2
    <3>2. i - 1 \in DOMAIN Pending' /\ Pending'[i - 1] = Pending[i]
      BY <1>2, <3>1
    <3> QED BY <2>2, <3>2
  <2>3. /\ \A g \in Connected : Shut(g) => Closing(g)'
        /\ \A g \in FD : Closing(g)' => Shut(g)
    BY DEF Closing, About
  <2> HIDE DEF Shut, Came
  <2>4. ASSUME NEW g \in Connected
        PROVE  sock[g] = clients'[g].peer \/ Shut(g)
    <3>1. sock[g] = clients[g].peer \/ Closing(g)
      BY <1>1 DEF SockInv
    <3>2. clients'[g].peer = clients[g].peer
      BY <1>5, <1>6
    <3> QED BY <1>5, <2>1, <3>1, <3>2
  <2>5. ASSUME NEW g \in FD, sock[g] # "none"
        PROVE  (g \in Connected /\ ~Shut(g)) \/ Came(g)
    <3>1. CASE g \in Connected /\ ~Closing(g)
      BY <2>1, <3>1
    <3>2. CASE ~(g \in Connected /\ ~Closing(g))
      <4>1. PICK i \in DOMAIN Pending :
              Pending[i].op = "ACCEPT" /\ Pending[i].res = "OK" /\ Pending[i].fd = g
        BY <1>1, <2>5, <3>2 DEF SockInv
      <4> QED BY <2>2, <4>1
    <3> QED BY <3>1, <3>2
  <2> QED BY <1>6, <2>3, <2>4, <2>5 DEF SockInv, Came
<1>14. AskedInv'
  <2>1. ASSUME run' = "on", NEW g \in Connected
        PROVE  \/ flight'[g] # NoOp
               \/ \E i \in DOMAIN Pending' : Pending'[i].fd = g /\ Pending'[i].op # "ACCEPT"
    <3>1. flight[g] # NoOp \/ \E i \in DOMAIN Pending : About(i, g)
      BY <1>1, <2>1 DEF AskedInv
    <3>2. CASE g = fd
      BY <1>8, <2>1, <3>2
    <3>3. CASE g # fd /\ flight[g] # NoOp
      BY <1>5, <1>8, <3>3
    <3>4. ASSUME g # fd, NEW i \in DOMAIN Pending, About(i, g)
          PROVE  \E k \in DOMAIN Pending' : Pending'[k].fd = g /\ Pending'[k].op # "ACCEPT"
      <4>1. i # 1
        BY <1>2, <3>4 DEF About
      <4>2. i - 1 \in DOMAIN Pending' /\ Pending'[i - 1] = Pending[i]
        BY <1>2, <4>1
      <4> QED BY <3>4, <4>2 DEF About
    <3> QED BY <3>1, <3>2, <3>3, <3>4
  <2>2. run # "off" /\ run' # "off" /\ (accept = "none" <=> \E i \in DOMAIN cq : cq[i].op = "ACCEPT")
    BY <1>1 DEF AskedInv
  <2> QED BY <1>6, <2>1, <2>2 DEF AskedInv, About
<1> QED BY <1>9, <1>10, <1>11, <1>12, <1>13, <1>14 DEF RingInv

(* done_Close_: the client goes; if its descriptor was accepted again meanwhile, *)
(* that is still to be handled.                                              *)
LEMMA RemovedStep ==
    ASSUME RingInv, engine = "uring", NEW fd, fd = Head(events).fd,
           Head(events).op = "CLOSE",
           events # <<>>, events' = Tail(events), cq' = cq, accept' = accept, engine' = engine,
           Replaced(fd, NoClient), flight' = flight, run' = run,
           sock' = sock, inq' = inq, outq' = outq, sent' = sent
    PROVE  RingInv'
<1>1. RingTypes /\ FlightInv /\ PendingInv /\ AcceptInv /\ SockInv /\ AskedInv
  BY RingParts
<1>2. /\ cq' \in Seq(RingEvent) /\ events' \in Seq(RingEvent)
      /\ 1 \in DOMAIN Pending /\ Pending[1] = Head(events)
      /\ \A i \in DOMAIN Pending' : i + 1 \in DOMAIN Pending /\ Pending'[i] = Pending[i + 1]
      /\ \A i \in DOMAIN Pending : i # 1 =>
           i - 1 \in DOMAIN Pending' /\ Pending'[i - 1] = Pending[i]
  BY <1>1, PendingTaken
<1>3. /\ \A i \in DOMAIN Pending' : i \in Nat /\ i + 1 # 1
      /\ \A i, j \in DOMAIN Pending' : i + 1 = j + 1 => i = j
      /\ \A i \in DOMAIN Pending' : \A j \in DOMAIN Pending : j < i + 1 => j - 1 < i
  <2>1. DOMAIN Pending' = 1 .. Len(Pending) - 1 /\ DOMAIN Pending = 1 .. Len(Pending)
        /\ Len(Pending) \in Nat
    BY <1>1, PendingTaken
  <2> HIDE DEF Pending
  <2>2. \A i \in DOMAIN Pending' : i \in Nat /\ i >= 1
    BY <2>1
  <2>3. \A i \in DOMAIN Pending : i \in Nat /\ i >= 1
    BY <2>1
  <2> QED BY <2>2, <2>3
<1>4. fd \in Connected /\ \A j \in DOMAIN Pending : About(j, fd) => j = 1
  BY <1>1, <1>2 DEF PendingInv
<1>5. fd \in FD /\ Connected \subseteq FD
  BY <1>4 DEF Connected
<1>6. /\ Connected' = Connected \ {fd}
      /\ \A g \in FD : g # fd => clients'[g] = clients[g]
      /\ clients' \in [FD -> RingClient \cup {NoClient}]
  BY <1>1, <1>4, <1>5, RingClientRemoved
<1>7. \A i \in DOMAIN Pending' : ~(Pending'[i].fd = fd /\ Pending'[i].op # "ACCEPT")
  BY <1>2, <1>3, <1>4 DEF About
<1>8. Closing(fd) /\ flight[fd] = NoOp
  BY <1>1, <1>2, <1>5 DEF Closing, About, FlightInv
<1>9. RingTypes'
  <2>1. Cardinality(Connected') <= MaxClients
    <3>1. Cardinality(Connected') <= Cardinality(Connected) /\ Cardinality(Connected') \in Nat
      BY <1>1, <1>6, RingConnected, FS_Subset, FS_CardinalityType
    <3>2. Cardinality(Connected) \in Nat /\ Cardinality(Connected) <= MaxClients
      BY <1>1, RingConnected DEF RingTypes
    <3>3. MaxClients \in Nat
      BY LoopAssumption
    <3> QED BY <3>1, <3>2, <3>3
  <2> QED BY <1>1, <1>2, <1>6, <2>1 DEF RingTypes
<1>10. FlightInv'
  <2> SUFFICES ASSUME NEW g \in FD, flight[g] # NoOp
               PROVE  /\ g \in Connected' /\ Holds(flight'[g].op, clients'[g])
                      /\ \A i \in DOMAIN Pending' : ~About(i, g)'
    BY DEF FlightInv
  <2>1. /\ g \in Connected /\ g # fd /\ Holds(flight[g].op, clients[g])
        /\ \A i \in DOMAIN Pending : ~(Pending[i].fd = g /\ Pending[i].op # "ACCEPT")
    BY <1>1, <1>8 DEF FlightInv, About
  <2>2. \A i \in DOMAIN Pending' : ~(Pending'[i].fd = g /\ Pending'[i].op # "ACCEPT")
    BY <1>2, <2>1
  <2> QED BY <1>6, <2>1, <2>2 DEF About
<1>11. PendingInv'
  <2> SUFFICES ASSUME NEW i \in DOMAIN Pending', Pending'[i].op # "ACCEPT"
               PROVE  /\ Pending'[i].fd \in Connected'
                      /\ clients'[Pending'[i].fd].peer = Pending'[i].peer
                      /\ Holds(Pending'[i].op, clients'[Pending'[i].fd])
                      /\ Pending'[i].op = "READ" =>
                           AllOf(Pending'[i].data, "ask", Pending'[i].peer)
                      /\ \A j \in DOMAIN Pending' :
                           Pending'[j].fd = Pending'[i].fd /\ Pending'[j].op # "ACCEPT" => j = i
    BY DEF PendingInv, About
  <2>1. i + 1 \in DOMAIN Pending /\ Pending'[i] = Pending[i + 1] /\ Pending'[i].fd # fd
    BY <1>2, <1>7
  <2>2. /\ Pending'[i].fd \in Connected
        /\ clients[Pending'[i].fd].peer = Pending'[i].peer
        /\ Holds(Pending'[i].op, clients[Pending'[i].fd])
        /\ Pending'[i].op = "READ" => AllOf(Pending'[i].data, "ask", Pending'[i].peer)
        /\ \A j \in DOMAIN Pending :
             Pending[j].fd = Pending'[i].fd /\ Pending[j].op # "ACCEPT" => j = i + 1
    BY <1>1, <2>1 DEF PendingInv, About
  <2>3. \A j \in DOMAIN Pending' :
          Pending'[j].fd = Pending'[i].fd /\ Pending'[j].op # "ACCEPT" => j = i
    BY <1>2, <1>3, <2>2
  <2>4. clients'[Pending'[i].fd] = clients[Pending'[i].fd]
    BY <1>5, <1>6, <2>1, <2>2
  <2> QED BY <1>6, <2>1, <2>2, <2>3, <2>4
<1>12. AcceptInv'
  <2> SUFFICES ASSUME NEW i \in DOMAIN Pending', Pending'[i].op = "ACCEPT"
               PROVE  /\ accept # "kernel"
                      /\ \A j \in DOMAIN Pending' : Pending'[j].op = "ACCEPT" => j = i
                      /\ Pending'[i].res # "OK" => Pending'[i].fd = ServerFD
                      /\ Pending'[i].res = "OK" =>
                           /\ Pending'[i].fd \in FD /\ sock[Pending'[i].fd] = Pending'[i].peer
                           /\ Pending'[i].fd \in Connected' =>
                                \E j \in DOMAIN Pending' :
                                  /\ j < i /\ Pending'[j].fd = Pending'[i].fd
                                  /\ Pending'[j].op # "ACCEPT" /\ Pending'[j].op = "CLOSE"
    BY DEF AcceptInv, About
  <2>1. i + 1 \in DOMAIN Pending /\ Pending'[i] = Pending[i + 1]
    BY <1>2
  <2>2. /\ accept # "kernel"
        /\ \A j \in DOMAIN Pending : Pending[j].op = "ACCEPT" => j = i + 1
        /\ Pending'[i].res # "OK" => Pending'[i].fd = ServerFD
        /\ Pending'[i].res = "OK" =>
             /\ Pending'[i].fd \in FD /\ sock[Pending'[i].fd] = Pending'[i].peer
             /\ Pending'[i].fd \in Connected =>
                  \E j \in DOMAIN Pending :
                    j < i + 1 /\ About(j, Pending'[i].fd) /\ Pending[j].op = "CLOSE"
    BY <1>1, <2>1 DEF AcceptInv
  <2>3. \A j \in DOMAIN Pending' : Pending'[j].op = "ACCEPT" => j = i
    BY <1>2, <1>3, <2>2
  <2>4. ASSUME NEW j \in DOMAIN Pending, j < i + 1, About(j, Pending'[i].fd),
               Pending[j].op = "CLOSE", Pending'[i].fd # fd
        PROVE  \E k \in DOMAIN Pending' : /\ k < i /\ Pending'[k].fd = Pending'[i].fd
                                          /\ Pending'[k].op # "ACCEPT" /\ Pending'[k].op = "CLOSE"
    <3>1. j # 1
      BY <1>2, <2>4 DEF About
    <3>2. j - 1 \in DOMAIN Pending' /\ Pending'[j - 1] = Pending[j] /\ j - 1 < i
      BY <1>2, <1>3, <2>4, <3>1
    <3> QED BY <2>4, <3>2 DEF About
  <2> QED BY <1>6, <2>2, <2>3, <2>4
<1>13. SockInv'
  <2> DEFINE Shut(g) == \E i \in DOMAIN Pending' : Pending'[i].fd = g /\ Pending'[i].op = "CLOSE"
             Came(g) == \E i \in DOMAIN Pending' : /\ Pending'[i].op = "ACCEPT"
                                                  /\ Pending'[i].res = "OK" /\ Pending'[i].fd = g
  <2>1. ASSUME NEW g \in FD, g # fd
        PROVE  Shut(g) <=> Closing(g)
    <3>1. ASSUME NEW i \in DOMAIN Pending, About(i, g), Pending[i].op = "CLOSE"
          PROVE  Shut(g)
      <4>1. i # 1
        BY <1>2, <2>1, <3>1 DEF About
      <4>2. i - 1 \in DOMAIN Pending' /\ Pending'[i - 1] = Pending[i]
        BY <1>2, <4>1
      <4> QED BY <3>1, <4>2 DEF About
    <3>2. ASSUME NEW i \in DOMAIN Pending', Pending'[i].fd = g, Pending'[i].op = "CLOSE"
          PROVE  Closing(g)
      BY <1>2, <3>2 DEF Closing, About
    <3> HIDE DEF Pending
    <3> QED BY <3>1, <3>2 DEF Closing
  <2>2. ASSUME NEW g \in FD, NEW i \in DOMAIN Pending,
               Pending[i].op = "ACCEPT", Pending[i].res = "OK", Pending[i].fd = g
        PROVE  Came(g)
    <3>1. i # 1
      BY <1>2, <2>2
    <3>2. i - 1 \in DOMAIN Pending' /\ Pending'[i - 1] = Pending[i]
      BY <1>2, <3>1
    <3> QED BY <2>2, <3>2
  <2>3. /\ \A g \in Connected' : Shut(g) => Closing(g)'
        /\ \A g \in FD : Closing(g)' => Shut(g)
    BY DEF Closing, About
  <2> HIDE DEF Shut, Came
  <2>4. ASSUME NEW g \in Connected'
        PROVE  sock[g] = clients'[g].peer \/ Shut(g)
    <3>1. g \in Connected /\ g \in FD /\ g # fd
      BY <1>5, <1>6
    <3>2. sock[g] = clients[g].peer \/ Closing(g)
      BY <1>1, <3>1 DEF SockInv
    <3> QED BY <1>6, <2>1, <3>1, <3>2
  <2>5. ASSUME NEW g \in FD, sock[g] # "none"
        PROVE  (g \in Connected' /\ ~Shut(g)) \/ Came(g)
    <3>1. CASE g \in Connected /\ ~Closing(g)
      BY <1>6, <1>8, <2>1, <3>1
    <3>2. CASE ~(g \in Connected /\ ~Closing(g))
      <4>1. PICK i \in DOMAIN Pending :
              Pending[i].op = "ACCEPT" /\ Pending[i].res = "OK" /\ Pending[i].fd = g
        BY <1>1, <2>5, <3>2 DEF SockInv
      <4> QED BY <2>2, <4>1
    <3> QED BY <3>1, <3>2
  <2> QED BY <2>3, <2>4, <2>5 DEF SockInv, Came
<1>14. AskedInv'
  <2>1. ASSUME run = "on", NEW g \in Connected'
        PROVE  \/ flight[g] # NoOp
               \/ \E i \in DOMAIN Pending' : Pending'[i].fd = g /\ Pending'[i].op # "ACCEPT"
    <3>1. g \in Connected /\ g # fd
      BY <1>6
    <3>2. flight[g] # NoOp \/ \E i \in DOMAIN Pending : About(i, g)
      BY <1>1, <2>1, <3>1 DEF AskedInv
    <3>3. ASSUME NEW i \in DOMAIN Pending, About(i, g)
          PROVE  \E k \in DOMAIN Pending' : Pending'[k].fd = g /\ Pending'[k].op # "ACCEPT"
      <4>1. i # 1
        BY <1>2, <3>1, <3>3 DEF About
      <4>2. i - 1 \in DOMAIN Pending' /\ Pending'[i - 1] = Pending[i]
        BY <1>2, <4>1
      <4> QED BY <3>3, <4>2 DEF About
    <3> QED BY <3>2, <3>3
  <2>2. run # "off" /\ (accept = "none" <=> \E i \in DOMAIN cq : cq[i].op = "ACCEPT")
    BY <1>1 DEF AskedInv
  <2> QED BY <2>1, <2>2 DEF AskedInv, About
<1> QED BY <1>9, <1>10, <1>11, <1>12, <1>13, <1>14 DEF RingInv

(* The loop turns to an accept: it is the only one, and its descriptor is      *)
(* nobody's.                                                                  *)
LEMMA AcceptTaken ==
    ASSUME RingInv, engine = "uring", Head(events).op = "ACCEPT",
           events # <<>>, events' = Tail(events), cq' = cq
    PROVE  /\ \A i \in DOMAIN Pending' : Pending'[i].op # "ACCEPT"
           /\ Head(events).fd \notin Connected /\ Head(events).peer \in Peer
           /\ \/ Head(events).res # "OK" /\ Head(events).fd \notin FD
              \/ /\ Head(events).res = "OK" /\ Head(events).fd \in FD
                 /\ sock[Head(events).fd] = Head(events).peer
           /\ \A g : g # Head(events).fd => \A i \in DOMAIN Pending :
                ~(Pending[i].op = "ACCEPT" /\ Pending[i].fd = g)
           /\ \A i \in DOMAIN Pending : ~About(i, Head(events).fd)
<1> DEFINE e == Head(events)
<1>1. RingTypes /\ AcceptInv /\ PendingInv
  BY RingParts
<1>2. /\ 1 \in DOMAIN Pending /\ Pending[1] = e /\ e \in RingEvent
      /\ \A i \in DOMAIN Pending' : i + 1 \in DOMAIN Pending /\ Pending'[i] = Pending[i + 1]
  BY <1>1, PendingTaken, PendingTypes
<1>3. /\ \A i \in DOMAIN Pending' : i + 1 # 1
      /\ \A i \in DOMAIN Pending : ~(i < 1)
  <2>1. DOMAIN Pending' = 1 .. Len(Pending) - 1 /\ DOMAIN Pending = 1 .. Len(Pending)
        /\ Len(Pending) \in Nat
    BY <1>1, PendingTaken
  <2> HIDE DEF Pending
  <2> QED BY <2>1
<1> HIDE DEF e
<1>4. /\ \A j \in DOMAIN Pending : Pending[j].op = "ACCEPT" => j = 1
      /\ e.res # "OK" => e.fd = ServerFD
      /\ e.res = "OK" => /\ e.fd \in FD /\ sock[e.fd] = e.peer
                         /\ e.fd \in Connected => \E j \in DOMAIN Pending : j < 1
  <2>1. Pending[1].op = "ACCEPT"
    BY <1>2 DEF e
  <2> QED BY <1>1, <1>2, <2>1 DEF AcceptInv
<1>5. Connected \subseteq FD /\ ServerFD \notin FD
  BY DEF Connected, ServerFD, FD
<1>6. e.fd \notin Connected
  BY <1>3, <1>4, <1>5
<1>7. \A i \in DOMAIN Pending' : Pending'[i].op # "ACCEPT"
  BY <1>2, <1>3, <1>4
<1>8. \A g : g # e.fd => \A i \in DOMAIN Pending : ~(Pending[i].op = "ACCEPT" /\ Pending[i].fd = g)
  BY <1>2, <1>4
<1>9. \A i \in DOMAIN Pending : ~About(i, e.fd)
  BY <1>1, <1>6 DEF PendingInv, About
<1>10. e.peer \in Peer
  BY <1>2 DEF RingEvent
<1> QED BY <1>4, <1>5, <1>6, <1>7, <1>8, <1>9, <1>10 DEF e

(* done_Accept_ adds a client and asks for its first read, or drops the        *)
(* connection; after an error there is none.                                  *)
LEMMA AcceptedOneStep ==
    ASSUME RingInv, engine = "uring", NEW fd, fd = Head(events).fd,
           Head(events).op = "ACCEPT",
           events # <<>>, events' = Tail(events), cq' = cq, accept' = accept, engine' = engine,
           run' = run, inq' \in [Peer -> Seq(Piece)], \A p \in Peer : AllOf(inq'[p], "ask", p),
           outq' = outq, sent' = sent,
           NEW c, NEW o,
           \/ /\ Head(events).res # "OK"
              /\ clients' = clients /\ flight' = flight /\ sock' = sock
           \/ /\ Head(events).res = "OK"
              /\ clients' = clients /\ flight' = flight /\ sock' = [sock EXCEPT ![fd] = "none"]
           \/ /\ Head(events).res = "OK" /\ Cardinality(Connected) < MaxClients
              /\ c \in RingClient /\ c.peer = Head(events).peer /\ Replaced(fd, c)
              /\ o \in Operation /\ o # NoOp /\ Holds(o.op, c)
              /\ flight' = [flight EXCEPT ![fd] = o] /\ sock' = sock
    PROVE  RingInv'
<1>1. RingTypes /\ FlightInv /\ PendingInv /\ AcceptInv /\ SockInv /\ AskedInv
  BY RingParts
<1>2. /\ cq' \in Seq(RingEvent) /\ events' \in Seq(RingEvent)
      /\ 1 \in DOMAIN Pending /\ Pending[1] = Head(events)
      /\ \A i \in DOMAIN Pending' : i + 1 \in DOMAIN Pending /\ Pending'[i] = Pending[i + 1]
      /\ \A i \in DOMAIN Pending : i # 1 =>
           i - 1 \in DOMAIN Pending' /\ Pending'[i - 1] = Pending[i]
  BY <1>1, PendingTaken
<1>3. \A i, j \in DOMAIN Pending' : i + 1 = j + 1 => i = j
  <2>1. DOMAIN Pending' = 1 .. Len(Pending) - 1
    BY <1>1, PendingTaken
  <2> HIDE DEF Pending
  <2> QED BY <2>1
<1>4. /\ \A i \in DOMAIN Pending' : Pending'[i].op # "ACCEPT"
      /\ fd \notin Connected /\ Head(events).peer \in Peer
      /\ Head(events).res # "OK" => fd \notin FD
      /\ Head(events).res = "OK" => fd \in FD /\ sock[fd] = Head(events).peer
      /\ \A g : g # fd => \A i \in DOMAIN Pending : ~(Pending[i].op = "ACCEPT" /\ Pending[i].fd = g)
      /\ \A i \in DOMAIN Pending : ~About(i, fd)
  BY AcceptTaken
<1>5. Connected \subseteq FD /\ Connected' \subseteq FD
  BY DEF Connected
<1>6. /\ Connected' \ {fd} = Connected
      /\ clients' \in [FD -> RingClient \cup {NoClient}]
      /\ flight' \in [FD -> Operation] /\ sock' \in [FD -> Peer \cup {"none"}]
      /\ \A g \in FD : g # fd => /\ clients'[g] = clients[g] /\ flight'[g] = flight[g]
                                 /\ sock'[g] = sock[g]
      /\ \/ fd \notin Connected' /\ (fd \in FD => sock'[fd] = "none" /\ flight'[fd] = NoOp)
         \/ /\ fd \in Connected' /\ clients'[fd] = c /\ c.peer = sock'[fd]
            /\ flight'[fd] # NoOp /\ Holds(flight'[fd].op, c)
            /\ Connected' = Connected \cup {fd} /\ Cardinality(Connected) < MaxClients
  <2>0. /\ clients \in [FD -> RingClient \cup {NoClient}]
        /\ flight \in [FD -> Operation] /\ sock \in [FD -> Peer \cup {"none"}]
        /\ fd \in FD => flight[fd] = NoOp
    BY <1>1, <1>4 DEF RingTypes, FlightInv
  <2>1. CASE /\ Head(events).res # "OK"
             /\ clients' = clients /\ flight' = flight /\ sock' = sock
    <3>1. Connected' = Connected
      BY <2>1 DEF Connected
    <3> QED BY <1>4, <2>0, <2>1, <3>1
  <2>2. CASE /\ Head(events).res = "OK" /\ clients' = clients /\ flight' = flight
             /\ sock' = [sock EXCEPT ![fd] = "none"]
    <3>1. Connected' = Connected
      BY <2>2 DEF Connected
    <3> QED BY <1>4, <2>0, <2>2, <3>1
  <2>3. CASE /\ Head(events).res = "OK" /\ Cardinality(Connected) < MaxClients
             /\ c \in RingClient /\ c.peer = Head(events).peer /\ Replaced(fd, c)
             /\ o \in Operation /\ o # NoOp /\ Holds(o.op, c)
             /\ flight' = [flight EXCEPT ![fd] = o] /\ sock' = sock
    <3>1. /\ Connected' = Connected \cup {fd} /\ clients'[fd] = c
          /\ \A g \in FD : g # fd => clients'[g] = clients[g]
          /\ clients' \in [FD -> RingClient \cup {NoClient}]
      BY <1>1, <1>4, <2>3, RingClientSet
    <3>2. /\ flight' \in [FD -> Operation] /\ flight'[fd] = o
          /\ \A g \in FD : g # fd => flight'[g] = flight[g]
      BY <1>4, <2>0, <2>3
    <3> QED BY <1>4, <2>0, <2>3, <3>1, <3>2
  <2> QED BY <2>1, <2>2, <2>3
<1>7. \A i \in DOMAIN Pending' : ~(Pending'[i].fd = fd /\ Pending'[i].op # "ACCEPT")
  BY <1>2, <1>4 DEF About
<1>9. RingTypes'
  <2>1. Cardinality(Connected') <= MaxClients
    <3>1. /\ Cardinality(Connected) \in Nat /\ Cardinality(Connected) <= MaxClients
          /\ IsFiniteSet(Connected) /\ MaxClients \in Nat
      BY <1>1, RingConnected, LoopAssumption DEF RingTypes
    <3>2. CASE fd \notin Connected'
      <4>1. Connected' = Connected
        BY <1>6, <3>2
      <4> QED BY <3>1, <4>1
    <3>3. CASE Connected' = Connected \cup {fd} /\ Cardinality(Connected) < MaxClients
      <4>1. Cardinality(Connected') = Cardinality(Connected) + 1
        BY <1>4, <3>1, <3>3, FS_AddElement
      <4> QED BY <3>1, <3>3, <4>1
    <3> QED BY <1>6, <3>2, <3>3
  <2> QED BY <1>1, <1>2, <1>6, <2>1 DEF RingTypes
<1>10. FlightInv'
  <2> SUFFICES ASSUME NEW g \in FD, flight'[g] # NoOp
               PROVE  /\ g \in Connected' /\ Holds(flight'[g].op, clients'[g])
                      /\ \A i \in DOMAIN Pending' : ~About(i, g)'
    BY DEF FlightInv
  <2>1. CASE g = fd
    BY <1>6, <1>7, <2>1 DEF About
  <2>2. CASE g # fd
    <3>1. /\ g \in Connected /\ Holds(flight[g].op, clients[g])
          /\ \A i \in DOMAIN Pending : ~(Pending[i].fd = g /\ Pending[i].op # "ACCEPT")
      BY <1>1, <1>6, <2>2 DEF FlightInv, About
    <3>2. \A i \in DOMAIN Pending' : ~(Pending'[i].fd = g /\ Pending'[i].op # "ACCEPT")
      BY <1>2, <3>1
    <3> QED BY <1>6, <2>2, <3>1, <3>2 DEF About
  <2> QED BY <2>1, <2>2
<1>11. PendingInv'
  <2> SUFFICES ASSUME NEW i \in DOMAIN Pending', Pending'[i].op # "ACCEPT"
               PROVE  /\ Pending'[i].fd \in Connected'
                      /\ clients'[Pending'[i].fd].peer = Pending'[i].peer
                      /\ Holds(Pending'[i].op, clients'[Pending'[i].fd])
                      /\ Pending'[i].op = "READ" =>
                           AllOf(Pending'[i].data, "ask", Pending'[i].peer)
                      /\ \A j \in DOMAIN Pending' :
                           Pending'[j].fd = Pending'[i].fd /\ Pending'[j].op # "ACCEPT" => j = i
    BY DEF PendingInv, About
  <2>1. i + 1 \in DOMAIN Pending /\ Pending'[i] = Pending[i + 1] /\ Pending'[i].fd # fd
    BY <1>2, <1>7
  <2>2. /\ Pending'[i].fd \in Connected
        /\ clients[Pending'[i].fd].peer = Pending'[i].peer
        /\ Holds(Pending'[i].op, clients[Pending'[i].fd])
        /\ Pending'[i].op = "READ" => AllOf(Pending'[i].data, "ask", Pending'[i].peer)
        /\ \A j \in DOMAIN Pending :
             Pending[j].fd = Pending'[i].fd /\ Pending[j].op # "ACCEPT" => j = i + 1
    BY <1>1, <2>1 DEF PendingInv, About
  <2>3. \A j \in DOMAIN Pending' :
          Pending'[j].fd = Pending'[i].fd /\ Pending'[j].op # "ACCEPT" => j = i
    BY <1>2, <1>3, <2>2
  <2>4. clients'[Pending'[i].fd] = clients[Pending'[i].fd]
    BY <1>5, <1>6, <2>1, <2>2
  <2> QED BY <1>6, <2>2, <2>3, <2>4
<1>12. AcceptInv'
  BY <1>4 DEF AcceptInv
<1>13. SockInv'
  <2> DEFINE Shut(g) == \E i \in DOMAIN Pending' : Pending'[i].fd = g /\ Pending'[i].op = "CLOSE"
  <2>1. ASSUME NEW g \in FD
        PROVE  Shut(g) <=> Closing(g)
    <3>1. ASSUME NEW i \in DOMAIN Pending, About(i, g), Pending[i].op = "CLOSE"
          PROVE  Shut(g)
      <4>1. i # 1
        BY <1>2, <3>1
      <4>2. i - 1 \in DOMAIN Pending' /\ Pending'[i - 1] = Pending[i]
        BY <1>2, <4>1
      <4> QED BY <3>1, <4>2 DEF About
    <3>2. ASSUME NEW i \in DOMAIN Pending', Pending'[i].fd = g, Pending'[i].op = "CLOSE"
          PROVE  Closing(g)
      BY <1>2, <3>2 DEF Closing, About
    <3> HIDE DEF Pending
    <3> QED BY <3>1, <3>2 DEF Closing
  <2>2. ~Closing(fd)
    BY <1>4 DEF Closing
  <2>3. /\ \A g \in Connected' : Shut(g) => Closing(g)'
        /\ \A g \in FD : Closing(g)' => Shut(g)
    BY DEF Closing, About
  <2> HIDE DEF Shut
  <2>4. ASSUME NEW g \in Connected'
        PROVE  sock'[g] = clients'[g].peer \/ Shut(g)
    <3>1. CASE g = fd
      BY <1>6, <3>1
    <3>2. CASE g # fd
      <4>1. g \in Connected /\ g \in FD
        BY <1>5, <1>6, <3>2
      <4>2. sock[g] = clients[g].peer \/ Closing(g)
        BY <1>1, <4>1 DEF SockInv
      <4> QED BY <1>6, <2>1, <3>2, <4>1, <4>2
    <3> QED BY <3>1, <3>2
  <2>5. ASSUME NEW g \in FD, sock'[g] # "none"
        PROVE  g \in Connected' /\ ~Shut(g)
    <3>1. CASE g = fd
      BY <1>6, <2>1, <2>2, <2>5, <3>1
    <3>2. CASE g # fd
      <4>1. sock[g] # "none"
        BY <1>6, <2>5, <3>2
      <4>2. g \in Connected /\ ~Closing(g)
        BY <1>1, <1>4, <3>2, <4>1 DEF SockInv
      <4> QED BY <1>6, <2>1, <3>2, <4>2
    <3> QED BY <3>1, <3>2
  <2> QED BY <2>3, <2>4, <2>5 DEF SockInv
<1>14. AskedInv'
  <2>1. ASSUME run = "on", NEW g \in Connected'
        PROVE  \/ flight'[g] # NoOp
               \/ \E i \in DOMAIN Pending' : Pending'[i].fd = g /\ Pending'[i].op # "ACCEPT"
    <3>1. CASE g = fd
      BY <1>6, <3>1
    <3>2. CASE g # fd
      <4>1. g \in Connected /\ g \in FD
        BY <1>5, <1>6, <3>2
      <4>2. flight[g] # NoOp \/ \E i \in DOMAIN Pending : About(i, g)
        BY <1>1, <2>1, <4>1 DEF AskedInv
      <4>3. ASSUME NEW i \in DOMAIN Pending, About(i, g)
            PROVE  \E k \in DOMAIN Pending' : Pending'[k].fd = g /\ Pending'[k].op # "ACCEPT"
        <5>1. i # 1
          BY <1>2, <4>3 DEF About
        <5>2. i - 1 \in DOMAIN Pending' /\ Pending'[i - 1] = Pending[i]
          BY <1>2, <5>1
        <5> QED BY <4>3, <5>2 DEF About
      <4> QED BY <1>6, <3>2, <4>1, <4>2, <4>3
    <3> QED BY <3>1, <3>2
  <2>2. run # "off" /\ (accept = "none" <=> \E i \in DOMAIN cq : cq[i].op = "ACCEPT")
    BY <1>1 DEF AskedInv
  <2> QED BY <2>1, <2>2 DEF AskedInv, About
<1> QED BY <1>9, <1>10, <1>11, <1>12, <1>13, <1>14 DEF RingInv

(* Steps that complete and handle nothing.                                    *)
LEMMA NothingCompletedStep ==
    ASSUME RingInv, engine = "uring", RingTypes',
           clients' = clients, sock' = sock, run' = run, Pending' = Pending,
           \A fd \in FD : /\ flight'[fd] = NoOp <=> flight[fd] = NoOp
                          /\ flight'[fd].op = flight[fd].op,
           (\E i \in DOMAIN Pending : Pending[i].op = "ACCEPT") => accept' # "kernel",
           run # "off" => (accept' = "none" <=> \E i \in DOMAIN cq' : cq'[i].op = "ACCEPT"),
           run = "off" => events' = <<>>
    PROVE  RingInv'
<1>1. RingTypes /\ FlightInv /\ PendingInv /\ AcceptInv /\ SockInv /\ AskedInv
  BY RingParts
<1>2. Connected' = Connected /\ Connected \subseteq FD
  BY DEF Connected
<1>3. FlightInv'
  <2> SUFFICES ASSUME NEW g \in FD, flight'[g] # NoOp
               PROVE  /\ g \in Connected' /\ Holds(flight'[g].op, clients'[g])
                      /\ \A i \in DOMAIN Pending' : ~About(i, g)'
    BY DEF FlightInv
  <2> QED BY <1>1, <1>2 DEF FlightInv, About
<1>4. PendingInv'
  BY <1>1, <1>2 DEF PendingInv, About
<1>5. AcceptInv'
  BY <1>1, <1>2 DEF AcceptInv, About
<1>6. SockInv'
  <2>1. \A g \in FD : Closing(g)' <=> Closing(g)
    BY DEF Closing, About
  <2> QED BY <1>1, <1>2, <2>1 DEF SockInv
<1>7. AskedInv'
  BY <1>1, <1>2 DEF AskedInv, About
<1> QED BY <1>3, <1>4, <1>5, <1>6, <1>7 DEF RingInv

LEMMA SubmitStep ==
    ASSUME RingInv, Submit
    PROVE  RingInv'
<1>1. /\ engine = "uring" /\ events = <<>> /\ run = "on"
      /\ flight' = [fd \in FD |-> IF fd \in Queued THEN [flight[fd] EXCEPT !.at = "kernel"]
                                                   ELSE flight[fd]]
      /\ accept' = IF accept = "sq" THEN "kernel" ELSE accept
      /\ sock' = sock /\ cq' = cq /\ events' = events
      /\ inq' = inq /\ outq' = outq /\ sent' = sent /\ clients' = clients /\ run' = run
  BY DEF Submit, RingBetweenTurns, peerVars, serverVars
<1>2. RingTypes /\ AcceptInv /\ AskedInv
  BY <1>1, RingParts
<1>3. ASSUME NEW fd \in FD
      PROVE  /\ flight'[fd] = NoOp <=> flight[fd] = NoOp
             /\ flight'[fd].op = flight[fd].op /\ flight'[fd] \in Operation
  <2>1. flight[fd] \in Operation
    BY <1>2 DEF RingTypes
  <2>2. CASE fd \in Queued
    <3>1. flight[fd].at = "sq" /\ flight'[fd] = [flight[fd] EXCEPT !.at = "kernel"]
      BY <1>1, <2>2 DEF Queued
    <3>2. flight[fd] \in [op : {"READ", "WRITE", "CLOSE"}, at : {"sq", "kernel"}, room : Int]
      BY <2>1, <3>1 DEF Operation, NoOp
    <3>3. /\ flight'[fd] \in [op : {"READ", "WRITE", "CLOSE"}, at : {"sq", "kernel"}, room : Int]
          /\ flight'[fd].op = flight[fd].op /\ flight'[fd].at = "kernel"
      BY <3>1, <3>2
    <3> QED BY <3>1, <3>3 DEF Operation, NoOp
  <2>3. CASE fd \notin Queued
    BY <1>1, <2>1, <2>3
  <2> QED BY <2>2, <2>3
<1>4. flight' \in [FD -> Operation]
  <2> DEFINE f(fd) == IF fd \in Queued THEN [flight[fd] EXCEPT !.at = "kernel"] ELSE flight[fd]
  <2>1. \A fd \in FD : f(fd) \in Operation
    BY <1>1, <1>3
  <2> HIDE DEF f
  <2>2. flight' = [fd \in FD |-> f(fd)]
    BY <1>1 DEF f
  <2> QED BY <2>1, <2>2
<1>5. Pending' = Pending /\ Connected' = Connected
  BY <1>1 DEF Pending, Connected
<1>6. RingTypes'
  BY <1>1, <1>2, <1>4, <1>5 DEF RingTypes
<1>7. accept = "none" <=> \E i \in DOMAIN cq : cq[i].op = "ACCEPT"
  BY <1>1, <1>2 DEF AskedInv
<1>8. (\E i \in DOMAIN Pending : Pending[i].op = "ACCEPT") => accept = "none"
  <2>1. Pending = cq
    BY <1>1, <1>2, ConcatEmptySeq DEF Pending, RingTypes
  <2> QED BY <1>7, <2>1
<1> QED BY <1>1, <1>3, <1>5, <1>6, <1>7, <1>8, NothingCompletedStep

LEMMA CollectStep ==
    ASSUME RingInv, Collect
    PROVE  RingInv'
<1> DEFINE count == Min({MaxEvents, Len(cq)})
<1>1. /\ engine = "uring" /\ events = <<>> /\ run = "on" /\ cq # <<>>
      /\ Queued = {} /\ accept # "sq"
      /\ events' = SubSeq(cq, 1, count) /\ cq' = SubSeq(cq, count + 1, Len(cq))
      /\ accept' = IF \E i \in 1 .. count : cq[i].op = "ACCEPT" THEN add_accept ELSE accept
      /\ sock' = sock /\ flight' = flight
      /\ inq' = inq /\ outq' = outq /\ sent' = sent /\ clients' = clients /\ run' = run
  BY DEF Collect, RingBetweenTurns, peerVars, serverVars
<1>2. RingTypes /\ FlightInv /\ AcceptInv /\ AskedInv
  BY <1>1, RingParts
<1>3. /\ cq \in Seq(RingEvent) /\ Len(cq) \in Nat /\ Len(cq) >= 1 /\ DOMAIN cq = 1 .. Len(cq)
      /\ \A i \in 1 .. Len(cq) : cq[i] \in RingEvent
  BY <1>1, <1>2, LenProperties, EmptySeq, ElementOfSeq DEF RingTypes
<1>4. count \in Nat /\ 1 <= count /\ count <= Len(cq)
  <2>1. MaxEvents \in Nat /\ MaxEvents >= 1
    BY RingAssumption
  <2>2. \E x \in {MaxEvents, Len(cq)} : \A y \in {MaxEvents, Len(cq)} : x =< y
    <3>1. CASE MaxEvents <= Len(cq)
      BY <1>3, <2>1, <3>1
    <3>2. CASE ~(MaxEvents <= Len(cq))
      BY <1>3, <2>1, <3>2
    <3> QED BY <3>1, <3>2
  <2>3. /\ count \in {MaxEvents, Len(cq)}
        /\ \A y \in {MaxEvents, Len(cq)} : count =< y
    BY <2>2 DEF Min
  <2> QED BY <1>3, <2>1, <2>3
<1> HIDE DEF count
<1>5. /\ events' \in Seq(RingEvent) /\ Len(events') = count
      /\ \A i \in 1 .. count : events'[i] = cq[i]
  <2>1. \A i \in 1 .. count : cq[i] \in RingEvent
    BY <1>3, <1>4
  <2> QED BY <1>1, <1>3, <1>4, <2>1, SubSeqProperties
<1>6. /\ cq' \in Seq(RingEvent) /\ Len(cq') = Len(cq) - count
      /\ \A i \in 1 .. Len(cq) - count : cq'[i] = cq[count + i]
  <2>1. \A i \in count + 1 .. Len(cq) : cq[i] \in RingEvent
    BY <1>3, <1>4
  <2>2. /\ cq' \in Seq(RingEvent)
        /\ Len(cq') = (IF count + 1 <= Len(cq) THEN Len(cq) - (count + 1) + 1 ELSE 0)
        /\ \A i \in 1 .. Len(cq) - (count + 1) + 1 : cq'[i] = cq[(count + 1) + i - 1]
    BY <1>1, <1>3, <1>4, <2>1, SubSeqProperties
  <2>3. Len(cq') = Len(cq) - count
    <3>1. CASE count + 1 <= Len(cq)
      <4>1. Len(cq') = Len(cq) - (count + 1) + 1
        BY <2>2, <3>1
      <4> QED BY <1>3, <1>4, <4>1
    <3>2. CASE ~(count + 1 <= Len(cq))
      <4>1. Len(cq') = 0
        BY <2>2, <3>2
      <4>2. Len(cq) \in Nat
        BY <1>3
      <4>3. Len(cq) - count = 0
        BY <1>4, <3>2, <4>2
      <4> QED BY <4>1, <4>3
    <3> QED BY <3>1, <3>2
  <2>4. ASSUME NEW i \in 1 .. Len(cq) - count PROVE cq'[i] = cq[count + i]
    <3>1. i \in 1 .. Len(cq) - (count + 1) + 1 /\ (count + 1) + i - 1 = count + i
      BY <1>3, <1>4
    <3> QED BY <2>2, <3>1
  <2> QED BY <2>2, <2>3, <2>4
<1>7. Pending = cq
  BY <1>1, <1>2, ConcatEmptySeq DEF Pending, RingTypes
<1>8. Pending' = Pending
  <2>1. Pending' = SubSeq(cq, 1, count) \o SubSeq(cq, count + 1, Len(cq))
    BY <1>1 DEF Pending
  <2>2. SubSeq(cq, 1, Len(cq)) = cq
    BY <1>3, SubSeqFull
  <2>3. 1 \in 1 .. Len(cq) + 1 /\ count \in 1 - 1 .. Len(cq) /\ Len(cq) \in count .. Len(cq)
    BY <1>3, <1>4
  <2>4. SubSeq(cq, 1, count) \o SubSeq(cq, count + 1, Len(cq)) = SubSeq(cq, 1, Len(cq))
    BY <1>3, <2>3, ConcatAdjacentSubSeq
  <2> QED BY <1>7, <2>1, <2>2, <2>4
<1>9. SpaceLeft \in Int /\ SpaceLeft >= 2
  BY <1>2, RoomForRequest
<1>10. add_accept = "sq"
  BY <1>9 DEF add_accept
<1>11. DOMAIN cq' = 1 .. Len(cq) - count
  BY <1>6, LenProperties
<1>12. (\E i \in 1 .. Len(cq) : cq[i].op = "ACCEPT")
         <=> \/ \E i \in 1 .. count : cq[i].op = "ACCEPT"
             \/ \E i \in DOMAIN cq' : cq'[i].op = "ACCEPT"
  <2>1. \A i \in 1 .. Len(cq) : i \in 1 .. count \/ (i - count \in 1 .. Len(cq) - count /\ count + (i - count) = i)
    BY <1>3, <1>4
  <2>2. /\ \A i \in 1 .. count : i \in 1 .. Len(cq)
        /\ \A i \in 1 .. Len(cq) - count : count + i \in 1 .. Len(cq)
    BY <1>3, <1>4
  <2>3. ASSUME NEW i \in 1 .. Len(cq), cq[i].op = "ACCEPT", i \notin 1 .. count
        PROVE  \E k \in DOMAIN cq' : cq'[k].op = "ACCEPT"
    <3>1. i - count \in DOMAIN cq' /\ cq'[i - count] = cq[i]
      BY <1>6, <1>11, <2>1, <2>3
    <3> QED BY <2>3, <3>1
  <2>4. ASSUME NEW i \in DOMAIN cq', cq'[i].op = "ACCEPT"
        PROVE  \E k \in 1 .. Len(cq) : cq[k].op = "ACCEPT"
    BY <1>6, <1>11, <2>2, <2>4
  <2> QED BY <2>2, <2>3, <2>4
<1>13. ASSUME NEW i \in 1 .. count, cq[i].op = "ACCEPT", NEW j \in DOMAIN cq', cq'[j].op = "ACCEPT"
       PROVE  FALSE
  <2>1. /\ i \in DOMAIN Pending /\ Pending[i].op = "ACCEPT"
        /\ count + j \in DOMAIN Pending /\ Pending[count + j].op = "ACCEPT" /\ count + j # i
    BY <1>3, <1>4, <1>6, <1>7, <1>11, <1>13
  <2> QED BY <1>2, <2>1 DEF AcceptInv
<1>14. accept = "none" <=> \E i \in 1 .. Len(cq) : cq[i].op = "ACCEPT"
  BY <1>1, <1>2, <1>3 DEF AskedInv
<1>15. accept' = "none" <=> \E i \in DOMAIN cq' : cq'[i].op = "ACCEPT"
  <2>1. CASE \E i \in 1 .. count : cq[i].op = "ACCEPT"
    BY <1>1, <1>10, <1>13, <2>1
  <2>2. CASE ~\E i \in 1 .. count : cq[i].op = "ACCEPT"
    BY <1>1, <1>12, <1>14, <2>2
  <2> QED BY <2>1, <2>2
<1>16. (\E i \in DOMAIN Pending : Pending[i].op = "ACCEPT") => accept' # "kernel"
  BY <1>1, <1>3, <1>7, <1>10, <1>14
<1>17. Connected' = Connected /\ accept' \in {"sq", "kernel", "none"}
  BY <1>1, <1>2, <1>10 DEF Connected, RingTypes
<1>18. RingTypes'
  BY <1>1, <1>2, <1>5, <1>6, <1>17 DEF RingTypes
<1> QED BY <1>1, <1>8, <1>15, <1>16, <1>18, NothingCompletedStep

LEMMA RingStopStep ==
    ASSUME RingInv, engine = "uring", RingStop
    PROVE  RingInv'
<1>1. /\ events = <<>> /\ events' = events /\ engine' = engine /\ run' = "off"
      /\ inq' = [p \in Peer |-> <<>>] /\ clients' = [fd \in FD |-> NoClient]
      /\ outq' = outq /\ sent' = sent
      /\ sock' = [fd \in FD |-> "none"] /\ flight' = [fd \in FD |-> NoOp]
      /\ accept' = "none" /\ cq' = <<>>
  BY DEF RingStop, RingBetweenTurns, Stop
<1>2. RingTypes
  BY RingParts
<1>3. Connected' = {}
  BY <1>1 DEF Connected
<1>4. <<>> \in Seq(Piece) /\ <<>> \in Seq(RingEvent)
      /\ \A x : x \notin DOMAIN <<>>
  BY EmptySeq
<1>5. Pending' = <<>>
  <2>1. Pending' = <<>> \o <<>>
    BY <1>1 DEF Pending
  <2> QED BY <1>4, <2>1, ConcatEmptySeq
<1>6. RingTypes'
  <2>1. Cardinality(Connected') <= MaxClients
    BY <1>3, FS_EmptySet, LoopAssumption
  <2>2. inq' \in [Peer -> Seq(Piece)] /\ \A p \in Peer : AllOf(inq'[p], "ask", p)
    BY <1>1, <1>4 DEF AllOf
  <2>3. /\ clients' \in [FD -> RingClient \cup {NoClient}]
        /\ sock' \in [FD -> Peer \cup {"none"}] /\ flight' \in [FD -> Operation]
    BY <1>1 DEF Operation
  <2> QED BY <1>1, <1>2, <1>4, <2>1, <2>2, <2>3 DEF RingTypes
<1>7. FlightInv' /\ PendingInv' /\ AcceptInv'
  BY <1>1, <1>4, <1>5 DEF FlightInv, PendingInv, AcceptInv
<1>8. SockInv' /\ AskedInv'
  BY <1>1, <1>3 DEF SockInv, AskedInv
<1> QED BY <1>6, <1>7, <1>8 DEF RingInv

(* A piece more is of the same kind.                                          *)
LEMMA AppendedAllOf ==
    ASSUME NEW in \in Seq(Piece), NEW x \in Piece, NEW kind, NEW p,
           AllOf(in, kind, p), x.kind = kind, x.own = p
    PROVE  Append(in, x) \in Seq(Piece) /\ AllOf(Append(in, x), kind, p)
<1>1. /\ Append(in, x) \in Seq(Piece) /\ Len(Append(in, x)) = Len(in) + 1
      /\ \A i \in 1 .. Len(in) : Append(in, x)[i] = in[i]
      /\ Append(in, x)[Len(in) + 1] = x
  BY AppendProperties
<1>2. /\ DOMAIN Append(in, x) = 1 .. Len(in) + 1 /\ DOMAIN in = 1 .. Len(in)
      /\ Len(in) \in Nat
  BY <1>1, LenProperties
<1>3. \A i \in 1 .. Len(in) + 1 : i \in 1 .. Len(in) \/ i = Len(in) + 1
  BY <1>2
<1> QED BY <1>1, <1>2, <1>3 DEF AllOf

(* Two sequences of pieces of the same kind.                                  *)
LEMMA JoinedAllOf ==
    ASSUME NEW s \in Seq(Piece), NEW t \in Seq(Piece), NEW kind, NEW p,
           AllOf(s, kind, p), AllOf(t, kind, p)
    PROVE  s \o t \in Seq(Piece) /\ AllOf(s \o t, kind, p)
<1> DEFINE m == Len(s)
           n == Len(t)
<1>1. /\ s \o t \in Seq(Piece) /\ Len(s \o t) = m + n
      /\ \A i \in 1 .. m + n : (s \o t)[i] = IF i <= m THEN s[i] ELSE t[i - m]
  BY ConcatProperties
<1>2. m \in Nat /\ n \in Nat /\ DOMAIN s = 1 .. m /\ DOMAIN t = 1 .. n
  BY LenProperties
<1>3. DOMAIN (s \o t) = 1 .. m + n
  BY <1>1, LenProperties
<1> HIDE DEF m, n
<1>4. ASSUME NEW i \in 1 .. m + n
      PROVE  (s \o t)[i].kind = kind /\ (s \o t)[i].own = p
  <2>1. CASE i <= m
    <3>1. i \in DOMAIN s
      BY <1>2, <2>1
    <3> QED BY <1>1, <2>1, <3>1 DEF AllOf
  <2>2. CASE ~(i <= m)
    <3>1. i - m \in DOMAIN t
      BY <1>2, <2>2
    <3> QED BY <1>1, <2>2, <3>1 DEF AllOf
  <2> QED BY <2>1, <2>2
<1> QED BY <1>1, <1>3, <1>4 DEF AllOf

(* Part of a sequence of pieces.                                              *)
LEMMA PartPieces ==
    ASSUME NEW s \in Seq(Piece), NEW a \in Nat, NEW b \in Nat, 1 <= a, b <= Len(s)
    PROVE  /\ SubSeq(s, a, b) \in Seq(Piece)
           /\ \A i \in DOMAIN SubSeq(s, a, b) :
                \E j \in DOMAIN s : SubSeq(s, a, b)[i] = s[j]
           /\ \A kind, p : AllOf(s, kind, p) => AllOf(SubSeq(s, a, b), kind, p)
<1>1. Len(s) \in Nat /\ DOMAIN s = 1 .. Len(s) /\ \A i \in 1 .. Len(s) : s[i] \in Piece
  BY LenProperties, ElementOfSeq
<1>2. \A i \in a .. b : i \in 1 .. Len(s) /\ s[i] \in Piece
  BY <1>1
<1>3. /\ SubSeq(s, a, b) \in Seq(Piece)
      /\ Len(SubSeq(s, a, b)) = (IF a <= b THEN b - a + 1 ELSE 0)
      /\ \A i \in 1 .. b - a + 1 : SubSeq(s, a, b)[i] = s[a + i - 1]
  BY <1>2, SubSeqProperties
<1>4. DOMAIN SubSeq(s, a, b) = 1 .. Len(SubSeq(s, a, b))
  BY <1>3, LenProperties
<1>5. ASSUME NEW i \in DOMAIN SubSeq(s, a, b)
      PROVE  \E j \in DOMAIN s : SubSeq(s, a, b)[i] = s[j]
  <2>1. i \in 1 .. b - a + 1 /\ a + i - 1 \in 1 .. Len(s)
    <3>1. CASE a <= b
      <4>1. Len(SubSeq(s, a, b)) = b - a + 1
        BY <1>3, <3>1
      <4> HIDE DEF SubSeq
      <4> QED BY <1>1, <1>4, <4>1
    <3>2. CASE ~(a <= b)
      <4>1. Len(SubSeq(s, a, b)) = 0
        BY <1>3, <3>2
      <4>2. i \in 1 .. 0
        BY <1>4, <4>1
      <4> QED BY <4>2
    <3> QED BY <3>1, <3>2
  <2> QED BY <1>1, <1>3, <2>1
<1>6. ASSUME NEW kind, NEW p, AllOf(s, kind, p)
      PROVE  AllOf(SubSeq(s, a, b), kind, p)
  BY <1>5, <1>6 DEF AllOf
<1> QED BY <1>3, <1>5, <1>6

(* What peers do is no concern of the completion loop.                        *)
LEMMA RingPeersStep ==
    ASSUME RingInv, engine = "uring", NEW p \in Peer, Peers(p)
    PROVE  RingInv'
<1>1. RingTypes /\ AcceptInv /\ AskedInv
  BY RingParts
<1>2. /\ sock' = sock /\ flight' = flight /\ accept' = accept /\ cq' = cq /\ events' = events
      /\ engine' = engine
      /\ Connect(p) \/ Send(p) \/ Receive(p) \/ Leave(p)
  BY DEF Peers
<1>3. clients' = clients /\ run' = run
  BY <1>2 DEF Connect, Send, Receive, Leave, serverVars
<1>4. /\ inq \in [Peer -> Seq(Piece)] /\ outq \in [Peer -> Seq(Piece)]
      /\ sent \in [Peer -> Piece] /\ \A q \in Peer : AllOf(inq[q], "ask", q)
  BY <1>1 DEF RingTypes
<1>5. /\ inq' \in [Peer -> Seq(Piece)] /\ outq' \in [Peer -> Seq(Piece)]
      /\ sent' \in [Peer -> Piece] /\ \A q \in Peer : AllOf(inq'[q], "ask", q)
  <2>1. CASE Connect(p)
    <3>1. /\ inq' = [inq EXCEPT ![p] = <<>>] /\ outq' = [outq EXCEPT ![p] = <<>>]
          /\ sent' = [sent EXCEPT ![p] = NoPiece(p)]
      BY <2>1 DEF Connect
    <3>2. NoPiece(p) \in Piece
      BY DEF NoPiece, Piece
    <3>3. <<>> \in Seq(Piece) /\ AllOf(<<>>, "ask", p)
      BY EmptySeq DEF AllOf
    <3> QED BY <1>4, <3>1, <3>2, <3>3
  <2>2. CASE Send(p)
    <3> DEFINE old == sent[p]
               part == IF old.end THEN 1 ELSE old.part + 1
               new == [kind |-> "ask", own |-> p, part |-> part, end |-> part = Pieces[p],
                       no |-> IF old.end THEN old.no + 1 ELSE old.no]
    <3>1. /\ sent' = [sent EXCEPT ![p] = new] /\ inq' = [inq EXCEPT ![p] = Append(@, new)]
          /\ outq' = outq
      BY <2>2 DEF Send
    <3>2. new \in Piece /\ new.kind = "ask" /\ new.own = p
      <4>1. old.no \in Nat /\ old.part \in Nat
        BY <1>4 DEF Piece
      <4>2. part \in Nat /\ (part = Pieces[p]) \in BOOLEAN
        BY <4>1
      <4> QED BY <4>1, <4>2 DEF Piece
    <3> HIDE DEF new
    <3>3. Append(inq[p], new) \in Seq(Piece) /\ AllOf(Append(inq[p], new), "ask", p)
      BY <1>4, <3>2, AppendedAllOf
    <3> QED BY <1>4, <3>1, <3>2, <3>3
  <2>3. CASE Receive(p)
    <3>1. /\ outq[p] # <<>> /\ outq' = [outq EXCEPT ![p] = Tail(@)]
          /\ inq' = inq /\ sent' = sent
      BY <2>3 DEF Receive
    <3>2. Tail(outq[p]) \in Seq(Piece)
      BY <1>4, <3>1, HeadTailProperties
    <3> QED BY <1>4, <3>1, <3>2
  <2>4. CASE Leave(p)
    BY <1>4, <2>4 DEF Leave
  <2> QED BY <1>2, <2>1, <2>2, <2>3, <2>4
<1>6. Pending' = Pending /\ Connected' = Connected
  BY <1>2, <1>3 DEF Pending, Connected
<1>7. RingTypes'
  BY <1>1, <1>2, <1>3, <1>5, <1>6 DEF RingTypes
<1>8. /\ (\E i \in DOMAIN Pending : Pending[i].op = "ACCEPT") => accept' # "kernel"
      /\ run # "off" => (accept' = "none" <=> \E i \in DOMAIN cq' : cq'[i].op = "ACCEPT")
      /\ run = "off" => events' = <<>>
  BY <1>1, <1>2 DEF AcceptInv, AskedInv
<1> QED BY <1>2, <1>3, <1>6, <1>7, <1>8, NothingCompletedStep

(* The smaller of two numbers.                                                *)
LEMMA SmallerOfTwo ==
    ASSUME NEW x \in Int, NEW y \in Int
    PROVE  Min({x, y}) \in Int /\ Min({x, y}) <= x /\ Min({x, y}) <= y
<1>1. \E a \in {x, y} : \A b \in {x, y} : a =< b
  <2>1. CASE x <= y
    BY <2>1
  <2>2. CASE ~(x <= y)
    BY <2>2
  <2> QED BY <2>1, <2>2
<1> QED BY <1>1 DEF Min

LEMMA KernelReadStep ==
    ASSUME RingInv, engine = "uring", NEW fd \in FD, KernelRead(fd)
    PROVE  RingInv'
<1> DEFINE p == sock[fd]
<1>1. RingTypes
  BY RingParts
<1>2. /\ flight[fd].op = "READ" /\ flight[fd] # NoOp
      /\ outq' = outq /\ sock' = sock
  BY DEF KernelRead, Carries, NoOp
<1>3. p \in Peer /\ flight[fd].room \in Int
  BY <1>2, FlightFacts
<1>4. /\ inq \in [Peer -> Seq(Piece)] /\ outq \in [Peer -> Seq(Piece)]
      /\ \A q \in Peer : AllOf(inq[q], "ask", q)
  BY <1>1 DEF RingTypes
<1>5. <<>> \in Seq(Piece) /\ AllOf(<<>>, "ask", p)
  BY EmptySeq DEF AllOf
<1>6. CASE Complete(fd, "ERROR", <<>>) /\ UNCHANGED inq
  BY <1>2, <1>4, <1>5, <1>6, CompletedStep
<1>7. CASE Complete(fd, "OK", <<>>) /\ UNCHANGED inq
  BY <1>2, <1>4, <1>5, <1>7, CompletedStep
<1>8. ASSUME NEW n \in 1 .. Min({flight[fd].room, Len(inq[p])}),
             Complete(fd, "OK", SubSeq(inq[p], 1, n)),
             inq' = [inq EXCEPT ![p] = SubSeq(@, n + 1, Len(@))]
      PROVE  RingInv'
  <2>1. Len(inq[p]) \in Nat
    BY <1>3, <1>4, LenProperties
  <2>2. Min({flight[fd].room, Len(inq[p])}) \in Int /\ Min({flight[fd].room, Len(inq[p])}) <= Len(inq[p])
    <3> DEFINE x == flight[fd].room
               y == Len(inq[p])
    <3>1. x \in Int /\ y \in Int
      BY <1>3, <2>1
    <3> HIDE DEF x, y
    <3>2. Min({x, y}) \in Int /\ Min({x, y}) <= y
      BY <3>1, SmallerOfTwo
    <3> QED BY <3>2 DEF x, y
  <2>3. n \in Nat /\ n <= Len(inq[p])
    BY <2>1, <2>2
  <2>4. /\ SubSeq(inq[p], 1, n) \in Seq(Piece) /\ AllOf(SubSeq(inq[p], 1, n), "ask", p)
        /\ SubSeq(inq[p], n + 1, Len(inq[p])) \in Seq(Piece)
        /\ AllOf(SubSeq(inq[p], n + 1, Len(inq[p])), "ask", p)
    <3>1. 1 <= n + 1 /\ n + 1 \in Nat
      BY <2>3
    <3> QED BY <1>3, <1>4, <2>1, <2>3, <3>1, PartPieces
  <2>5. /\ inq' \in [Peer -> Seq(Piece)] /\ \A q \in Peer : AllOf(inq'[q], "ask", q)
    BY <1>3, <1>4, <1>8, <2>4
  <2> QED BY <1>2, <1>4, <1>8, <2>4, <2>5, CompletedStep
<1> QED BY <1>6, <1>7, <1>8 DEF KernelRead

LEMMA KernelWriteStep ==
    ASSUME RingInv, engine = "uring", NEW fd \in FD, KernelWrite(fd)
    PROVE  RingInv'
<1> DEFINE p == sock[fd]
           data == clients[fd].data
<1>1. RingTypes
  BY RingParts
<1>2. /\ flight[fd].op = "WRITE" /\ flight[fd] # NoOp
      /\ inq' = inq /\ sock' = sock
  BY DEF KernelWrite, Carries, NoOp
<1>3. p \in Peer /\ data \in Seq(Piece)
  BY <1>2, FlightFacts DEF RingClient
<1>4. /\ inq \in [Peer -> Seq(Piece)] /\ outq \in [Peer -> Seq(Piece)]
      /\ \A q \in Peer : AllOf(inq[q], "ask", q)
  BY <1>1 DEF RingTypes
<1>5. <<>> \in Seq(Piece)
  BY EmptySeq
<1>6. CASE Complete(fd, "ERROR", <<>>) /\ UNCHANGED <<outq, answered>>
  BY <1>2, <1>4, <1>5, <1>6, CompletedStep
<1>8. ASSUME NEW n \in 1 .. Min({SocketRoom - Len(outq[p]), Len(data)}),
             Complete(fd, "OK", SubSeq(data, 1, n)),
             outq' = [outq EXCEPT ![p] = @ \o SubSeq(data, 1, n)]
      PROVE  RingInv'
  <2>1. Len(outq[p]) \in Nat /\ Len(data) \in Nat /\ SocketRoom \in Nat
    BY <1>3, <1>4, LenProperties, LoopAssumption
  <2>2. /\ Min({SocketRoom - Len(outq[p]), Len(data)}) \in Int
        /\ Min({SocketRoom - Len(outq[p]), Len(data)}) <= Len(data)
    <3> DEFINE x == SocketRoom - Len(outq[p])
               y == Len(data)
    <3>1. x \in Int /\ y \in Int
      BY <2>1
    <3> HIDE DEF x, y
    <3>2. Min({x, y}) \in Int /\ Min({x, y}) <= y
      BY <3>1, SmallerOfTwo
    <3> QED BY <3>2 DEF x, y
  <2>3. n \in Nat /\ n <= Len(data)
    BY <2>1, <2>2
  <2>4. SubSeq(data, 1, n) \in Seq(Piece)
    BY <1>3, <2>3, PartPieces
  <2>5. outq[p] \o SubSeq(data, 1, n) \in Seq(Piece)
    BY <1>3, <1>4, <2>4, ConcatProperties
  <2>6. outq' \in [Peer -> Seq(Piece)]
    BY <1>3, <1>4, <1>8, <2>5
  <2> QED BY <1>2, <1>4, <1>8, <2>4, <2>6, CompletedStep
<1> QED BY <1>6, <1>8 DEF KernelWrite

LEMMA KernelStep ==
    ASSUME RingInv, engine = "uring", NEW fd \in FD, Kernel(fd)
    PROVE  RingInv'
<1>1. RingTypes
  BY RingParts
<1>2. /\ inq \in [Peer -> Seq(Piece)] /\ outq \in [Peer -> Seq(Piece)]
      /\ \A q \in Peer : AllOf(inq[q], "ask", q)
  BY <1>1 DEF RingTypes
<1>3. <<>> \in Seq(Piece) /\ \A p : AllOf(<<>>, "ask", p)
  BY EmptySeq DEF AllOf
<1>4. CASE KernelTimeout(fd)
  <2>1. /\ flight[fd].op \in {"READ", "WRITE"} /\ flight[fd] # NoOp
        /\ Complete(fd, "CANCELED", <<>>) /\ inq' = inq /\ outq' = outq /\ sock' = sock
    BY <1>4 DEF KernelTimeout, NoOp
  <2> QED BY <1>2, <1>3, <2>1, CompletedStep
<1>5. CASE KernelClose(fd)
  <2>1. /\ flight[fd].op = "CLOSE" /\ flight[fd] # NoOp
        /\ Complete(fd, "OK", <<>>) /\ inq' = [inq EXCEPT ![sock[fd]] = <<>>] /\ outq' = outq
        /\ sock' = [sock EXCEPT ![fd] = "none"]
    BY <1>5 DEF KernelClose, Carries, NoOp
  <2>2. inq' \in [Peer -> Seq(Piece)] /\ \A q \in Peer : AllOf(inq'[q], "ask", q)
    BY <1>2, <1>3, <2>1
  <2> QED BY <1>2, <1>3, <2>1, <2>2, CompletedStep
<1> QED BY <1>4, <1>5, KernelReadStep, KernelWriteStep DEF Kernel

(* What allocate finds is a block or none.                                    *)
LEMMA BlockFound ==
    ASSUME NEW f, NEW blk \in {0} \cup Tier, NEW need \in Tier
    PROVE  allocate(f, blk, need) \in {0} \cup Tier
<1> DEFINE found == {t \in need .. Large : f[t] > 0}
<1>1. found \subseteq Tier /\ Tier = {1, 2}
  BY DEF Tier, Small, Large
<1>2. ASSUME found # {} PROVE Min(found) \in found
  <2>1. found \in SUBSET Nat
    BY <1>1
  <2>2. PICK m \in found : \A s \in found : m <= s
    BY <1>2, <2>1, SmallestExists
  <2>3. \E x \in found : \A y \in found : x =< y
    BY <2>2
  <2> QED BY <2>3 DEF Min
<1>3. CASE found = {}
  BY <1>1, <1>3 DEF allocate
<1>4. CASE found # {}
  BY <1>1, <1>2, <1>4 DEF allocate
<1> QED BY <1>3, <1>4

(* A client c of the peer p, with an operation under way on what c holds.      *)
Requested(fd, p) ==
  \E c \in RingClient : \E o \in Operation :
    /\ Replaced(fd, c) /\ c.peer = p
    /\ flight' = [flight EXCEPT ![fd] = o] /\ o # NoOp /\ Holds(o.op, c)

(* req_Read_, req_Write_ and req_Close_ find room in the submission queue.      *)
LEMMA ReadRequested ==
    ASSUME RingInv, engine = "uring", NEW fd, NEW client \in RingClient,
           AllOf(client.data, "ask", client.peer), NEW f, req_Read(fd, client, f)
    PROVE  Requested(fd, client.peer)
<1> DEFINE t == allocate(f, client.blk, TierOf(Len(client.data) + 1))
           c == [client EXCEPT !.blk = IF t = 0 THEN client.blk ELSE t]
           o == [op |-> "READ", at |-> "sq", room |-> Room(t, client.data)]
<1>1. client.peer \in Peer /\ client.data \in Seq(Piece) /\ client.blk \in {0} \cup Tier
  BY DEF RingClient
<1>2. t \in {0} \cup Tier
  <2>1. TierOf(Len(client.data) + 1) \in Tier
    BY DEF TierOf, Tier
  <2> QED BY <1>1, <2>1, BlockFound
<1>3. Room(t, client.data) \in Int
  <2>1. Len(client.data) \in Nat /\ SmallCapacity \in Nat /\ MaxInput \in Nat
    BY <1>1, LenProperties, LoopAssumption, RingAssumption
  <2> HIDE DEF t
  <2> QED BY <1>2, <2>1 DEF Room, Tier, Small, Large
<1>4. clients' = [clients EXCEPT ![fd] = c]
      /\ flight' = add_read(fd, Room(t, client.data))
  BY DEF req_Read
<1>5. c \in RingClient /\ c.peer = client.peer /\ c.data = client.data
  <2> HIDE DEF t
  <2> QED BY <1>2 DEF RingClient
<1> HIDE DEF t
<1>6. o \in Operation /\ o # NoOp /\ o.op = "READ"
  BY <1>3 DEF Operation, NoOp
<1>7. flight' = [flight EXCEPT ![fd] = o]
  <2>1. ~(SpaceLeft < 2)
    BY RingParts, RoomForRequest
  <2> QED BY <1>4, <2>1 DEF add_read
<1>8. Holds("READ", c)
  BY <1>5 DEF Holds, AllOf
<1> HIDE DEF c, o
<1>9. Replaced(fd, c)
  BY <1>4 DEF Replaced, c
<1> QED BY <1>5, <1>6, <1>7, <1>8, <1>9 DEF Requested

LEMMA WriteRequested ==
    ASSUME RingInv, engine = "uring", NEW fd, NEW client \in RingClient,
           AllOf(client.data, "answer", client.peer), client.data # <<>>,
           NEW f, req_Write(fd, client, f)
    PROVE  Requested(fd, client.peer)
<1> DEFINE o == [op |-> "WRITE", at |-> "sq", room |-> 0]
<1>1. Replaced(fd, client) /\ flight' = add_write(fd)
  BY DEF req_Write, Replaced
<1>2. o \in Operation /\ o # NoOp /\ o.op = "WRITE"
  BY DEF Operation, NoOp
<1>3. flight' = [flight EXCEPT ![fd] = o]
  <2>1. ~(SpaceLeft < 2)
    BY RingParts, RoomForRequest
  <2> QED BY <1>1, <2>1 DEF add_write
<1>4. Holds("WRITE", client)
  BY DEF Holds, AllOf
<1> HIDE DEF o
<1> QED BY <1>1, <1>2, <1>3, <1>4 DEF Requested

LEMMA CloseRequested ==
    ASSUME RingInv, engine = "uring", NEW fd, NEW client \in RingClient,
           \A i \in DOMAIN client.data : client.data[i].own = client.peer,
           NEW f, req_Close(fd, client, f)
    PROVE  Requested(fd, client.peer)
<1> DEFINE o == [op |-> "CLOSE", at |-> "sq", room |-> 0]
<1>1. Replaced(fd, client) /\ flight' = add_close(fd)
  BY DEF req_Close, Replaced
<1>2. o \in Operation /\ o # NoOp /\ o.op = "CLOSE"
  BY DEF Operation, NoOp
<1>3. flight' = [flight EXCEPT ![fd] = o]
  <2>1. ~(SpaceLeft < 1)
    BY RingParts, RoomForRequest
  <2> QED BY <1>1, <2>1 DEF add_close
<1>4. Holds("CLOSE", client)
  BY DEF Holds
<1> HIDE DEF o
<1> QED BY <1>1, <1>2, <1>3, <1>4 DEF Requested

(* The handler of a read or a write has asked for the next operation.          *)
LEMMA RequestedStep ==
    ASSUME RingInv, engine = "uring", NEW op \in {"READ", "WRITE"}, Done(op),
           Requested(Head(events).fd, clients[Head(events).fd].peer),
           run' = run, sock' = sock, inq' = inq, outq' = outq, sent' = sent
    PROVE  RingInv'
<1> DEFINE fd == Head(events).fd
<1>1. PICK c \in RingClient : \E o \in Operation :
        /\ Replaced(fd, c) /\ c.peer = clients[fd].peer
        /\ flight' = [flight EXCEPT ![fd] = o] /\ o # NoOp /\ Holds(o.op, c)
  BY DEF Requested
<1>2. PICK o \in Operation :
        /\ Replaced(fd, c) /\ c.peer = clients[fd].peer
        /\ flight' = [flight EXCEPT ![fd] = o] /\ o # NoOp /\ Holds(o.op, c)
  BY <1>1
<1>3. /\ Head(events).op \in {"READ", "WRITE"} /\ events # <<>> /\ events' = Tail(events)
      /\ cq' = cq /\ accept' = accept /\ engine' = engine
  BY DEF Done
<1> QED BY <1>2, <1>3, HandledStep

(* The client a completed operation is about.                                  *)
LEMMA HandledFacts ==
    ASSUME RingInv, engine = "uring", NEW op \in {"READ", "WRITE", "CLOSE"}, Done(op)
    PROVE  LET e == Head(events)
               c == clients[e.fd] IN
           /\ e \in RingEvent /\ e.op = op /\ e.fd \in Connected /\ e.fd \in FD
           /\ c \in RingClient /\ c.peer = e.peer /\ flight[e.fd] = NoOp
           /\ Holds(op, c) /\ (op = "READ" => AllOf(e.data, "ask", e.peer))
<1> DEFINE e == Head(events)
<1>1. RingTypes /\ PendingInv /\ FlightInv
  BY RingParts
<1>2. events # <<>> /\ e.op = op /\ events' = Tail(events) /\ cq' = cq
  BY DEF Done
<1>3. 1 \in DOMAIN Pending /\ Pending[1] = e /\ e \in RingEvent
  BY <1>1, <1>2, PendingTaken, PendingTypes
<1> HIDE DEF e
<1>4. /\ e.fd \in Connected /\ clients[e.fd].peer = e.peer /\ Holds(e.op, clients[e.fd])
      /\ e.op = "READ" => AllOf(e.data, "ask", e.peer)
  BY <1>1, <1>2, <1>3 DEF PendingInv
<1>5. e.fd \in FD /\ clients[e.fd] \in RingClient
  BY <1>1, <1>4, RingConnected
<1>6. flight[e.fd] = NoOp
  BY <1>1, <1>2, <1>3, <1>5 DEF FlightInv, About
<1> QED BY <1>2, <1>3, <1>4, <1>5, <1>6 DEF e

LEMMA DoneWriteStep ==
    ASSUME RingInv, engine = "uring", done_Write
    PROVE  RingInv'
<1> DEFINE e == Head(events)
           c == clients[e.fd]
           rest == SubSeq(c.data, Len(e.data) + 1, Len(c.data))
           popped == [c EXCEPT !.data = rest]
           cleared == [c EXCEPT !.data = <<>>, !.blk = 0]
<1>1. /\ Done("WRITE") /\ run' = run /\ sock' = sock /\ inq' = inq /\ outq' = outq /\ sent' = sent
      /\ \/ e.res # "OK" /\ req_Close(e.fd, c, free)
         \/ e.res = "OK" /\ rest = <<>> /\ req_Read(e.fd, cleared, Exchange(free, c.blk, 0))
         \/ e.res = "OK" /\ rest # <<>> /\ req_Write(e.fd, popped, free)
  BY DEF done_Write
<1>2. /\ e \in RingEvent /\ c \in RingClient /\ Holds("WRITE", c)
  BY <1>1, HandledFacts
<1> HIDE DEF c, e
<1>3. /\ c.data \in Seq(Piece) /\ AllOf(c.data, "answer", c.peer)
      /\ \A i \in DOMAIN c.data : c.data[i].own = c.peer
  BY <1>2 DEF Holds, RingClient
<1>4. e.data \in Seq(Piece) /\ Len(e.data) \in Nat /\ Len(c.data) \in Nat
  BY <1>2, <1>3, LenProperties DEF RingEvent
<1>5. rest \in Seq(Piece) /\ AllOf(rest, "answer", c.peer)
  <2>1. Len(e.data) + 1 \in Nat /\ 1 <= Len(e.data) + 1
    BY <1>4
  <2> QED BY <1>3, <1>4, <2>1, PartPieces
<1>6. <<>> \in Seq(Piece) /\ AllOf(<<>>, "ask", c.peer)
  BY EmptySeq DEF AllOf
<1>7. CASE e.res # "OK" /\ req_Close(e.fd, c, free)
  <2>1. Requested(e.fd, c.peer)
    BY <1>2, <1>3, <1>7, CloseRequested
  <2> QED BY <1>1, <2>1, RequestedStep DEF c, e
<1>8. CASE rest = <<>> /\ req_Read(e.fd, cleared, Exchange(free, c.blk, 0))
  <2>1. cleared \in RingClient /\ cleared.peer = c.peer /\ AllOf(cleared.data, "ask", cleared.peer)
    BY <1>2, <1>6 DEF RingClient
  <2> HIDE DEF cleared
  <2>2. Requested(e.fd, c.peer)
    BY <1>8, <2>1, ReadRequested
  <2> QED BY <1>1, <2>2, RequestedStep DEF c, e
<1>9. CASE rest # <<>> /\ req_Write(e.fd, popped, free)
  <2>1. /\ popped \in RingClient /\ popped.peer = c.peer /\ popped.data # <<>>
        /\ AllOf(popped.data, "answer", popped.peer)
    <3> HIDE DEF rest
    <3> QED BY <1>2, <1>5, <1>9 DEF RingClient
  <2> HIDE DEF popped
  <2>2. Requested(e.fd, c.peer)
    BY <1>9, <2>1, WriteRequested
  <2> QED BY <1>1, <2>2, RequestedStep DEF c, e
<1> QED BY <1>1, <1>7, <1>8, <1>9

LEMMA DoneCloseStep ==
    ASSUME RingInv, engine = "uring", done_Close
    PROVE  RingInv'
<1> DEFINE fd == Head(events).fd
<1>1. /\ events # <<>> /\ Head(events).op = "CLOSE" /\ events' = Tail(events)
      /\ cq' = cq /\ accept' = accept /\ engine' = engine
      /\ Replaced(fd, NoClient) /\ flight' = flight /\ run' = run
      /\ sock' = sock /\ inq' = inq /\ outq' = outq /\ sent' = sent
  BY DEF done_Close, Done, removeFD, Replaced
<1> QED BY <1>1, RemovedStep

LEMMA DoneAcceptStep ==
    ASSUME RingInv, engine = "uring", done_Accept
    PROVE  RingInv'
<1> DEFINE e == Head(events)
           new == [peer |-> e.peer, data |-> <<>>, blk |-> 0]
           ok == Cardinality(Connected) < MaxClients /\ e.fd \notin Connected
<1>1. /\ events # <<>> /\ e.op = "ACCEPT" /\ events' = Tail(events)
      /\ cq' = cq /\ accept' = accept /\ engine' = engine
      /\ outq' = outq /\ sent' = sent /\ run' = run
      /\ \/ e.res = "ERROR" /\ UNCHANGED <<inq, sock, clients, flight>>
         \/ e.res = "OK" /\ ok /\ insertFD(e.fd, e.peer) /\ UNCHANGED <<inq, sock>>
         \/ /\ e.res = "OK" /\ ~ok
            /\ inq' = [inq EXCEPT ![e.peer] = <<>>] /\ sock' = [sock EXCEPT ![e.fd] = "none"]
            /\ UNCHANGED <<clients, flight>>
  BY DEF done_Accept, Done
<1>2. RingTypes
  BY RingParts
<1>3. inq \in [Peer -> Seq(Piece)] /\ \A p \in Peer : AllOf(inq[p], "ask", p)
  BY <1>2 DEF RingTypes
<1>4. <<>> \in Seq(Piece) /\ \A p : AllOf(<<>>, "ask", p)
  BY EmptySeq DEF AllOf
<1>5. e.peer \in Peer
  BY <1>1, AcceptTaken
<1> HIDE DEF e
<1>6. CASE e.res = "ERROR" /\ UNCHANGED <<inq, sock, clients, flight>>
  <2>1. e.res # "OK" /\ clients' = clients /\ flight' = flight /\ sock' = sock /\ inq' = inq
    BY <1>6
  <2> QED BY <1>1, <1>3, <2>1, AcceptedOneStep DEF e
<1>7. CASE e.res = "OK" /\ ok /\ insertFD(e.fd, e.peer) /\ UNCHANGED <<inq, sock>>
  <2>1. new \in RingClient /\ new.peer = e.peer /\ AllOf(new.data, "ask", new.peer)
    BY <1>4, <1>5 DEF RingClient
  <2>2. req_Read(e.fd, new, free)
    BY <1>7 DEF insertFD
  <2> HIDE DEF new
  <2>3. Requested(e.fd, e.peer)
    BY <2>1, <2>2, ReadRequested
  <2>4. PICK c \in RingClient : \E o \in Operation :
          /\ Replaced(e.fd, c) /\ c.peer = e.peer
          /\ flight' = [flight EXCEPT ![e.fd] = o] /\ o # NoOp /\ Holds(o.op, c)
    BY <2>3 DEF Requested
  <2>5. PICK o \in Operation :
          /\ Replaced(e.fd, c) /\ c.peer = e.peer
          /\ flight' = [flight EXCEPT ![e.fd] = o] /\ o # NoOp /\ Holds(o.op, c)
    BY <2>4
  <2> QED BY <1>1, <1>3, <1>7, <2>5, AcceptedOneStep DEF e
<1>8. CASE /\ e.res = "OK" /\ ~ok
           /\ inq' = [inq EXCEPT ![e.peer] = <<>>] /\ sock' = [sock EXCEPT ![e.fd] = "none"]
           /\ UNCHANGED <<clients, flight>>
  <2>1. inq' \in [Peer -> Seq(Piece)] /\ \A p \in Peer : AllOf(inq'[p], "ask", p)
    BY <1>3, <1>4, <1>5, <1>8
  <2> QED BY <1>1, <1>8, <2>1, AcceptedOneStep DEF e
<1> QED BY <1>1, <1>6, <1>7, <1>8

(* An answer to what a buffer holds.                                            *)
LEMMA AnswerMade ==
    ASSUME NEW d \in Seq(Piece), d # <<>>, NEW p, AllOf(d, "ask", p), NEW size \in Nat \ {0}
    PROVE  /\ AnswerTo(d, size) \in Seq(Piece) /\ AnswerTo(d, size) # <<>>
           /\ AllOf(AnswerTo(d, size), "answer", p)
<1>1. d[1] \in Piece /\ d[1].own = p
  <2>1. 1 \in DOMAIN d /\ d[1] \in Piece
    BY EmptySeq, LenProperties, ElementOfSeq
  <2> QED BY <2>1 DEF AllOf
<1>2. d[1].own \in Peer /\ d[1].no \in Nat
  BY <1>1 DEF Piece
<1>3. ASSUME NEW i \in 1 .. size
      PROVE  [kind |-> "answer", own |-> d[1].own, no |-> d[1].no, part |-> i,
              end |-> i = size] \in Piece
  <2>1. i \in Nat /\ (i = size) \in BOOLEAN
    OBVIOUS
  <2> QED BY <1>2, <2>1 DEF Piece
<1>4. /\ AnswerTo(d, size) \in [1 .. size -> Piece]
      /\ \A i \in 1 .. size : /\ AnswerTo(d, size)[i].kind = "answer"
                              /\ AnswerTo(d, size)[i].own = p
  BY <1>1, <1>3 DEF AnswerTo
<1>5. AnswerTo(d, size) \in Seq(Piece)
  BY <1>4
<1>6. DOMAIN AnswerTo(d, size) = 1 .. size
  BY <1>4
<1>7. AnswerTo(d, size) # <<>>
  <2>1. 1 \in DOMAIN AnswerTo(d, size)
    BY <1>6
  <2>2. 1 \notin DOMAIN <<>>
    BY EmptySeq
  <2> QED BY <2>1, <2>2
<1> QED BY <1>4, <1>5, <1>6, <1>7 DEF AllOf

(* client_Worker_ asks for the next operation, or the server shuts down.        *)
LEMMA WorkerRequests ==
    ASSUME RingInv, engine = "uring", NEW fd, NEW client \in RingClient,
           AllOf(client.data, "ask", client.peer), client.data # <<>>,
           client_Worker(fd, client)
    PROVE  \/ Requested(fd, client.peer) /\ run' = run
           \/ Replaced(fd, client) /\ flight' = flight /\ run' = "stopping"
<1> DEFINE result(size) == processSet(free, AnswerTo(client.data, size), size)
           own == [client EXCEPT !.data = AnswerTo(client.data, 1),
                                 !.blk = allocate(Exchange(free, client.blk, 0), 0, Small)]
           swapped(size) == [client EXCEPT !.data = result(size).buffer.data,
                                           !.blk = result(size).buffer.blk]
<1>1. client.data \in Seq(Piece) /\ \A i \in DOMAIN client.data : client.data[i].own = client.peer
  BY DEF RingClient, AllOf
<1>2. Tier \subseteq Nat \ {0} /\ 1 \in Nat \ {0} /\ Small \in Tier
  BY DEF Tier, Small, Large
<1>3. CASE run' = run /\ \E f : req_Close(fd, client, f)
  BY <1>1, <1>3, CloseRequested
<1>4. CASE req_Read(fd, client, free) /\ run' = run
  BY <1>4, ReadRequested
<1>5. CASE run' = run /\ \E f : req_Write(fd, own, f)
  <2>1. /\ AnswerTo(client.data, 1) \in Seq(Piece) /\ AnswerTo(client.data, 1) # <<>>
        /\ AllOf(AnswerTo(client.data, 1), "answer", client.peer)
    BY <1>1, <1>2, AnswerMade
  <2>2. allocate(Exchange(free, client.blk, 0), 0, Small) \in {0} \cup Tier
    BY <1>2, BlockFound
  <2>3. /\ own \in RingClient /\ own.peer = client.peer /\ own.data # <<>>
        /\ AllOf(own.data, "answer", own.peer)
    BY <2>1, <2>2 DEF RingClient
  <2> HIDE DEF own
  <2>4. PICK f : req_Write(fd, own, f)
    BY <1>5
  <2> QED BY <1>5, <2>3, <2>4, WriteRequested
<1>6. ASSUME NEW size \in Tier, result(size).buffer # Empty, run' = run,
             NEW f, req_Write(fd, swapped(size), f)
      PROVE  Requested(fd, client.peer) /\ run' = run
  <2> DEFINE t == allocate(Exchange(free, sys, 0), 0, size)
             a == AnswerTo(client.data, size)
  <2>1. t \in {0} \cup Tier
    BY BlockFound
  <2>2. /\ a \in Seq(Piece) /\ a # <<>> /\ AllOf(a, "answer", client.peer)
    BY <1>1, <1>2, AnswerMade
  <2>3. result(size).buffer = IF t = 0 THEN Empty ELSE [data |-> a, blk |-> t]
    BY DEF processSet
  <2> HIDE DEF t, a
  <2>4. result(size).buffer.data = a /\ result(size).buffer.blk = t
    BY <1>6, <2>3
  <2> DEFINE w == swapped(size)
  <2>5. w \in RingClient /\ w.peer = client.peer /\ w.data = a
    BY <2>1, <2>2, <2>4 DEF RingClient
  <2> HIDE DEF w
  <2>6. req_Write(fd, w, f)
    BY <1>6 DEF w
  <2> QED BY <1>6, <2>2, <2>5, <2>6, WriteRequested
<1>7. CASE clients' = [clients EXCEPT ![fd] = client] /\ flight' = flight /\ run' = "stopping"
  BY <1>7 DEF Replaced
<1> QED BY <1>3, <1>4, <1>5, <1>6, <1>7 DEF client_Worker

LEMMA DoneReadStep ==
    ASSUME RingInv, engine = "uring", done_Read
    PROVE  RingInv'
<1> DEFINE e == Head(events)
           c == clients[e.fd]
           client == [c EXCEPT !.data = @ \o e.data]
<1>1. /\ Done("READ") /\ sock' = sock /\ inq' = inq /\ outq' = outq /\ sent' = sent
      /\ \/ req_Close(e.fd, client, free) /\ run' = run
         \/ e.data # <<>> /\ client_Worker(e.fd, client)
  BY DEF done_Read
<1>2. /\ e \in RingEvent /\ c \in RingClient /\ c.peer = e.peer /\ Holds("READ", c)
      /\ AllOf(e.data, "ask", e.peer) /\ e.fd \in FD /\ flight[e.fd] = NoOp
  BY <1>1, HandledFacts
<1> HIDE DEF c, e
<1>3. /\ c.data \in Seq(Piece) /\ AllOf(c.data, "ask", c.peer)
      /\ e.data \in Seq(Piece)
  BY <1>2 DEF Holds, RingClient, RingEvent
<1>4. /\ c.data \o e.data \in Seq(Piece) /\ AllOf(c.data \o e.data, "ask", c.peer)
      /\ e.data # <<>> => c.data \o e.data # <<>>
  <2>1. e.data # <<>> => c.data \o e.data # <<>>
    BY <1>3, ConcatEqualIffEmpty
  <2> QED BY <1>2, <1>3, <2>1, JoinedAllOf
<1>5. /\ client \in RingClient /\ client.peer = c.peer /\ client.data = c.data \o e.data
  BY <1>2, <1>4 DEF RingClient
<1> HIDE DEF client
<1>6. /\ AllOf(client.data, "ask", client.peer)
      /\ \A i \in DOMAIN client.data : client.data[i].own = client.peer
  BY <1>4, <1>5 DEF AllOf
<1>7. CASE Requested(e.fd, client.peer) /\ run' = run
  BY <1>1, <1>5, <1>7, RequestedStep DEF c, e
<1>8. CASE Replaced(e.fd, client) /\ flight' = flight /\ run' = "stopping"
  <2>1. RingTypes
    BY RingParts
  <2>2. flight' = [flight EXCEPT ![e.fd] = NoOp] /\ NoOp \in Operation
    BY <1>2, <1>8, <2>1 DEF RingTypes, Operation
  <2>3. /\ e.op \in {"READ", "WRITE"} /\ events # <<>> /\ events' = Tail(events)
        /\ cq' = cq /\ accept' = accept /\ engine' = engine
    BY <1>1 DEF Done, e
  <2> QED BY <1>1, <1>5, <1>8, <2>2, <2>3, HandledStep DEF c, e
<1>9. CASE req_Close(e.fd, client, free) /\ run' = run
  BY <1>5, <1>6, <1>7, <1>9, CloseRequested
<1>10. CASE e.data # <<>> /\ client_Worker(e.fd, client)
  <2>1. client.data # <<>>
    BY <1>4, <1>5, <1>10
  <2> QED BY <1>5, <1>6, <1>7, <1>8, <1>10, <2>1, WorkerRequests
<1> QED BY <1>1, <1>9, <1>10

LEMMA RingInitInv == RingInit => RingInv
<1> SUFFICES ASSUME RingInit, engine = "uring" PROVE RingInv
  BY DEF RingInv
<1>1. /\ inq = [p \in Peer |-> <<>>] /\ outq = [p \in Peer |-> <<>>]
      /\ sent = [p \in Peer |-> NoPiece(p)] /\ clients = [fd \in FD |-> NoClient]
      /\ sock = [fd \in FD |-> "none"] /\ flight = [fd \in FD |-> NoOp]
      /\ accept = "sq" /\ cq = <<>> /\ events = <<>> /\ run = "on"
  BY DEF RingInit, Init
<1>2. Connected = {}
  BY <1>1 DEF Connected
<1>3. <<>> \in Seq(Piece) /\ <<>> \in Seq(RingEvent) /\ \A x : x \notin DOMAIN <<>>
  BY EmptySeq
<1>4. Pending = <<>>
  <2>1. Pending = <<>> \o <<>>
    BY <1>1 DEF Pending
  <2> QED BY <1>3, <2>1, ConcatEmptySeq
<1>5. RingTypes
  <2>1. Cardinality(Connected) <= MaxClients
    BY <1>2, FS_EmptySet, LoopAssumption
  <2>2. /\ inq \in [Peer -> Seq(Piece)] /\ outq \in [Peer -> Seq(Piece)]
        /\ \A p \in Peer : AllOf(inq[p], "ask", p)
    BY <1>1, <1>3 DEF AllOf
  <2>3. /\ clients \in [FD -> RingClient \cup {NoClient}]
        /\ sock \in [FD -> Peer \cup {"none"}] /\ flight \in [FD -> Operation]
    BY <1>1 DEF Operation
  <2>4. sent \in [Peer -> Piece]
    <3>1. \A p \in Peer : NoPiece(p) \in Piece
      BY DEF NoPiece, Piece
    <3> QED BY <1>1, <3>1
  <2> QED BY <1>1, <1>3, <2>1, <2>2, <2>3, <2>4 DEF RingTypes
<1>6. FlightInv /\ PendingInv /\ AcceptInv
  BY <1>1, <1>3, <1>4 DEF FlightInv, PendingInv, AcceptInv
<1>7. SockInv /\ AskedInv
  BY <1>1, <1>2, <1>3 DEF SockInv, AskedInv
<1> QED BY <1>5, <1>6, <1>7 DEF RingInv

(* The program that runs stays the same.                                        *)
LEMMA EngineKept == [RingNext]_allVars => engine' = engine
<1>1. ASSUME NEW fd \in FD, Kernel(fd) PROVE engine' = engine
  BY <1>1 DEF Kernel, KernelRead, KernelWrite, KernelTimeout, KernelClose, Complete
<1>2. Handlers => engine' = engine
  BY DEF Handlers, done_Accept, done_Read, done_Write, done_Close, Done
<1>3. ASSUME NEW p \in Peer, Peers(p) \/ KernelAccept(p) PROVE engine' = engine
  BY <1>3 DEF Peers, KernelAccept
<1>4. Submit \/ Collect \/ RingStop => engine' = engine
  BY DEF Submit, Collect, RingStop
<1>5. UNCHANGED allVars => engine' = engine
  BY DEF allVars
<1> QED BY <1>1, <1>2, <1>3, <1>4, <1>5 DEF RingNext, Select

LEMMA RingNextInv == RingInv /\ [RingNext]_allVars => RingInv'
<1> SUFFICES ASSUME RingInv, [RingNext]_allVars, engine = "uring" PROVE RingInv'
  BY EngineKept DEF RingInv
<1>1. CASE UNCHANGED allVars
  <2>1. RingTypes /\ AcceptInv /\ AskedInv
    BY RingParts
  <2>2. /\ inq' = inq /\ outq' = outq /\ sent' = sent /\ clients' = clients /\ run' = run
        /\ sock' = sock /\ flight' = flight /\ accept' = accept /\ cq' = cq /\ events' = events
    BY <1>1 DEF allVars
  <2>3. Pending' = Pending /\ Connected' = Connected
    BY <2>2 DEF Pending, Connected
  <2>4. RingTypes'
    BY <2>1, <2>2, <2>3 DEF RingTypes
  <2>5. /\ (\E i \in DOMAIN Pending : Pending[i].op = "ACCEPT") => accept' # "kernel"
        /\ run # "off" => (accept' = "none" <=> \E i \in DOMAIN cq' : cq'[i].op = "ACCEPT")
        /\ run = "off" => events' = <<>>
    BY <2>1, <2>2 DEF AcceptInv, AskedInv
  <2> QED BY <2>2, <2>3, <2>4, <2>5, NothingCompletedStep
<1>2. ASSUME NEW p \in Peer, Peers(p) PROVE RingInv'
  BY <1>2, RingPeersStep
<1>3. CASE Submit \/ Collect
  BY <1>3, SubmitStep, CollectStep
<1>4. CASE Handlers
  BY <1>4, DoneAcceptStep, DoneReadStep, DoneWriteStep, DoneCloseStep DEF Handlers
<1>5. ASSUME NEW p \in Peer, KernelAccept(p) PROVE RingInv'
  BY <1>5, KernelAcceptStep
<1>6. ASSUME NEW fd \in FD, Kernel(fd) PROVE RingInv'
  BY <1>6, KernelStep
<1>7. CASE RingStop
  BY <1>7, RingStopStep
<1> QED BY <1>1, <1>2, <1>3, <1>4, <1>5, <1>6, <1>7 DEF RingNext, Select

(* What the inductive invariant says of operations and completions.             *)
LEMMA OwnedByInv == RingInv => CompletionsOwned
<1> SUFFICES ASSUME RingInv, engine = "uring" PROVE CompletionsOwned
  BY DEF CompletionsOwned
<1>1. RingTypes /\ FlightInv /\ PendingInv /\ AcceptInv /\ SockInv /\ AskedInv
  BY RingParts
<1>2. ASSUME run = "on", NEW fd \in Connected
      PROVE  UnderWay(fd) = 1
  <2>1. fd \in FD
    BY DEF Connected
  <2>2. CompletedOn(fd) = {i \in DOMAIN Pending : About(i, fd)}
    BY DEF CompletedOn, About
  <2>3. CASE flight[fd] # NoOp
    <3>1. CompletedOn(fd) = {}
      BY <1>1, <2>1, <2>2, <2>3 DEF FlightInv
    <3>2. Cardinality(CompletedOn(fd)) = 0
      BY <3>1, FS_EmptySet
    <3> QED BY <2>3, <3>2 DEF UnderWay
  <2>4. CASE flight[fd] = NoOp
    <3>1. PICK i \in DOMAIN Pending : About(i, fd)
      BY <1>1, <1>2, <2>4 DEF AskedInv
    <3>2. \A j \in DOMAIN Pending : About(j, fd) => j = i
      BY <1>1, <3>1 DEF PendingInv, About
    <3>3. CompletedOn(fd) = {i}
      BY <2>2, <3>1, <3>2
    <3>4. Cardinality(CompletedOn(fd)) = 1
      BY <3>3, FS_Singleton
    <3> QED BY <2>4, <3>4 DEF UnderWay
  <2> QED BY <2>3, <2>4
<1>3. run # "off" => (accept = "none" <=> \E i \in DOMAIN cq : cq[i].op = "ACCEPT")
  BY <1>1 DEF AskedInv
<1>4. ASSUME NEW fd \in FD, flight[fd] # NoOp
      PROVE  /\ fd \in Connected /\ clients[fd].peer = sock[fd]
             /\ \A i \in DOMAIN clients[fd].data :
                  LET x == clients[fd].data[i] IN
                  /\ x.own = sock[fd]
                  /\ flight[fd].op = "READ" => x.kind = "ask"
                  /\ flight[fd].op = "WRITE" => x.kind = "answer"
             /\ flight[fd].op = "WRITE" => clients[fd].data # <<>>
  <2>1. /\ fd \in Connected /\ sock[fd] = clients[fd].peer
        /\ Holds(flight[fd].op, clients[fd])
    BY <1>4, FlightFacts
  <2> QED BY <2>1 DEF Holds, AllOf
<1>5. \A i \in DOMAIN Pending : LET e == Pending[i] IN e.op # "ACCEPT" =>
        e.fd \in Connected /\ clients[e.fd].peer = e.peer
  BY <1>1 DEF PendingInv
<1>6. ASSUME events # <<>>, Head(events).op = "ACCEPT"
      PROVE  Head(events).fd \notin Connected
  <2>1. events \in Seq(RingEvent) /\ Len(events) \in Nat \ {0} /\ Head(events) = events[1]
    BY <1>1, <1>6, EmptySeq, HeadTailProperties DEF RingTypes
  <2>2. /\ \A i \in 1 .. Len(events) : Pending[i] = events[i]
        /\ DOMAIN Pending = 1 .. Len(Pending) /\ Len(Pending) = Len(events) + Len(cq)
        /\ Len(cq) \in Nat
    BY <1>1, PendingTypes
  <2>3. 1 \in DOMAIN Pending /\ Pending[1] = Head(events) /\ \A j \in DOMAIN Pending : ~(j < 1)
    BY <2>1, <2>2
  <2>4. Connected \subseteq FD /\ ServerFD \notin FD
    BY DEF Connected, ServerFD, FD
  <2> QED BY <1>1, <1>6, <2>3, <2>4 DEF AcceptInv
<1> QED BY <1>2, <1>3, <1>4, <1>5, <1>6 DEF CompletionsOwned

(* AsyncCompletionLoop and the kernel keep the inductive invariant: an operation  *)
(* is under way for the client whose descriptor it is, a completion finds it,     *)
(* and a descriptor that is closed and accepted again finds its old client gone.  *)
THEOREM RingInvariantHolds == RingSpec => []RingInv
<1>1. RingInit => RingInv
  BY RingInitInv
<1>2. RingInv /\ [RingNext]_allVars => RingInv'
  BY RingNextInv
<1> QED BY <1>1, <1>2, PTL DEF RingSpec

(* Every client of AsyncCompletionLoop has exactly one operation or completion    *)
(* under way until a SHUTDOWN: the submission queue never lacks room for one and   *)
(* its timeout, no buffer moves while the kernel owns it, and done_Read_,          *)
(* done_Write_ and done_Close_ always find the client.                            *)
THEOREM CompletionsOwnedHolds == RingSpec => []CompletionsOwned
<1>1. RingInv => CompletionsOwned
  BY OwnedByInv
<1> QED BY <1>1, RingInvariantHolds, PTL
=============================================================================
