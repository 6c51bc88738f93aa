----------------------------- MODULE BufferMemory -----------------------------
(***************************************************************************)
(* The memory of db_net's I/O buffers: blocks of fixed sizes                 *)
(* (mymemorymanager/tieredmemorymanager.h over myallocator/slaballocator.h), *)
(* a growing array in one block (net/ambuffer.h) and a queue of bytes over   *)
(* it (net/iobuffer.h).                                                      *)
(*                                                                         *)
(* m is the whole of it: the free lists, the context of each buffer, and     *)
(* what the blocks hold.  An operation gives the m after it; one that may    *)
(* fail gives [ok, m].  A free block holds nothing: what is read from one    *)
(* is Garbage, and so is what nobody has written yet.                        *)
(***************************************************************************)
EXTENDS Integers, Sequences

CONSTANTS
  Buffer,        \* the buffers
  SIZES,         \* bytes of a block, by tier
  DIVISORS,      \* a block of a tier for so many clients
  MIN_COUNT,     \* blocks a tier has at least
  counts,        \* blocks that are configured, by tier; 0: the default
  maxClients

Tiers == 1 .. Len(SIZES)

ASSUME MemoryAssumption ==
  /\ SIZES \in Seq(Nat \ {0})
  /\ \A s, t \in Tiers : s < t => SIZES[s] < SIZES[t]
  /\ DIVISORS \in [Tiers -> Nat \ {0}]
  /\ counts \in [Tiers -> Nat]
  /\ MIN_COUNT \in Nat /\ maxClients \in Nat

Garbage == "garbage"
NoBlock == <<0, 0>>

-----------------------------------------------------------------------------
(* Blocks and tiers.                                                         *)

Least(a, b)    == IF a < b THEN a ELSE b
Greatest(a, b) == IF a < b THEN b ELSE a

calcMinimumCount(t) ==
  IF counts[t] # 0 THEN Least(counts[t], maxClients + 1)
  ELSE Greatest((maxClients + 1) \div DIVISORS[t], MIN_COUNT)

Block == UNION {{<<t, i>> : i \in 1 .. calcMinimumCount(t)} : t \in Tiers}

(* The tier behind the last one stands for "none".                           *)
findTier(needed) ==
  CHOOSE t \in 1 .. Len(SIZES) + 1 :
    /\ t \in Tiers => needed <= SIZES[t]
    /\ \A s \in 1 .. t - 1 : needed > SIZES[s]

capacity2tier(capacity) ==
  IF \E t \in Tiers : SIZES[t] = capacity
  THEN CHOOSE t \in Tiers : SIZES[t] = capacity
  ELSE Len(SIZES) + 1

-----------------------------------------------------------------------------
(* Contexts.  head is the IOBuffer's, the rest the AMBuffer's.               *)

NoContext == [data |-> NoBlock, size |-> 0, capacity |-> 0, head |-> 0]

(* SlabAllocator: the free list of each tier, from the first block on.       *)
createFreeList(t) == [i \in 1 .. calcMinimumCount(t) |-> <<t, i>>]

InitMemory ==
  [free |-> [t \in Tiers |-> createFreeList(t)],
   ctx  |-> [b \in Buffer |-> NoContext],
   mem  |-> [k \in Block |-> <<>>]]

xallocate(m, t)      == [m.free EXCEPT ![t] = Tail(@)]
xdeallocate(f, t, k) == [f EXCEPT ![t] = <<k>> \o @]

Unwritten(n) == [i \in 1 .. n |-> Garbage]

(* What n bytes behind off hold.                                             *)
Held(m, k, off, n) ==
  IF k \in Block THEN SubSeq(m.mem[k] \o Unwritten(off + n), off + 1, off + n) ELSE Unwritten(n)

(* memcpy into a block, which ends where it ends.                            *)
Stored(old, off, bytes, room) ==
  LET all == SubSeq(old \o Unwritten(off), 1, off) \o bytes
               \o SubSeq(old, off + Len(bytes) + 1, Len(old))
  IN  SubSeq(all, 1, Least(Len(all), room))

copy(m, b, off, bytes) ==
  LET k == m.ctx[b].data
  IN  [m EXCEPT !.mem[k] = Stored(@, off, bytes, SIZES[k[1]])]

-----------------------------------------------------------------------------
(* TieredMemoryManager.                                                      *)

(* Mutant: the old block is forgotten.                                       *)
MovedOnly(m, b, k) ==
  LET c    == m.ctx[b]
      held == Held(m, c.data, 0, c.size)
  IN  [free |-> xallocate(m, k[1]),
       ctx  |-> [m.ctx EXCEPT ![b].data = k, ![b].capacity = SIZES[k[1]]],
       mem  |-> [m.mem EXCEPT ![k] = held]]

(* A context moves to block k: what it holds is copied, the old block freed. *)
Moved(m, b, k) ==
  LET c    == m.ctx[b]
      left == xallocate(m, k[1])
      held == Held(m, c.data, 0, c.size)
  IN  [free |-> IF c.data = NoBlock THEN left
                ELSE xdeallocate(left, capacity2tier(c.capacity), c.data),
       ctx  |-> [m.ctx EXCEPT ![b].data = k, ![b].capacity = SIZES[k[1]]],
       mem  |-> [x \in Block |-> IF x = k THEN held ELSE IF x = c.data THEN <<>> ELSE m.mem[x]]]

(* The first tier from the one that is needed that has a block.              *)
allocate(m, b, needed) ==
  LET c    == m.ctx[b]
      tier == findTier(needed)
      has(t) == m.free[t] # <<>>
  IN  IF c.data # NoBlock /\ capacity2tier(c.capacity) >= tier THEN [ok |-> TRUE, m |-> m]
      ELSE IF \A t \in tier .. Len(SIZES) : ~ has(t) THEN [ok |-> FALSE, m |-> m]
      ELSE LET t == CHOOSE t \in tier .. Len(SIZES) :
                      has(t) /\ \A s \in tier .. t - 1 : ~ has(s)
           IN  [ok |-> TRUE, m |-> Moved(m, b, Head(m.free[t]))]

deallocate(m, b) ==
  LET c == m.ctx[b]
  IN  IF c.data = NoBlock THEN [m EXCEPT !.ctx[b] = [NoContext EXCEPT !.head = c.head]]
      ELSE [free |-> xdeallocate(m.free, capacity2tier(c.capacity), c.data),
            ctx  |-> [m.ctx EXCEPT ![b] = [NoContext EXCEPT !.head = c.head]],
            mem  |-> [m.mem EXCEPT ![c.data] = <<>>]]

-----------------------------------------------------------------------------
(* AMBuffer and IOBuffer.                                                    *)

(* What is behind the new size is given up.                                  *)
resize(m, b, sizeNew) ==
  LET a == IF sizeNew > m.ctx[b].capacity THEN allocate(m, b, sizeNew) ELSE [ok |-> TRUE, m |-> m]
      k == a.m.ctx[b].data
      kept == [a.m EXCEPT !.ctx[b].size = sizeNew]
  IN  IF ~ a.ok THEN a
      ELSE [ok |-> TRUE,
            m  |-> IF k = NoBlock THEN kept
                   ELSE [kept EXCEPT !.mem[k] = SubSeq(@, 1, Least(Len(@), sizeNew))]]

clear(m, b) == [deallocate(m, b) EXCEPT !.ctx[b].head = 0]

swap(m, a, b) == [m EXCEPT !.ctx[a] = m.ctx[b], !.ctx[b] = m.ctx[a]]

Size(m, b) == m.ctx[b].size - m.ctx[b].head
Data(m, b) == Held(m, m.ctx[b].data, m.ctx[b].head, Size(m, b))

(* Room for n bytes behind what is there; finalizeBuffer says how many came. *)
provideBuffer(m, b, n) == resize(m, b, m.ctx[b].size + n)

provideBufferAtLeast(m, b, n) ==
  LET p == provideBuffer(m, b, n)
  IN  IF p.ok THEN resize(p.m, b, p.m.ctx[b].capacity) ELSE p

finalizeBuffer(m, b, offset, actualSize) == resize(m, b, offset + actualSize).m

pop(m, b, n) ==
  IF n = 0 \/ Size(m, b) < n THEN m
  ELSE IF Size(m, b) = n THEN clear(m, b)
  ELSE [m EXCEPT !.ctx[b].head = @ + n]

-----------------------------------------------------------------------------
(* Every block is in its free list, or in one buffer, once; a buffer knows   *)
(* the size of its block and stays inside it.                                *)

ListsDisjoint(m) ==
  \A t \in Tiers : /\ \A i \in DOMAIN m.free[t] : m.free[t][i] \in Block /\ m.free[t][i][1] = t
                   /\ \A i, j \in DOMAIN m.free[t] : m.free[t][i] = m.free[t][j] => i = j

ContextsInside(m) ==
  \A b \in Buffer :
    LET c == m.ctx[b]
    IN  /\ c.head <= c.size /\ c.size <= c.capacity
        /\ IF c.data = NoBlock THEN c.capacity = 0
           ELSE c.data \in Block /\ c.capacity = SIZES[c.data[1]]

OneOwner(m) ==
  \A b \in Buffer : m.ctx[b].data # NoBlock =>
    /\ \A t \in Tiers : \A i \in DOMAIN m.free[t] : m.free[t][i] # m.ctx[b].data
    /\ \A a \in Buffer \ {b} : m.ctx[a].data # m.ctx[b].data

NoneLost(m) ==
  \A k \in Block : \/ \E i \in DOMAIN m.free[k[1]] : m.free[k[1]][i] = k
                   \/ \E b \in Buffer : m.ctx[b].data = k

WellKept(m) == ListsDisjoint(m) /\ ContextsInside(m) /\ OneOwner(m) /\ NoneLost(m)
===============================================================================
