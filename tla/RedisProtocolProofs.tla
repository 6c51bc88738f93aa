------------------------- MODULE RedisProtocolProofs -------------------------
(***************************************************************************)
(* Whatever clients send, however it arrives and whatever fails: every block *)
(* of memory stays in one place, no request grows beyond what it may, and no *)
(* answer is longer than the room that was asked for it.                     *)
(*                                                                         *)
(* The hash functions are taken to give numbers of their width.              *)
(***************************************************************************)
EXTENDS RedisProtocol, NaturalSets, SequenceTheorems

-----------------------------------------------------------------------------
(* The operations of BufferMemory.  B is the set the bytes are from.          *)

Elems(s) == {s[i] : i \in DOMAIN s}

Context == [data : Block \union {NoBlock}, size : Nat, capacity : Nat, head : Nat]

Memory(B) == [free : [Tiers -> Seq(Block)], ctx : [Buffer -> Context], mem : [Block -> Seq(B)]]

(* The parts of WellKept, as sets: the free lists, the contexts, who owns    *)
(* what, and nothing lost.                                                   *)
FreeKept(free) ==
  \A t \in Tiers : /\ \A i, j \in DOMAIN free[t] : free[t][i] = free[t][j] => i = j
                   /\ \A k \in Elems(free[t]) : k \in Block /\ k[1] = t

Inside(c) ==
  /\ c.head <= c.size /\ c.size <= c.capacity
  /\ c.data = NoBlock => c.capacity = 0
  /\ c.data # NoBlock => c.capacity = SIZES[c.data[1]]

Apart(free, ctx) ==
  /\ \A b \in Buffer : ctx[b].data # NoBlock => ctx[b].data \notin Elems(free[ctx[b].data[1]])
  /\ \A a, b \in Buffer : ctx[b].data # NoBlock /\ a # b => ctx[a].data # ctx[b].data

Complete(free, ctx) ==
  \A k \in Block : k \in Elems(free[k[1]]) \/ \E b \in Buffer : ctx[b].data = k

Kept(free, ctx) ==
  /\ free \in [Tiers -> Seq(Block)] /\ ctx \in [Buffer -> Context]
  /\ FreeKept(free) /\ (\A b \in Buffer : Inside(ctx[b])) /\ Apart(free, ctx) /\ Complete(free, ctx)

Good(M, B) == M \in Memory(B) /\ WellKept(M)

-----------------------------------------------------------------------------
(* Blocks and tiers.                                                         *)

LEMMA BlockFacts ==
  /\ NoBlock \notin Block
  /\ \A k \in Block : k[1] \in Tiers
  /\ Tiers \subseteq Nat
  /\ \A t \in Tiers : SIZES[t] \in Nat /\ SIZES[t] > 0 /\ calcMinimumCount(t) \in Nat
<1>1. \A t \in Tiers : SIZES[t] \in Nat /\ SIZES[t] > 0 /\ t \in Nat /\ t > 0
  BY MemoryAssumption DEF Tiers
<1>2. \A t \in Tiers : calcMinimumCount(t) \in Nat
  BY MemoryAssumption DEF calcMinimumCount, Least, Greatest
<1>3. NoBlock \notin Block
  <2> SUFFICES ASSUME NEW t \in Tiers, NEW i \in 1 .. calcMinimumCount(t) PROVE <<t, i>> # <<0, 0>>
    BY DEF NoBlock, Block
  <2> QED BY <1>1
<1>4. \A k \in Block : k[1] \in Tiers
  BY DEF Block
<1> QED BY <1>1, <1>2, <1>3, <1>4

LEMMA KeptMeans ==
  ASSUME NEW B, NEW M \in Memory(B)
  PROVE  WellKept(M) <=> Kept(M.free, M.ctx)
<1> USE BlockFacts
<1>0. M.free \in [Tiers -> Seq(Block)] /\ M.ctx \in [Buffer -> Context]
  BY DEF Memory
<1>1. ListsDisjoint(M) <=> FreeKept(M.free)
  BY <1>0 DEF ListsDisjoint, FreeKept, Elems
<1>2. ContextsInside(M) <=> \A b \in Buffer : Inside(M.ctx[b])
  <2> SUFFICES ASSUME NEW b \in Buffer
               PROVE  Inside(M.ctx[b]) <=>
                        LET c == M.ctx[b]
                        IN  /\ c.head <= c.size /\ c.size <= c.capacity
                            /\ IF c.data = NoBlock THEN c.capacity = 0
                               ELSE c.data \in Block /\ c.capacity = SIZES[c.data[1]]
    BY DEF ContextsInside
  <2>1. M.ctx[b].data \in Block \union {NoBlock}
    BY <1>0 DEF Context
  <2> QED BY <2>1 DEF Inside
<1>3. FreeKept(M.free) => (OneOwner(M) <=> Apart(M.free, M.ctx))
  <2> SUFFICES ASSUME FreeKept(M.free) PROVE OneOwner(M) <=> Apart(M.free, M.ctx)
    OBVIOUS
  <2>1. \A b \in Buffer : M.ctx[b].data \in Block \union {NoBlock}
    BY <1>0 DEF Context
  <2>2. \A b \in Buffer : M.ctx[b].data # NoBlock =>
          ((\A t \in Tiers : \A i \in DOMAIN M.free[t] : M.free[t][i] # M.ctx[b].data)
             <=> M.ctx[b].data \notin Elems(M.free[M.ctx[b].data[1]]))
    <3> SUFFICES ASSUME NEW d \in Block
                 PROVE  (\A t \in Tiers : \A i \in DOMAIN M.free[t] : M.free[t][i] # d)
                           <=> d \notin Elems(M.free[d[1]])
      BY <2>1
    <3>1. ASSUME d \notin Elems(M.free[d[1]]), NEW t \in Tiers, NEW i \in DOMAIN M.free[t]
          PROVE  M.free[t][i] # d
      <4>1. M.free[t][i] \in Elems(M.free[t])
        BY DEF Elems
      <4>2. M.free[t][i][1] = t
        BY <4>1 DEF FreeKept
      <4> QED BY <3>1, <4>1, <4>2
    <3>2. ASSUME \A t \in Tiers : \A i \in DOMAIN M.free[t] : M.free[t][i] # d
          PROVE  d \notin Elems(M.free[d[1]])
      BY <3>2 DEF Elems
    <3> QED BY <3>1, <3>2
  <2> QED BY <2>2 DEF OneOwner, Apart
<1>4. NoneLost(M) <=> Complete(M.free, M.ctx)
  BY DEF NoneLost, Complete, Elems
<1> QED BY <1>0, <1>1, <1>2, <1>3, <1>4 DEF WellKept, Kept

LEMMA TierFound ==
  ASSUME NEW needed \in Nat
  PROVE  /\ findTier(needed) \in 1 .. Len(SIZES) + 1
         /\ findTier(needed) \in Tiers => needed <= SIZES[findTier(needed)]
         /\ \A s \in 1 .. findTier(needed) - 1 : needed > SIZES[s]
<1> DEFINE S == {t \in Tiers : needed <= SIZES[t]} \union {Len(SIZES) + 1}
<1>0. Len(SIZES) \in Nat
  BY MemoryAssumption
<1>1. S \in SUBSET Nat /\ S # {}
  BY <1>0 DEF Tiers
<1>2. PICK t \in S : \A s \in S : t <= s
  BY <1>1, SmallestExists
<1>3. t \in 1 .. Len(SIZES) + 1 /\ (t \in Tiers => needed <= SIZES[t])
  BY <1>0, <1>2 DEF Tiers
<1>4. ASSUME NEW s \in 1 .. t - 1 PROVE needed > SIZES[s]
  <2>1. s \in Tiers /\ s \in Nat /\ ~ (t <= s)
    BY <1>0, <1>3 DEF Tiers
  <2>2. s \notin S /\ SIZES[s] \in Nat
    BY <1>2, <2>1, BlockFacts
  <2> QED BY <2>1, <2>2
<1> QED BY <1>3, <1>4 DEF findTier

(* Sizes tell tiers apart.                                                   *)
LEMMA TierOfSize ==
  ASSUME NEW t \in Tiers
  PROVE  capacity2tier(SIZES[t]) = t
<1>1. \A s \in Tiers : SIZES[s] = SIZES[t] => s = t
  <2> SUFFICES ASSUME NEW s \in Tiers, s # t PROVE SIZES[s] # SIZES[t]
    OBVIOUS
  <2>1. s \in Nat /\ t \in Nat /\ SIZES[s] \in Nat /\ SIZES[t] \in Nat
    BY BlockFacts
  <2>2. s < t \/ t < s
    BY <2>1
  <2> QED BY <2>1, <2>2, MemoryAssumption
<1> QED BY <1>1 DEF capacity2tier

-----------------------------------------------------------------------------
(* Free lists.                                                               *)

LEMMA TailKept ==
  ASSUME NEW free \in [Tiers -> Seq(Block)], FreeKept(free), NEW t \in Tiers, free[t] # <<>>
  PROVE  LET g == [free EXCEPT ![t] = Tail(@)]
         IN  /\ g \in [Tiers -> Seq(Block)] /\ FreeKept(g)
             /\ Head(free[t]) \in Elems(free[t])
             /\ Elems(g[t]) = Elems(free[t]) \ {Head(free[t])}
             /\ \A s \in Tiers \ {t} : g[s] = free[s]
<1> DEFINE f == free[t]
           g == [free EXCEPT ![t] = Tail(@)]
<1>1. f \in Seq(Block) /\ f # <<>> /\ \A i, j \in 1 .. Len(f) : f[i] = f[j] => i = j
  BY DEF FreeKept
<1>2. /\ Tail(f) \in Seq(Block) /\ Len(f) \in Nat \ {0} /\ Head(f) = f[1]
      /\ DOMAIN Tail(f) = 1 .. Len(f) - 1 /\ DOMAIN f = 1 .. Len(f)
      /\ \A i \in 1 .. Len(f) - 1 : Tail(f)[i] = f[i + 1]
  BY <1>1
<1> HIDE DEF f
<1>3. \A i, j \in DOMAIN Tail(f) : Tail(f)[i] = Tail(f)[j] => i = j
  BY <1>1, <1>2
<1>4. Elems(Tail(f)) = Elems(f) \ {Head(f)}
  <2>1. ASSUME NEW k \in Elems(Tail(f)) PROVE k \in Elems(f) \ {Head(f)}
    <3>1. PICK i \in 1 .. Len(f) - 1 : k = f[i + 1]
      BY <1>2 DEF Elems
    <3>2. i + 1 \in 1 .. Len(f) /\ i + 1 # 1 /\ 1 \in 1 .. Len(f)
      BY <1>2
    <3> QED BY <1>1, <1>2, <3>1, <3>2 DEF Elems
  <2>2. ASSUME NEW k \in Elems(f) \ {Head(f)} PROVE k \in Elems(Tail(f))
    <3>1. PICK i \in 1 .. Len(f) : k = f[i]
      BY <1>2 DEF Elems
    <3>2. i # 1 /\ i - 1 \in 1 .. Len(f) - 1 /\ (i - 1) + 1 = i
      BY <1>2, <3>1
    <3>3. Tail(f)[i - 1] = k
      BY <1>2, <3>1, <3>2
    <3> QED BY <1>2, <3>2, <3>3 DEF Elems
  <2> QED BY <2>1, <2>2
<1>5. Head(f) \in Elems(f)
  <2>1. 1 \in DOMAIN f
    BY <1>2
  <2> QED BY <1>2, <2>1 DEF Elems
<1>6. g \in [Tiers -> Seq(Block)] /\ g[t] = Tail(f) /\ \A s \in Tiers \ {t} : g[s] = free[s]
  BY <1>2 DEF f
<1>8. \A k \in Elems(f) : k \in Block /\ k[1] = t
  BY DEF FreeKept, f
<1>7. FreeKept(g)
  <2> HIDE DEF g
  <2> SUFFICES ASSUME NEW s \in Tiers
               PROVE  /\ \A i, j \in DOMAIN g[s] : g[s][i] = g[s][j] => i = j
                      /\ \A k \in Elems(g[s]) : k \in Block /\ k[1] = s
    BY DEF FreeKept
  <2>1. CASE s = t
    BY <1>3, <1>4, <1>6, <1>8, <2>1
  <2>2. CASE s # t
    BY <1>6, <2>2 DEF FreeKept
  <2> QED BY <2>1, <2>2
<1> QED BY <1>4, <1>5, <1>6, <1>7 DEF f

LEMMA BackKept ==
  ASSUME NEW free \in [Tiers -> Seq(Block)], FreeKept(free),
         NEW d \in Block, d \notin Elems(free[d[1]])
  PROVE  LET g == xdeallocate(free, d[1], d)
         IN  /\ g \in [Tiers -> Seq(Block)] /\ FreeKept(g)
             /\ Elems(g[d[1]]) = Elems(free[d[1]]) \union {d}
             /\ \A s \in Tiers \ {d[1]} : g[s] = free[s]
<1> DEFINE t == d[1]
           f == free[t]
           h == <<d>> \o f
           g == xdeallocate(free, t, d)
<1>0. t \in Tiers
  BY BlockFacts
<1>1. f \in Seq(Block) /\ (\A i, j \in 1 .. Len(f) : f[i] = f[j] => i = j) /\ d \notin Elems(f)
  BY <1>0 DEF FreeKept
<1>2. /\ h \in Seq(Block) /\ Len(f) \in Nat /\ h[1] = d
      /\ DOMAIN h = 1 .. Len(f) + 1 /\ DOMAIN f = 1 .. Len(f)
      /\ \A i \in 1 .. Len(f) : h[i + 1] = f[i]
  BY <1>1
<1>3. \A i \in DOMAIN h : i = 1 \/ (i - 1 \in 1 .. Len(f) /\ h[i] = f[i - 1] /\ h[i] # d)
  <2> HIDE DEF h, f
  <2> SUFFICES ASSUME NEW i \in DOMAIN h, i # 1
               PROVE  i - 1 \in 1 .. Len(f) /\ h[i] = f[i - 1] /\ h[i] # d
    OBVIOUS
  <2>1. i - 1 \in 1 .. Len(f) /\ (i - 1) + 1 = i
    BY <1>2
  <2>2. h[i] = f[i - 1] /\ f[i - 1] \in Elems(f)
    BY <1>2, <2>1 DEF Elems
  <2> QED BY <1>1, <2>1, <2>2
<1>4. \A i, j \in DOMAIN h : h[i] = h[j] => i = j
  <2> HIDE DEF h, f
  <2> SUFFICES ASSUME NEW i \in DOMAIN h, NEW j \in DOMAIN h, h[i] = h[j] PROVE i = j
    OBVIOUS
  <2>1. i \in Nat /\ j \in Nat
    BY <1>2
  <2>2. CASE i = 1 \/ j = 1
    BY <1>2, <1>3, <2>2
  <2>3. CASE i # 1 /\ j # 1
    <3>1. i - 1 = j - 1
      BY <1>1, <1>3, <2>3
    <3> QED BY <2>1, <3>1
  <2> QED BY <2>2, <2>3
<1>5. Elems(h) = Elems(f) \union {d}
  <2> HIDE DEF h, f
  <2>1. \A k \in Elems(h) : k \in Elems(f) \union {d}
    BY <1>2, <1>3 DEF Elems
  <2>2. ASSUME NEW k \in Elems(f) PROVE k \in Elems(h)
    <3>1. PICK i \in 1 .. Len(f) : k = f[i]
      BY <1>2 DEF Elems
    <3>2. i + 1 \in DOMAIN h /\ h[i + 1] = k
      BY <1>2, <3>1
    <3> QED BY <3>2 DEF Elems
  <2>3. 1 \in DOMAIN h
    BY <1>2
  <2>4. d \in Elems(h)
    BY <1>2, <2>3 DEF Elems
  <2> QED BY <2>1, <2>2, <2>4
<1>6. g \in [Tiers -> Seq(Block)] /\ g[t] = h /\ \A s \in Tiers \ {t} : g[s] = free[s]
  BY <1>0, <1>2 DEF xdeallocate
<1>7. FreeKept(g)
  <2> HIDE DEF g, h
  <2> SUFFICES ASSUME NEW s \in Tiers
               PROVE  /\ \A i, j \in DOMAIN g[s] : g[s][i] = g[s][j] => i = j
                      /\ \A k \in Elems(g[s]) : k \in Block /\ k[1] = s
    BY DEF FreeKept
  <2>1. CASE s = t
    BY <1>4, <1>5, <1>6, <2>1 DEF FreeKept
  <2>2. CASE s # t
    BY <1>6, <2>2 DEF FreeKept
  <2> QED BY <2>1, <2>2
<1> QED BY <1>5, <1>6, <1>7

-----------------------------------------------------------------------------
(* A buffer moves to a larger block, or gives its block back.                *)

Unchanged(M, n, b) == \A a \in Buffer \ {b} : n.ctx[a] = M.ctx[a]

LEMMA MemoryParts ==
  ASSUME NEW B, NEW M \in Memory(B)
  PROVE  /\ M.free \in [Tiers -> Seq(Block)] /\ M.ctx \in [Buffer -> Context] /\ M.mem \in [Block -> Seq(B)]
         /\ \A b \in Buffer : /\ M.ctx[b].data \in Block \union {NoBlock}
                              /\ M.ctx[b].size \in Nat /\ M.ctx[b].capacity \in Nat /\ M.ctx[b].head \in Nat
BY DEF Memory, Context

(* The first block of tier t takes the place of c's block.                   *)
LEMMA MoveKept ==
  ASSUME NEW free, NEW ctx, Kept(free, ctx), NEW b \in Buffer,
         NEW t \in Tiers, free[t] # <<>>,
         ctx[b].size <= SIZES[t], ctx[b].data # NoBlock => ctx[b].data[1] # t
  PROVE  LET c    == ctx[b]
             k    == Head(free[t])
             left == [free EXCEPT ![t] = Tail(@)]
             g    == IF c.data = NoBlock THEN left ELSE xdeallocate(left, c.data[1], c.data)
         IN  k \in Block /\ k[1] = t
             /\ Kept(g, [ctx EXCEPT ![b].data = k, ![b].capacity = SIZES[t]])
<1> DEFINE c    == ctx[b]
           k    == Head(free[t])
           left == [free EXCEPT ![t] = Tail(@)]
           g    == IF c.data = NoBlock THEN left ELSE xdeallocate(left, c.data[1], c.data)
           new  == [c EXCEPT !.data = k, !.capacity = SIZES[t]]
           ctx2 == [ctx EXCEPT ![b].data = k, ![b].capacity = SIZES[t]]
<1>0. /\ free \in [Tiers -> Seq(Block)] /\ ctx \in [Buffer -> Context] /\ FreeKept(free)
      /\ (\A a \in Buffer : Inside(ctx[a])) /\ Apart(free, ctx) /\ Complete(free, ctx)
  BY DEF Kept
<1>1. /\ left \in [Tiers -> Seq(Block)] /\ FreeKept(left)
      /\ k \in Elems(free[t])
      /\ Elems(left[t]) = Elems(free[t]) \ {k}
      /\ \A s \in Tiers \ {t} : left[s] = free[s]
  BY <1>0, TailKept
<1>2. k \in Block /\ k[1] = t
  BY <1>0, <1>1 DEF FreeKept
<1>3. c \in Context /\ c.data \in Block \union {NoBlock}
  BY <1>0 DEF Context
<1> HIDE DEF left, k
<1>4. /\ g \in [Tiers -> Seq(Block)] /\ FreeKept(g)
      /\ Elems(g[t]) = Elems(free[t]) \ {k}
      /\ \A s \in Tiers \ {t} : Elems(g[s]) = Elems(free[s]) \union (IF c.data # NoBlock /\ s = c.data[1] THEN {c.data} ELSE {})
  <2>1. CASE c.data = NoBlock
    BY <1>1, <2>1
  <2>2. CASE c.data # NoBlock
    <3>1. c.data \in Block /\ c.data[1] \in Tiers /\ c.data[1] # t
      BY <1>3, <2>2, BlockFacts
    <3>2. c.data \notin Elems(left[c.data[1]])
      BY <1>0, <1>1, <2>2, <3>1 DEF Apart
    <3>3. /\ g \in [Tiers -> Seq(Block)] /\ FreeKept(g)
          /\ Elems(g[c.data[1]]) = Elems(left[c.data[1]]) \union {c.data}
          /\ \A s \in Tiers \ {c.data[1]} : g[s] = left[s]
      BY <1>1, <2>2, <3>1, <3>2, BackKept
    <3> HIDE DEF g, c
    <3> QED BY <1>1, <2>2, <3>1, <3>3
  <2> QED BY <2>1, <2>2
<1>5. /\ ctx2[b] = new /\ \A a \in Buffer \ {b} : ctx2[a] = ctx[a]
  BY <1>0, <1>3 DEF Context
<1>6. /\ new.data = k /\ new.capacity = SIZES[t] /\ new.size = c.size /\ new.head = c.head
      /\ new \in Context
  BY <1>2, <1>3, BlockFacts DEF Context
<1>7. ctx2 \in [Buffer -> Context]
  BY <1>0, <1>6
<1>8. k # NoBlock /\ \A a \in Buffer : ctx[a].data # k
  <2>1. k # NoBlock
    BY <1>2, BlockFacts
  <2> QED BY <1>0, <1>1, <1>2, <2>1 DEF Apart
<1> HIDE DEF g, ctx2, new, c
<1>9. \A a \in Buffer : Inside(ctx2[a])
  <2>1. Inside(ctx2[b])
    BY <1>0, <1>2, <1>5, <1>6, <1>8 DEF Inside, c
  <2> QED BY <1>0, <1>5, <2>1
<1>10. Apart(g, ctx2)
  <2>1. ASSUME NEW a \in Buffer, ctx2[a].data # NoBlock PROVE ctx2[a].data \notin Elems(g[ctx2[a].data[1]])
    <3>1. CASE a = b
      BY <1>2, <1>4, <1>5, <1>6, <3>1
    <3>2. CASE a # b
      <4>1. ctx2[a] = ctx[a] /\ ctx[a].data \in Block /\ ctx[a].data[1] \in Tiers
        BY <1>0, <1>5, <2>1, <3>2, BlockFacts DEF Context
      <4>2. ctx[a].data \notin Elems(free[ctx[a].data[1]]) /\ (c.data # NoBlock => ctx[a].data # c.data)
        BY <1>0, <2>1, <3>2, <4>1 DEF Apart, c
      <4> QED BY <1>4, <4>1, <4>2
    <3> QED BY <3>1, <3>2
  <2>2. ASSUME NEW a \in Buffer, NEW d \in Buffer, ctx2[d].data # NoBlock, a # d
        PROVE  ctx2[a].data # ctx2[d].data
    BY <1>0, <1>5, <1>6, <1>8, <2>2 DEF Apart
  <2> QED BY <2>1, <2>2 DEF Apart
<1>11. Complete(g, ctx2)
  <2> SUFFICES ASSUME NEW x \in Block PROVE x \in Elems(g[x[1]]) \/ \E a \in Buffer : ctx2[a].data = x
    BY DEF Complete
  <2>0. x[1] \in Tiers /\ x # NoBlock
    BY BlockFacts
  <2>1. CASE x = k
    BY <1>5, <1>6, <2>1
  <2>2. CASE x # k /\ x \in Elems(free[x[1]])
    BY <1>4, <2>0, <2>2
  <2>3. CASE x = c.data
    <3>1. c.data # NoBlock /\ x[1] # t
      BY <2>0, <2>3 DEF c
    <3> QED BY <1>4, <2>0, <2>3, <3>1
  <2>4. CASE x \notin Elems(free[x[1]]) /\ x # c.data
    <3>1. PICK a \in Buffer : ctx[a].data = x
      BY <1>0, <2>4 DEF Complete
    <3>2. a # b
      BY <2>4, <3>1 DEF c
    <3> QED BY <1>5, <3>1, <3>2
  <2> QED BY <2>1, <2>2, <2>3, <2>4
<1> QED BY <1>2, <1>4, <1>7, <1>9, <1>10, <1>11 DEF Kept, g, ctx2, c, k, left

(* A buffer gives back its block and holds nothing.                          *)
LEMMA BackGiven ==
  ASSUME NEW free, NEW ctx, Kept(free, ctx), NEW b \in Buffer, ctx[b].data # NoBlock
  PROVE  Kept(xdeallocate(free, ctx[b].data[1], ctx[b].data), [ctx EXCEPT ![b] = NoContext])
<1> DEFINE d    == ctx[b].data
           g    == xdeallocate(free, d[1], d)
           ctx2 == [ctx EXCEPT ![b] = NoContext]
<1>0. /\ free \in [Tiers -> Seq(Block)] /\ ctx \in [Buffer -> Context] /\ FreeKept(free)
      /\ (\A a \in Buffer : Inside(ctx[a])) /\ Apart(free, ctx) /\ Complete(free, ctx)
  BY DEF Kept
<1>1. d \in Block /\ d[1] \in Tiers /\ d # NoBlock
  BY <1>0, BlockFacts DEF Context
<1>2. d \notin Elems(free[d[1]])
  BY <1>0, <1>1 DEF Apart
<1>3. /\ g \in [Tiers -> Seq(Block)] /\ FreeKept(g)
      /\ Elems(g[d[1]]) = Elems(free[d[1]]) \union {d}
      /\ \A s \in Tiers \ {d[1]} : g[s] = free[s]
  BY <1>0, <1>1, <1>2, BackKept
<1>4. /\ NoContext \in Context /\ Inside(NoContext) /\ NoContext.data = NoBlock
      /\ ctx2 \in [Buffer -> Context] /\ ctx2[b] = NoContext
      /\ \A a \in Buffer \ {b} : ctx2[a] = ctx[a]
  BY <1>0 DEF NoContext, Context, Inside
<1>5. \A a \in Buffer \ {b} : ctx[a].data # d
  BY <1>0, <1>1 DEF Apart
<1> HIDE DEF g, ctx2, d
<1>6. \A a \in Buffer : Inside(ctx2[a])
  BY <1>0, <1>4
<1>7. Apart(g, ctx2)
  <2>1. ASSUME NEW a \in Buffer, ctx2[a].data # NoBlock PROVE ctx2[a].data \notin Elems(g[ctx2[a].data[1]])
    <3>1. a # b /\ ctx2[a] = ctx[a] /\ ctx[a].data \in Block /\ ctx[a].data[1] \in Tiers
      BY <1>0, <1>4, <2>1, BlockFacts DEF Context
    <3>2. ctx[a].data \notin Elems(free[ctx[a].data[1]]) /\ ctx[a].data # d
      BY <1>0, <1>5, <2>1, <3>1 DEF Apart
    <3> QED BY <1>3, <3>1, <3>2
  <2>2. ASSUME NEW a \in Buffer, NEW e \in Buffer, ctx2[e].data # NoBlock, a # e
        PROVE  ctx2[a].data # ctx2[e].data
    BY <1>0, <1>4, <2>2 DEF Apart
  <2> QED BY <2>1, <2>2 DEF Apart
<1>8. Complete(g, ctx2)
  <2> SUFFICES ASSUME NEW x \in Block PROVE x \in Elems(g[x[1]]) \/ \E a \in Buffer : ctx2[a].data = x
    BY DEF Complete
  <2>0. x[1] \in Tiers
    BY BlockFacts
  <2>1. CASE x = d
    BY <1>3, <2>1
  <2>2. CASE x # d /\ x \in Elems(free[x[1]])
    BY <1>3, <2>0, <2>2
  <2>3. CASE x # d /\ x \notin Elems(free[x[1]])
    <3>1. PICK a \in Buffer : ctx[a].data = x
      BY <1>0, <2>3 DEF Complete
    <3> QED BY <1>4, <2>3, <3>1 DEF d
  <2> QED BY <2>1, <2>2, <2>3
<1> QED BY <1>3, <1>4, <1>6, <1>7, <1>8 DEF Kept, g, ctx2, d

-----------------------------------------------------------------------------
(* The operations.  A buffer that is cleared holds nothing.                  *)

LEMMA Rebuilt ==
  ASSUME NEW B, NEW free, NEW ctx, NEW mem \in [Block -> Seq(B)], Kept(free, ctx)
  PROVE  Good([free |-> free, ctx |-> ctx, mem |-> mem], B)
<1>1. [free |-> free, ctx |-> ctx, mem |-> mem] \in Memory(B)
  BY DEF Kept, Memory
<1> QED BY <1>1, KeptMeans DEF Good

LEMMA GoodParts ==
  ASSUME NEW B, NEW M, Good(M, B)
  PROVE  /\ M \in Memory(B) /\ Kept(M.free, M.ctx)
         /\ M.free \in [Tiers -> Seq(Block)] /\ M.ctx \in [Buffer -> Context] /\ M.mem \in [Block -> Seq(B)]
         /\ M = [free |-> M.free, ctx |-> M.ctx, mem |-> M.mem]
         /\ \A b \in Buffer : /\ M.ctx[b].data \in Block \union {NoBlock}
                              /\ M.ctx[b].size \in Nat /\ M.ctx[b].capacity \in Nat /\ M.ctx[b].head \in Nat
                              /\ Inside(M.ctx[b])
                              /\ M.ctx[b].data # NoBlock =>
                                   /\ M.ctx[b].data[1] \in Tiers
                                   /\ capacity2tier(M.ctx[b].capacity) = M.ctx[b].data[1]
<1>1. M \in Memory(B) /\ Kept(M.free, M.ctx)
  BY KeptMeans DEF Good
<1>2. \A b \in Buffer : /\ M.ctx[b].data \in Block \union {NoBlock}
                         /\ M.ctx[b].size \in Nat /\ M.ctx[b].capacity \in Nat /\ M.ctx[b].head \in Nat
                         /\ Inside(M.ctx[b])
  BY <1>1, MemoryParts DEF Kept
<1>3. \A b \in Buffer : M.ctx[b].data # NoBlock =>
                            /\ M.ctx[b].data[1] \in Tiers
                            /\ capacity2tier(M.ctx[b].capacity) = M.ctx[b].data[1]
  <2> SUFFICES ASSUME NEW b \in Buffer, M.ctx[b].data # NoBlock
               PROVE  M.ctx[b].data[1] \in Tiers /\ capacity2tier(M.ctx[b].capacity) = M.ctx[b].data[1]
    OBVIOUS
  <2>1. M.ctx[b].data[1] \in Tiers /\ M.ctx[b].capacity = SIZES[M.ctx[b].data[1]]
    BY <1>2, BlockFacts DEF Inside
  <2> QED BY <2>1, TierOfSize
<1>4. M = [free |-> M.free, ctx |-> M.ctx, mem |-> M.mem]
  BY <1>1 DEF Memory
<1> QED BY <1>1, <1>2, <1>3, <1>4, MemoryParts

LEMMA AnotherContext ==
  ASSUME NEW M, NEW b, NEW e, M = [free |-> M.free, ctx |-> M.ctx, mem |-> M.mem]
  PROVE  [M EXCEPT !.ctx[b] = e] = [free |-> M.free, ctx |-> [M.ctx EXCEPT ![b] = e], mem |-> M.mem]
OBVIOUS

LEMMA AnotherBlock ==
  ASSUME NEW M, NEW k, NEW e, M = [free |-> M.free, ctx |-> M.ctx, mem |-> M.mem]
  PROVE  [M EXCEPT !.mem[k] = e] = [free |-> M.free, ctx |-> M.ctx, mem |-> [M.mem EXCEPT ![k] = e]]
OBVIOUS

LEMMA ClearGood ==
  ASSUME NEW B, NEW M, Good(M, B), NEW b \in Buffer
  PROVE  Good(clear(M, b), B) /\ clear(M, b).ctx[b] = NoContext /\ Unchanged(M, clear(M, b), b)
<1> DEFINE c    == M.ctx[b]
           ctx2 == [M.ctx EXCEPT ![b] = NoContext]
<1>1. /\ c \in Context /\ M.ctx \in [Buffer -> Context] /\ Kept(M.free, M.ctx) /\ M.mem \in [Block -> Seq(B)]
      /\ M = [free |-> M.free, ctx |-> M.ctx, mem |-> M.mem]
  BY GoodParts
<1>2. ctx2[b] = NoContext /\ \A a \in Buffer \ {b} : ctx2[a] = M.ctx[a]
  BY <1>1
<1> DEFINE e    == [NoContext EXCEPT !.head = c.head]
           ctx1 == [M.ctx EXCEPT ![b] = e]
<1>3. [ctx1 EXCEPT ![b].head = 0] = ctx2
  <2>1. [e EXCEPT !.head = 0] = NoContext
    <3>1. e = [data |-> NoBlock, size |-> 0, capacity |-> 0, head |-> c.head]
      BY DEF NoContext
    <3> HIDE DEF e
    <3> QED BY <3>1 DEF NoContext
  <2> HIDE DEF e
  <2> QED BY <1>1, <2>1
<1>4. CASE c.data = NoBlock
  <2>1. deallocate(M, b) = [free |-> M.free, ctx |-> ctx1, mem |-> M.mem]
    BY <1>1, <1>4, AnotherContext DEF deallocate
  <2>4. clear(M, b) = [free |-> M.free, ctx |-> [ctx1 EXCEPT ![b].head = 0], mem |-> M.mem]
    <3> HIDE DEF ctx1
    <3> QED BY <2>1 DEF clear
  <2>2. Kept(M.free, ctx2)
    <3>1. NoContext \in Context /\ Inside(NoContext) /\ NoContext.data = NoBlock
      BY DEF NoContext, Context, Inside
    <3>0. ctx2 \in [Buffer -> Context]
      BY <1>1, <3>1
    <3> HIDE DEF ctx2
    <3>4. \A a \in Buffer : Inside(M.ctx[a])
      BY GoodParts
    <3>5. \A a \in Buffer : Inside(ctx2[a]) /\ ctx2[a].data = M.ctx[a].data
      BY <1>2, <1>4, <3>1, <3>4
    <3>2. ctx2 \in [Buffer -> Context] /\ \A a \in Buffer : Inside(ctx2[a]) /\ ctx2[a].data = M.ctx[a].data
      BY <3>0, <3>5
    <3>3. Apart(M.free, ctx2) /\ Complete(M.free, ctx2)
      <4>1. Apart(M.free, M.ctx) /\ Complete(M.free, M.ctx)
        BY <1>1 DEF Kept
      <4>2. Apart(M.free, ctx2)
        BY <3>2, <4>1 DEF Apart
      <4>3. Complete(M.free, ctx2)
        BY <3>2, <4>1 DEF Complete
      <4> QED BY <4>2, <4>3
    <3> QED BY <1>1, <3>2, <3>3 DEF Kept
  <2> HIDE DEF ctx1, ctx2
  <2>5. clear(M, b) = [free |-> M.free, ctx |-> ctx2, mem |-> M.mem]
    BY <1>3, <2>4
  <2>6. Good([free |-> M.free, ctx |-> ctx2, mem |-> M.mem], B)
    BY <1>1, <2>2, Rebuilt
  <2> QED BY <1>2, <2>5, <2>6 DEF Unchanged
<1>5. CASE c.data # NoBlock
  <2> DEFINE mem2 == [M.mem EXCEPT ![c.data] = <<>>]
             free2 == xdeallocate(M.free, c.data[1], c.data)
  <2>1. clear(M, b) = [free |-> free2, ctx |-> ctx2, mem |-> mem2]
    <3>1. deallocate(M, b) = [free |-> free2, ctx |-> ctx1, mem |-> mem2]
      <4>1. capacity2tier(c.capacity) = c.data[1]
        BY <1>5, GoodParts
      <4> QED BY <1>1, <1>5, <4>1 DEF deallocate
    <3> HIDE DEF free2, ctx1, mem2, ctx2
    <3> QED BY <1>3, <3>1 DEF clear
  <2>2. Kept(free2, ctx2)
    BY <1>1, <1>5, BackGiven
  <2>3. mem2 \in [Block -> Seq(B)]
    <3>1. <<>> \in Seq(B)
      OBVIOUS
    <3> QED BY <1>1, <3>1
  <2> HIDE DEF mem2, free2, ctx2
  <2> QED BY <1>2, <2>1, <2>2, <2>3, Rebuilt DEF Unchanged
<1> QED BY <1>4, <1>5

(* What is read from a block is bytes, or the garbage of nobody's.           *)
LEMMA HeldBytes ==
  ASSUME NEW B, Garbage \in B, NEW M, M.mem \in [Block -> Seq(B)], NEW k, NEW off \in Nat, NEW n \in Nat
  PROVE  Held(M, k, off, n) \in Seq(B) /\ Len(Held(M, k, off, n)) = n
<1>1. \A i \in Nat : Unwritten(i) \in Seq(B) /\ Len(Unwritten(i)) = i
  BY DEF Unwritten
<1>2. CASE k \in Block
  <2> DEFINE old  == M.mem[k]
             rest == Unwritten(off + n)
             all  == old \o rest
  <2>0. Held(M, k, off, n) = SubSeq(all, off + 1, off + n)
    BY <1>2 DEF Held
  <2>3. old \in Seq(B)
    BY <1>2
  <2>4. off + n \in Nat
    OBVIOUS
  <2>5. rest \in Seq(B) /\ Len(rest) = off + n
    BY <1>1, <2>4
  <2> HIDE DEF old, rest
  <2>1. all \in Seq(B) /\ Len(all) = Len(old) + (off + n) /\ Len(old) \in Nat
    <3>1. all \in Seq(B) /\ Len(all) = Len(old) + Len(rest)
      BY <2>3, <2>5, ConcatProperties
    <3> QED BY <2>3, <2>5, <3>1
  <2> HIDE DEF all
  <2>2. off + 1 \in 1 .. Len(all) + 1 /\ off + n \in off + 1 - 1 .. Len(all)
    BY <2>1
  <2>6. /\ SubSeq(all, off + 1, off + n) \in Seq(B)
        /\ Len(SubSeq(all, off + 1, off + n)) = IF off + 1 <= off + n THEN (off + n) - (off + 1) + 1 ELSE 0
    BY <2>1, <2>2, SubSeqProperties
  <2>7. Len(SubSeq(all, off + 1, off + n)) = n
    BY <2>6
  <2> QED BY <2>0, <2>6, <2>7
<1>3. CASE k \notin Block
  BY <1>1, <1>3 DEF Held
<1> QED BY <1>2, <1>3

(* A buffer that has no block, or one of a smaller tier, moves to tier t.    *)
LEMMA MovedGood ==
  ASSUME NEW B, Garbage \in B, NEW M, Good(M, B), NEW b \in Buffer,
         NEW t \in Tiers, M.free[t] # <<>>,
         M.ctx[b].data # NoBlock => M.ctx[b].data[1] < t
  PROVE  LET n == Moved(M, b, Head(M.free[t]))
         IN  /\ Good(n, B) /\ Unchanged(M, n, b)
             /\ n.ctx[b].size = M.ctx[b].size /\ n.ctx[b].head = M.ctx[b].head
             /\ n.ctx[b].data # NoBlock /\ n.ctx[b].capacity = SIZES[t]
<1> DEFINE c    == M.ctx[b]
           k    == Head(M.free[t])
           left == [M.free EXCEPT ![t] = Tail(@)]
           g    == IF c.data = NoBlock THEN left ELSE xdeallocate(left, c.data[1], c.data)
           ctx2 == [M.ctx EXCEPT ![b].data = k, ![b].capacity = SIZES[t]]
           held == Held(M, c.data, 0, c.size)
           mem2 == [x \in Block |-> IF x = k THEN held ELSE IF x = c.data THEN <<>> ELSE M.mem[x]]
<1>1. /\ Kept(M.free, M.ctx) /\ M.ctx \in [Buffer -> Context] /\ M.mem \in [Block -> Seq(B)]
      /\ c.data \in Block \union {NoBlock} /\ c.size \in Nat /\ c.capacity \in Nat /\ Inside(c)
      /\ c.data # NoBlock => c.data[1] \in Tiers /\ capacity2tier(c.capacity) = c.data[1]
  BY GoodParts
<1>2. c.size <= SIZES[t]
  <2>1. SIZES[t] \in Nat
    BY BlockFacts
  <2>2. CASE c.data = NoBlock
    BY <1>1, <2>1, <2>2 DEF Inside
  <2>3. CASE c.data # NoBlock
    <3>1. SIZES[c.data[1]] < SIZES[t] /\ SIZES[c.data[1]] \in Nat /\ c.size <= SIZES[c.data[1]]
      BY <1>1, <2>3, MemoryAssumption, BlockFacts DEF Inside
    <3> QED BY <1>1, <2>1, <3>1
  <2> QED BY <2>2, <2>3
<1>3. c.data # NoBlock => c.data[1] # t
  <2>1. t \in Nat
    BY BlockFacts
  <2> QED BY <1>1, <2>1
<1>4. k \in Block /\ k[1] = t /\ Kept(g, ctx2)
  BY <1>1, <1>2, <1>3, MoveKept
<1>5. Moved(M, b, k) = [free |-> g, ctx |-> ctx2, mem |-> mem2]
  <2>1. xallocate(M, k[1]) = left
    BY <1>4 DEF xallocate
  <2>2. CASE c.data = NoBlock
    BY <1>4, <2>1, <2>2 DEF Moved
  <2>3. CASE c.data # NoBlock
    BY <1>1, <1>4, <2>1, <2>3 DEF Moved
  <2> QED BY <2>2, <2>3
<1>6. mem2 \in [Block -> Seq(B)]
  <2>1. held \in Seq(B)
    BY <1>1, HeldBytes
  <2>2. <<>> \in Seq(B)
    OBVIOUS
  <2> HIDE DEF held
  <2> QED BY <1>1, <2>1, <2>2
<1>7. /\ ctx2[b].size = c.size /\ ctx2[b].head = c.head /\ ctx2[b].data = k /\ ctx2[b].capacity = SIZES[t]
      /\ \A a \in Buffer \ {b} : ctx2[a] = M.ctx[a]
  BY <1>1 DEF Context
<1>8. k # NoBlock
  BY <1>4, BlockFacts
<1> HIDE DEF g, ctx2, mem2, k
<1>9. Good([free |-> g, ctx |-> ctx2, mem |-> mem2], B)
  BY <1>4, <1>6, Rebuilt
<1> QED BY <1>5, <1>7, <1>8, <1>9 DEF Unchanged, k

(* allocate finds room for what is needed, or changes nothing.               *)
LEMMA AllocateGood ==
  ASSUME NEW B, Garbage \in B, NEW M, Good(M, B), NEW b \in Buffer, NEW needed \in Nat
  PROVE  LET a == allocate(M, b, needed)
         IN  /\ a.ok \in BOOLEAN /\ Good(a.m, B) /\ Unchanged(M, a.m, b)
             /\ a.m.ctx[b].size = M.ctx[b].size /\ a.m.ctx[b].head = M.ctx[b].head
             /\ a.ok => a.m.ctx[b].data # NoBlock /\ needed <= a.m.ctx[b].capacity
             /\ ~ a.ok => a.m = M
<1> DEFINE c    == M.ctx[b]
           tier == findTier(needed)
           a    == allocate(M, b, needed)
<1>1. /\ c.data \in Block \union {NoBlock} /\ c.size \in Nat /\ c.capacity \in Nat /\ Inside(c)
      /\ c.data # NoBlock => c.data[1] \in Tiers /\ capacity2tier(c.capacity) = c.data[1]
  BY GoodParts
<1>2. /\ tier \in 1 .. Len(SIZES) + 1 /\ (tier \in Tiers => needed <= SIZES[tier])
  BY TierFound
<1>3. Len(SIZES) \in Nat /\ Tiers = 1 .. Len(SIZES)
  BY MemoryAssumption DEF Tiers
<1> HIDE DEF tier
<1>4. \A t \in Tiers : t >= tier => needed <= SIZES[t]
  <2> SUFFICES ASSUME NEW t \in Tiers, t >= tier PROVE needed <= SIZES[t]
    OBVIOUS
  <2>1. tier \in Tiers
    BY <1>2, <1>3
  <2>2. SIZES[tier] \in Nat /\ SIZES[t] \in Nat /\ needed <= SIZES[tier]
    BY <1>2, <2>1, BlockFacts
  <2>3. t = tier \/ SIZES[tier] < SIZES[t]
    BY <1>3, <2>1, MemoryAssumption
  <2> QED BY <2>2, <2>3
<1>5. CASE c.data # NoBlock /\ capacity2tier(c.capacity) >= tier
  <2>1. a = [ok |-> TRUE, m |-> M]
    BY <1>5 DEF allocate, tier
  <2>2. needed <= c.capacity
    BY <1>1, <1>4, <1>5 DEF Inside
  <2> QED BY <1>5, <2>1, <2>2 DEF Unchanged
<1>6. CASE ~ (c.data # NoBlock /\ capacity2tier(c.capacity) >= tier)
           /\ \A t \in tier .. Len(SIZES) : M.free[t] = <<>>
  <2>1. a = [ok |-> FALSE, m |-> M]
    BY <1>6 DEF allocate, tier
  <2> QED BY <2>1 DEF Unchanged
<1>7. CASE ~ (c.data # NoBlock /\ capacity2tier(c.capacity) >= tier)
           /\ ~ \A t \in tier .. Len(SIZES) : M.free[t] = <<>>
  <2> DEFINE S == {t \in tier .. Len(SIZES) : M.free[t] # <<>>}
             P(t) == M.free[t] # <<>> /\ \A s \in tier .. t - 1 : ~ (M.free[s] # <<>>)
             t0 == CHOOSE t \in tier .. Len(SIZES) : P(t)
  <2>1. S \in SUBSET Nat /\ S # {}
    BY <1>2, <1>3, <1>7
  <2>2. PICK t \in S : \A s \in S : t <= s
    BY <2>1, SmallestExists
  <2>3. \A s \in tier .. t - 1 : s \in tier .. Len(SIZES) /\ ~ (t <= s)
    BY <1>2, <1>3, <2>2
  <2>4. t \in tier .. Len(SIZES) /\ P(t)
    BY <2>2, <2>3
  <2>5. t0 \in tier .. Len(SIZES) /\ P(t0)
    <3> HIDE DEF P
    <3> QED BY <2>4
  <2>6. a = [ok |-> TRUE, m |-> Moved(M, b, Head(M.free[t0]))]
    BY <1>7 DEF allocate, tier
  <2> HIDE DEF t0, a, c
  <2>7. t0 \in Tiers /\ t0 >= tier /\ M.free[t0] # <<>>
    BY <1>2, <1>3, <2>5
  <2>8. c.data # NoBlock => c.data[1] < t0
    BY <1>1, <1>2, <1>3, <1>7, <2>7
  <2>9. needed <= SIZES[t0]
    BY <1>4, <2>7
  <2> DEFINE n == Moved(M, b, Head(M.free[t0]))
  <2>10. /\ Good(n, B) /\ Unchanged(M, n, b)
         /\ n.ctx[b].size = M.ctx[b].size /\ n.ctx[b].head = M.ctx[b].head
         /\ n.ctx[b].data # NoBlock /\ n.ctx[b].capacity = SIZES[t0]
    BY <2>7, <2>8, MovedGood DEF c
  <2> HIDE DEF n
  <2>11. a.ok = TRUE /\ a.m = n
    BY <2>6 DEF n
  <2> QED BY <2>9, <2>10, <2>11 DEF a
<1> QED BY <1>5, <1>6, <1>7

-----------------------------------------------------------------------------
(* AMBuffer and IOBuffer.                                                    *)

(* A buffer knows something else of its block.                               *)
LEMMA ContextKept ==
  ASSUME NEW free, NEW ctx, Kept(free, ctx), NEW b \in Buffer,
         NEW e \in Context, Inside(e), e.data = ctx[b].data
  PROVE  Kept(free, [ctx EXCEPT ![b] = e])
<1> DEFINE ctx2 == [ctx EXCEPT ![b] = e]
<1>0. /\ free \in [Tiers -> Seq(Block)] /\ ctx \in [Buffer -> Context] /\ FreeKept(free)
      /\ (\A a \in Buffer : Inside(ctx[a])) /\ Apart(free, ctx) /\ Complete(free, ctx)
  BY DEF Kept
<1>1. ctx2 \in [Buffer -> Context] /\ ctx2[b] = e /\ \A a \in Buffer \ {b} : ctx2[a] = ctx[a]
  BY <1>0
<1> HIDE DEF ctx2
<1>2. \A a \in Buffer : Inside(ctx2[a]) /\ ctx2[a].data = ctx[a].data
  BY <1>0, <1>1
<1>3. Apart(free, ctx2)
  BY <1>0, <1>2 DEF Apart
<1>4. Complete(free, ctx2)
  BY <1>0, <1>2 DEF Complete
<1> QED BY <1>0, <1>1, <1>2, <1>3, <1>4 DEF Kept, ctx2

LEMMA PrefixBytes ==
  ASSUME NEW B, NEW s \in Seq(B), NEW n \in Nat
  PROVE  SubSeq(s, 1, Least(Len(s), n)) \in Seq(B)
<1>1. Least(Len(s), n) \in 0 .. Len(s) /\ Len(s) \in Nat
  BY DEF Least
<1> QED BY <1>1

(* resize tells whether there was room; what the others hold is theirs.      *)
LEMMA ResizeGood ==
  ASSUME NEW B, Garbage \in B, NEW M, Good(M, B), NEW b \in Buffer,
         NEW n \in Nat, M.ctx[b].head <= n
  PROVE  LET r == resize(M, b, n)
         IN  /\ r.ok \in BOOLEAN /\ Good(r.m, B) /\ Unchanged(M, r.m, b)
             /\ r.m.ctx[b].head = M.ctx[b].head
             /\ r.ok => r.m.ctx[b].size = n
             /\ ~ r.ok => r.m = M
<1> DEFINE a    == IF n > M.ctx[b].capacity THEN allocate(M, b, n) ELSE [ok |-> TRUE, m |-> M]
           p    == a.m
           k    == p.ctx[b].data
           e    == [p.ctx[b] EXCEPT !.size = n]
           ctx2 == [p.ctx EXCEPT ![b] = e]
           r    == resize(M, b, n)
<1>1. /\ a.ok \in BOOLEAN /\ Good(p, B) /\ Unchanged(M, p, b)
      /\ p.ctx[b].size = M.ctx[b].size /\ p.ctx[b].head = M.ctx[b].head
      /\ a.ok => n <= p.ctx[b].capacity
      /\ ~ a.ok => p = M
  <2>1. M.ctx[b].capacity \in Nat
    BY GoodParts
  <2>2. CASE n > M.ctx[b].capacity
    <3>1. a = allocate(M, b, n)
      BY <2>2
    <3> HIDE DEF a
    <3> QED BY <3>1, AllocateGood
  <2>3. CASE ~ (n > M.ctx[b].capacity)
    <3>1. a.ok = TRUE /\ p = M
      BY <2>3
    <3> HIDE DEF a
    <3>2. n <= p.ctx[b].capacity
      BY <2>1, <2>3, <3>1
    <3> QED BY <3>1, <3>2 DEF Unchanged
  <2> QED BY <2>2, <2>3
<1> DEFINE kept == [p EXCEPT !.ctx[b].size = n]
<1>2. r = IF ~ a.ok THEN a
          ELSE [ok |-> TRUE,
                m  |-> IF k = NoBlock THEN kept
                       ELSE [kept EXCEPT !.mem[k] = SubSeq(@, 1, Least(Len(@), n))]]
  BY DEF resize
<1> HIDE DEF a, r
<1>3. CASE ~ a.ok
  <2>1. r = a
    BY <1>2, <1>3
  <2> QED BY <1>1, <1>3, <2>1 DEF r
<1>4. CASE a.ok
  <2>0. /\ p = [free |-> p.free, ctx |-> p.ctx, mem |-> p.mem]
        /\ Kept(p.free, p.ctx) /\ p.ctx \in [Buffer -> Context] /\ p.mem \in [Block -> Seq(B)]
        /\ p.ctx[b] \in Context /\ Inside(p.ctx[b]) /\ k \in Block \union {NoBlock}
    BY <1>1, GoodParts
  <2>1. e \in Context /\ Inside(e) /\ e.data = p.ctx[b].data /\ e.head = p.ctx[b].head /\ e.size = n
    BY <1>1, <1>4, <2>0 DEF Context, Inside
  <2>2. Kept(p.free, ctx2)
    BY <2>0, <2>1, ContextKept
  <2>3. kept = [free |-> p.free, ctx |-> ctx2, mem |-> p.mem]
    <3> HIDE DEF p
    <3>1. p = [free |-> p.free, ctx |-> p.ctx, mem |-> p.mem]
      BY <2>0
    <3>2. kept = [p EXCEPT !.ctx[b] = e]
      OBVIOUS
    <3> HIDE DEF kept, e
    <3> QED BY <3>1, <3>2, AnotherContext
  <2>4. ctx2[b] = e /\ \A x \in Buffer \ {b} : ctx2[x] = p.ctx[x]
    BY <2>0
  <2> DEFINE mem2 == IF k = NoBlock THEN p.mem
                     ELSE [p.mem EXCEPT ![k] = SubSeq(@, 1, Least(Len(@), n))]
  <2>5. mem2 \in [Block -> Seq(B)]
    <3>1. CASE k = NoBlock
      BY <2>0, <3>1
    <3>2. CASE k # NoBlock
      <4>1. SubSeq(p.mem[k], 1, Least(Len(p.mem[k]), n)) \in Seq(B)
        BY <2>0, <3>2, PrefixBytes
      <4> QED BY <2>0, <3>2, <4>1
    <3> QED BY <3>1, <3>2
  <2>6. r.ok /\ r.m = [free |-> p.free, ctx |-> ctx2, mem |-> mem2]
    <3> HIDE DEF kept, ctx2, e, p, k
    <3> QED BY <1>2, <1>4, <2>3
  <2> HIDE DEF mem2, ctx2, e, p
  <2>7. Good(r.m, B)
    BY <2>2, <2>5, <2>6, Rebuilt
  <2>8. r.m.ctx = ctx2
    BY <2>6
  <2>9. r.m.ctx[b].size = n /\ r.m.ctx[b].head = M.ctx[b].head
    BY <1>1, <2>1, <2>4, <2>8
  <2>10. Unchanged(M, r.m, b)
    BY <1>1, <2>4, <2>8 DEF Unchanged
  <2> QED BY <2>6, <2>7, <2>9, <2>10 DEF r
<1> QED BY <1>1, <1>3, <1>4

(* Bytes are written into a buffer's block, or nowhere.                      *)
LEMMA CopyGood ==
  ASSUME NEW B, Garbage \in B, NEW M, Good(M, B), NEW b \in Buffer,
         NEW off \in Nat, NEW bytes \in Seq(B)
  PROVE  Good(copy(M, b, off, bytes), B) /\ copy(M, b, off, bytes).ctx = M.ctx
<1> DEFINE k    == M.ctx[b].data
           mem2 == [M.mem EXCEPT ![k] = Stored(@, off, bytes, SIZES[k[1]])]
<1>1. /\ M = [free |-> M.free, ctx |-> M.ctx, mem |-> M.mem]
      /\ Kept(M.free, M.ctx) /\ M.mem \in [Block -> Seq(B)] /\ k \in Block \union {NoBlock}
  BY GoodParts
<1>2. copy(M, b, off, bytes) = [free |-> M.free, ctx |-> M.ctx, mem |-> mem2]
  <2> DEFINE e == Stored(M.mem[k], off, bytes, SIZES[k[1]])
  <2>1. copy(M, b, off, bytes) = [M EXCEPT !.mem[k] = e]
    BY DEF copy
  <2> HIDE DEF e
  <2> QED BY <1>1, <2>1, AnotherBlock DEF e
<1>3. mem2 \in [Block -> Seq(B)]
  <2>1. CASE k = NoBlock
    <3>1. mem2 = M.mem
      BY <1>1, <2>1, BlockFacts
    <3> QED BY <1>1, <3>1
  <2>2. CASE k \in Block
    <3> DEFINE old  == M.mem[k]
               gap  == Unwritten(off)
               lead == SubSeq(old \o gap, 1, off)
               rest == SubSeq(old, off + Len(bytes) + 1, Len(old))
               room == SIZES[k[1]]
    <3>1. old \in Seq(B) /\ gap \in Seq(B) /\ Len(gap) = off /\ room \in Nat
      <4>1. gap \in Seq(B) /\ Len(gap) = off
        BY DEF Unwritten
      <4>2. old \in Seq(B)
        BY <1>1, <2>2
      <4>3. room \in Nat
        BY <2>2, BlockFacts
      <4> QED BY <4>1, <4>2, <4>3
    <3>2. Stored(old, off, bytes, room) = SubSeq(lead \o bytes \o rest, 1, Least(Len(lead \o bytes \o rest), room))
      BY DEF Stored
    <3> HIDE DEF old, gap, room
    <3>3. lead \in Seq(B)
      BY <3>1
    <3>4. rest \in Seq(B)
      BY <3>1
    <3> HIDE DEF lead, rest
    <3>5. lead \o bytes \o rest \in Seq(B)
      BY <3>3, <3>4
    <3>6. Stored(old, off, bytes, room) \in Seq(B)
      BY <3>1, <3>2, <3>5, PrefixBytes
    <3>7. Stored(M.mem[k], off, bytes, SIZES[k[1]]) \in Seq(B)
      BY <3>6 DEF old, room
    <3> QED BY <1>1, <3>7
  <2> QED BY <1>1, <2>1, <2>2
<1> HIDE DEF mem2
<1> QED BY <1>1, <1>2, <1>3, Rebuilt

LEMMA SwapGood ==
  ASSUME NEW B, NEW M, Good(M, B), NEW a \in Buffer, NEW b \in Buffer, a # b
  PROVE  LET n == swap(M, a, b)
         IN  /\ Good(n, B) /\ n.ctx[a] = M.ctx[b] /\ n.ctx[b] = M.ctx[a]
             /\ \A c \in Buffer \ {a, b} : n.ctx[c] = M.ctx[c]
<1> DEFINE ctx2 == [M.ctx EXCEPT ![a] = M.ctx[b], ![b] = M.ctx[a]]
<1>1. /\ M = [free |-> M.free, ctx |-> M.ctx, mem |-> M.mem]
      /\ Kept(M.free, M.ctx) /\ M.mem \in [Block -> Seq(B)] /\ M.ctx \in [Buffer -> Context]
  BY GoodParts
<1>2. swap(M, a, b) = [free |-> M.free, ctx |-> ctx2, mem |-> M.mem]
  <2> DEFINE x == M.ctx[a]
             y == M.ctx[b]
  <2>1. swap(M, a, b) = [[M EXCEPT !.ctx[a] = y] EXCEPT !.ctx[b] = x]
    BY DEF swap
  <2> HIDE DEF x, y
  <2> DEFINE n == [M EXCEPT !.ctx[a] = y]
  <2>2. n = [free |-> M.free, ctx |-> [M.ctx EXCEPT ![a] = y], mem |-> M.mem]
    BY <1>1, AnotherContext
  <2> HIDE DEF n
  <2>3. [n EXCEPT !.ctx[b] = x] = [free |-> n.free, ctx |-> [n.ctx EXCEPT ![b] = x], mem |-> n.mem]
    BY <2>2, AnotherContext
  <2> QED BY <2>1, <2>2, <2>3 DEF n, x, y
<1>3. /\ ctx2 \in [Buffer -> Context]
      /\ ctx2[a] = M.ctx[b] /\ ctx2[b] = M.ctx[a] /\ \A c \in Buffer \ {a, b} : ctx2[c] = M.ctx[c]
  BY <1>1
<1> HIDE DEF ctx2
<1>4. Kept(M.free, ctx2)
  <2>0. /\ FreeKept(M.free) /\ M.free \in [Tiers -> Seq(Block)]
        /\ (\A x \in Buffer : Inside(M.ctx[x])) /\ Apart(M.free, M.ctx) /\ Complete(M.free, M.ctx)
    BY <1>1 DEF Kept
  <2>1. \A x \in Buffer : Inside(ctx2[x])
    BY <1>3, <2>0
  <2>2. Apart(M.free, ctx2)
    <3> DEFINE o(x) == IF x = a THEN b ELSE IF x = b THEN a ELSE x
    <3>1. \A x \in Buffer : o(x) \in Buffer /\ ctx2[x] = M.ctx[o(x)]
      BY <1>3
    <3>2. \A x, y \in Buffer : x # y => o(x) # o(y)
      OBVIOUS
    <3> HIDE DEF o
    <3> QED BY <2>0, <3>1, <3>2 DEF Apart
  <2>3. Complete(M.free, ctx2)
    <3> SUFFICES ASSUME NEW k \in Block, k \notin Elems(M.free[k[1]]) PROVE \E x \in Buffer : ctx2[x].data = k
      BY DEF Complete
    <3>1. PICK y \in Buffer : M.ctx[y].data = k
      BY <2>0 DEF Complete
    <3> QED BY <1>3, <3>1
  <2> QED BY <1>3, <2>0, <2>1, <2>2, <2>3 DEF Kept
<1> QED BY <1>1, <1>2, <1>3, <1>4, Rebuilt

(* Room behind what is there.                                                *)
LEMMA ProvideGood ==
  ASSUME NEW B, Garbage \in B, NEW M, Good(M, B), NEW b \in Buffer, NEW n \in Nat
  PROVE  LET p == provideBufferAtLeast(M, b, n)
         IN  /\ p.ok \in BOOLEAN /\ Good(p.m, B) /\ Unchanged(M, p.m, b)
             /\ p.m.ctx[b].head = M.ctx[b].head
             /\ p.ok => p.m.ctx[b].size \in Nat /\ M.ctx[b].size + n <= p.m.ctx[b].size
<1> DEFINE q    == provideBuffer(M, b, n)
           room == q.m.ctx[b].capacity
           r    == resize(q.m, b, room)
           p    == provideBufferAtLeast(M, b, n)
           need == M.ctx[b].size + n
<1>1. /\ M.ctx[b].size \in Nat /\ M.ctx[b].head \in Nat /\ M.ctx[b].head <= M.ctx[b].size
  BY GoodParts DEF Inside
<1>2. need \in Nat /\ M.ctx[b].head <= need /\ q = resize(M, b, need)
  BY <1>1 DEF provideBuffer
<1> HIDE DEF q, need
<1>3. /\ q.ok \in BOOLEAN /\ Good(q.m, B) /\ Unchanged(M, q.m, b)
      /\ q.m.ctx[b].head = M.ctx[b].head /\ (q.ok => q.m.ctx[b].size = need)
  BY <1>2, ResizeGood
<1>4. CASE ~ q.ok
  <2>1. p = q
    BY <1>4 DEF provideBufferAtLeast, q
  <2> QED BY <1>3, <1>4, <2>1
<1>5. CASE q.ok
  <2>1. p = r
    BY <1>5 DEF provideBufferAtLeast, q
  <2>2. /\ q.m.ctx[b].size \in Nat /\ q.m.ctx[b].head \in Nat /\ room \in Nat
        /\ q.m.ctx[b].head <= q.m.ctx[b].size /\ q.m.ctx[b].size <= room
    BY <1>3, GoodParts DEF Inside
  <2>3. q.m.ctx[b].head <= room /\ need <= room
    BY <1>2, <1>3, <1>5, <2>2
  <2>4. /\ r.ok \in BOOLEAN /\ Good(r.m, B) /\ Unchanged(q.m, r.m, b)
        /\ r.m.ctx[b].head = q.m.ctx[b].head /\ (r.ok => r.m.ctx[b].size = room)
    BY <1>3, <2>2, <2>3, ResizeGood
  <2> HIDE DEF r, room
  <2>5. Unchanged(M, r.m, b)
    BY <1>3, <2>4 DEF Unchanged
  <2> QED BY <1>3, <2>1, <2>2, <2>3, <2>4, <2>5 DEF need
<1> QED BY <1>3, <1>4, <1>5

(* Bytes leave a buffer at its head; an empty buffer starts again.           *)
LEMMA PopGood ==
  ASSUME NEW B, NEW M, Good(M, B), NEW b \in Buffer, NEW n \in Nat
  PROVE  LET p == pop(M, b, n)
         IN  /\ Good(p, B) /\ Unchanged(M, p, b)
             /\ n # 0 /\ n = Size(M, b) => p.ctx[b] = NoContext
             /\ n < Size(M, b) => p.ctx[b].head < p.ctx[b].size
<1>1. /\ M.ctx[b].size \in Nat /\ M.ctx[b].head \in Nat /\ M.ctx[b].head <= M.ctx[b].size
      /\ M = [free |-> M.free, ctx |-> M.ctx, mem |-> M.mem] /\ Kept(M.free, M.ctx)
      /\ M.mem \in [Block -> Seq(B)] /\ M.ctx \in [Buffer -> Context] /\ M.ctx[b] \in Context /\ Inside(M.ctx[b])
  BY GoodParts DEF Inside
<1>2. Size(M, b) \in Nat /\ Size(M, b) = M.ctx[b].size - M.ctx[b].head
  BY <1>1 DEF Size
<1>3. CASE n = 0 \/ Size(M, b) < n
  <2>1. pop(M, b, n) = M
    BY <1>3 DEF pop
  <2> QED BY <1>1, <1>2, <1>3, <2>1 DEF Unchanged
<1>4. CASE n # 0 /\ Size(M, b) = n
  <2>1. pop(M, b, n) = clear(M, b)
    BY <1>2, <1>4 DEF pop
  <2>2. ~ (n < Size(M, b))
    BY <1>4
  <2> QED BY <2>1, <2>2, ClearGood
<1>5. CASE n # 0 /\ n < Size(M, b)
  <2> DEFINE e    == [M.ctx[b] EXCEPT !.head = @ + n]
             ctx2 == [M.ctx EXCEPT ![b] = e]
  <2>1. /\ e \in Context /\ Inside(e) /\ e.data = M.ctx[b].data /\ e.head < e.size
    <3> DEFINE c == M.ctx[b]
    <3>1. c \in Context /\ Inside(c) /\ n < c.size - c.head
      BY <1>1, <1>2, <1>5
    <3> HIDE DEF c
    <3>2. e = [c EXCEPT !.head = c.head + n]
      BY DEF c
    <3>3. /\ e.data = c.data /\ e.size = c.size /\ e.capacity = c.capacity /\ e.head = c.head + n
          /\ e = [data |-> c.data, size |-> c.size, capacity |-> c.capacity, head |-> c.head + n]
      BY <3>1, <3>2 DEF Context
    <3> HIDE DEF e
    <3>4. e \in Context /\ Inside(e) /\ e.head < e.size
      BY <3>1, <3>3 DEF Context, Inside
    <3> QED BY <3>3, <3>4 DEF c
  <2>2. pop(M, b, n) = [M EXCEPT !.ctx[b] = e]
    BY <1>2, <1>5 DEF pop
  <2> HIDE DEF e
  <2>3. pop(M, b, n) = [free |-> M.free, ctx |-> ctx2, mem |-> M.mem]
    BY <1>1, <2>2, AnotherContext
  <2>4. Kept(M.free, ctx2)
    BY <1>1, <2>1, ContextKept
  <2>5. ctx2[b] = e /\ \A a \in Buffer \ {b} : ctx2[a] = M.ctx[a]
    BY <1>1
  <2> HIDE DEF ctx2
  <2>6. Good(pop(M, b, n), B)
    BY <1>1, <2>3, <2>4, Rebuilt
  <2> QED BY <1>2, <1>5, <2>1, <2>3, <2>5, <2>6 DEF Unchanged
<1> QED BY <1>2, <1>3, <1>4, <1>5

(* No buffer holds anything at first.                                        *)
LEMMA InitGood ==
  ASSUME NEW B
  PROVE  Good(InitMemory, B) /\ \A b \in Buffer : InitMemory.ctx[b] = NoContext
<1> DEFINE free == [t \in Tiers |-> createFreeList(t)]
           ctx  == [b \in Buffer |-> NoContext]
           mem  == [k \in Block |-> <<>>]
<1>1. NoContext \in Context /\ Inside(NoContext) /\ NoContext.data = NoBlock
  BY DEF NoContext, Context, Inside
<1>2. ASSUME NEW t \in Tiers
      PROVE  /\ free[t] \in Seq(Block)
             /\ \A i, j \in DOMAIN free[t] : free[t][i] = free[t][j] => i = j
             /\ \A k \in Elems(free[t]) : k \in Block /\ k[1] = t
             /\ \A i \in 1 .. calcMinimumCount(t) : <<t, i>> \in Elems(free[t])
  <2> DEFINE n == calcMinimumCount(t)
             f == createFreeList(t)
  <2>1. n \in Nat /\ \A i \in 1 .. n : <<t, i>> \in Block
    BY BlockFacts DEF Block
  <2>2. f = [i \in 1 .. n |-> <<t, i>>] /\ free[t] = f
    BY DEF createFreeList
  <2> HIDE DEF n, f
  <2>3. f \in Seq(Block) /\ DOMAIN f = 1 .. n /\ \A i \in 1 .. n : f[i] = <<t, i>>
    BY <2>1, <2>2
  <2>4. \A i, j \in DOMAIN f : f[i] = f[j] => i = j
    BY <2>3
  <2>5. \A k \in Elems(f) : k \in Block /\ k[1] = t
    BY <2>1, <2>3 DEF Elems
  <2>6. \A i \in 1 .. n : <<t, i>> \in Elems(f)
    BY <2>3 DEF Elems
  <2> QED BY <2>2, <2>3, <2>4, <2>5, <2>6 DEF n
<1>3. free \in [Tiers -> Seq(Block)]
  <2> HIDE DEF free
  <2>1. free = [t \in Tiers |-> free[t]]
    BY DEF free
  <2> QED BY <1>2, <2>1
<1>4. FreeKept(free)
  <2> HIDE DEF free
  <2> QED BY <1>2 DEF FreeKept
<1>5. ctx \in [Buffer -> Context] /\ \A b \in Buffer : ctx[b] = NoContext
  BY <1>1
<1> HIDE DEF ctx
<1>6. Apart(free, ctx)
  BY <1>1, <1>5 DEF Apart
<1>7. Complete(free, ctx)
  <2> SUFFICES ASSUME NEW t \in Tiers, NEW i \in 1 .. calcMinimumCount(t) PROVE <<t, i>> \in Elems(free[t])
    BY DEF Complete, Block
  <2> HIDE DEF free
  <2> QED BY <1>2
<1>8. \A b \in Buffer : Inside(ctx[b])
  BY <1>1, <1>5
<1>9. Kept(free, ctx)
  <2> HIDE DEF free
  <2> QED BY <1>3, <1>4, <1>5, <1>6, <1>7, <1>8 DEF Kept
<1>10. mem \in [Block -> Seq(B)]
  <2>1. <<>> \in Seq(B)
    OBVIOUS
  <2> QED BY <2>1
<1>11. InitMemory = [free |-> free, ctx |-> ctx, mem |-> mem]
  BY DEF InitMemory, ctx
<1> HIDE DEF free, mem
<1> QED BY <1>5, <1>9, <1>10, <1>11, Rebuilt

-----------------------------------------------------------------------------
(* The requests and their answers.                                           *)

Number == 0 .. UINT64_RANGE - 1

(* What the program writes itself, and what clients may send.                *)
OwnBytes == Digits \union Signs \union
  {CR, LF, "*", "$", ":", "+", "-ERR ", "OK", "pong", ".", "string", Garbage,
   "one parameter", "at most", "two, three", "or four", "or more", "Not", "Implemented"}

Byte == OwnBytes \union UNION {UNION {Range(w.wire) : w \in Wishes[c]} : c \in Client}

HashesAreNumbers ==
  /\ \A text \in Seq(Byte), seed \in Number : murmur(text, seed) \in Number
  /\ \A n \in Number : mixer(n) \in Number

-----------------------------------------------------------------------------
(* FlattenSeq, one sequence more at a time.                                  *)

LEMMA FlattenSteps ==
  ASSUME NEW S, NEW s \in Seq(Seq(S)), s # <<>>
  PROVE  \E f \in [1 .. Len(s) -> Seq(S)] :
           /\ f[1] = s[1] /\ \A i \in 2 .. Len(s) : f[i] = f[i - 1] \o s[i]
           /\ FlattenSeq(s) = f[Len(s)]
<1> DEFINE n == Len(s)
           Step == [p \in (1 .. n) \X Seq(S) |-> p[2] \o s[p[1]]]
           Is(f) == f = [i \in 1 .. n |-> IF i = 1 THEN s[i] ELSE f[i - 1] \o s[i]]
           f0 == CHOOSE f : Is(f)
<1>1. n \in Nat \ {0} /\ \A i \in 1 .. n : s[i] \in Seq(S)
  OBVIOUS
<1>2. FlattenSeq(s) = f0[n]
  <2>1. Len(s) # 0
    BY <1>1
  <2> QED BY <2>1 DEF FlattenSeq
<1> HIDE DEF n
<1>3. Step \in [(1 .. n) \X Seq(S) -> Seq(S)]
  BY <1>1
<1>4. <<>> \in Seq(S)
  OBVIOUS
<1>5. PICK g \in [0 .. n -> Seq(S)] : g[0] = <<>> /\ \A i \in 1 .. n : g[i] = Step[<<i, g[i - 1]>>]
  <2> DEFINE Q == Seq(S)
             e == <<>>
  <2>1. n \in Nat /\ Step \in [(1 .. n) \X Q -> Q] /\ e \in Q
    BY <1>1, <1>3, <1>4
  <2> HIDE DEF Step, Q, e
  <2>2. \E g : Steps(g, Q, e, n, Step)
    BY <2>1, StepsExist
  <2> QED BY <2>2 DEF Q, e, Steps
<1>6. g[1] = s[1] /\ \A i \in 1 .. n : g[i] = g[i - 1] \o s[i]
  <2>1. \A i \in 1 .. n : i - 1 \in 0 .. n /\ g[i - 1] \in Seq(S)
    BY <1>1, <1>5
  <2>2. \A i \in 1 .. n : g[i] = g[i - 1] \o s[i]
    BY <1>5, <2>1
  <2>3. 1 \in 1 .. n /\ g[1 - 1] = <<>>
    BY <1>1, <1>5
  <2>4. g[1] = <<>> \o s[1] /\ s[1] \in Seq(S)
    BY <1>1, <2>2, <2>3
  <2>5. g[1] = s[1]
    BY <2>4
  <2> QED BY <2>2, <2>5
<1>7. Is([i \in 1 .. n |-> g[i]])
  <2> DEFINE h == [i \in 1 .. n |-> g[i]]
  <2>1. \A i \in 1 .. n : h[i] = IF i = 1 THEN s[i] ELSE h[i - 1] \o s[i]
    <3> SUFFICES ASSUME NEW i \in 1 .. n PROVE h[i] = IF i = 1 THEN s[i] ELSE h[i - 1] \o s[i]
      OBVIOUS
    <3>1. CASE i = 1
      BY <1>6, <3>1
    <3>2. CASE i # 1
      <4>1. i - 1 \in 1 .. n
        BY <1>1, <3>2
      <4> QED BY <1>6, <3>2, <4>1
    <3> QED BY <3>1, <3>2
  <2> QED BY <2>1
<1>8. Is(f0)
  <2> HIDE DEF Is
  <2> QED BY <1>7
<1>9. f0[1] = s[1] /\ \A i \in 2 .. n : f0[i] = f0[i - 1] \o s[i]
  <2> HIDE DEF f0
  <2>1. \A i \in 1 .. n : f0[i] = IF i = 1 THEN s[i] ELSE f0[i - 1] \o s[i]
    BY <1>8
  <2>2. 1 \in 1 .. n /\ \A i \in 2 .. n : i \in 1 .. n /\ i # 1
    BY <1>1
  <2> QED BY <2>1, <2>2
<1> DEFINE T == {i \in 0 .. n : i = 0 \/ f0[i] \in Seq(S)}
<1>10. \A i \in 0 .. n : i \in T
  <2> HIDE DEF f0
  <2>1. 0 \in T
    BY <1>1
  <2>2. ASSUME NEW i \in 1 .. n, i - 1 \in T PROVE i \in T
    <3>1. CASE i = 1
      BY <1>1, <1>9, <3>1
    <3>2. CASE i # 1
      <4>1. i \in 2 .. n /\ i \in 0 .. n /\ i # 0
        BY <1>1, <3>2
      <4>2. f0[i - 1] \in Seq(S) /\ s[i] \in Seq(S)
        BY <1>1, <2>2, <4>1
      <4>3. f0[i] = f0[i - 1] \o s[i]
        BY <1>9, <4>1
      <4>4. f0[i] \in Seq(S)
        BY <4>2, <4>3
      <4> QED BY <4>1, <4>4
    <3> QED BY <3>1, <3>2
  <2> HIDE DEF T
  <2> QED BY <1>1, <2>1, <2>2, UpTo
<1>11. f0 \in [1 .. n -> Seq(S)]
  <2> HIDE DEF f0
  <2>1. \A i \in 1 .. n : f0[i] \in Seq(S)
    BY <1>10
  <2> QED BY <1>8, <2>1
<1> HIDE DEF f0
<1> QED BY <1>1, <1>2, <1>9, <1>11 DEF n

LEMMA FlattenBytes ==
  ASSUME NEW S, NEW s \in Seq(Seq(S))
  PROVE  FlattenSeq(s) \in Seq(S) /\ FlattenSeq(<<>>) = <<>>
<1>1. FlattenSeq(<<>>) = <<>>
  BY DEF FlattenSeq
<1>2. CASE s = <<>>
  <2>1. <<>> \in Seq(S)
    OBVIOUS
  <2>2. FlattenSeq(s) = <<>>
    BY <1>1, <1>2
  <2> QED BY <1>1, <2>1, <2>2
<1>3. CASE s # <<>>
  <2>1. PICK f \in [1 .. Len(s) -> Seq(S)] : FlattenSeq(s) = f[Len(s)]
    BY <1>3, FlattenSteps
  <2>2. Len(s) \in 1 .. Len(s)
    BY <1>3
  <2>3. f[Len(s)] \in Seq(S)
    BY <2>2
  <2> QED BY <1>1, <2>1, <2>3
<1> QED BY <1>2, <1>3

LEMMA FlattenAppend ==
  ASSUME NEW S, NEW s \in Seq(Seq(S)), NEW x \in Seq(S)
  PROVE  FlattenSeq(Append(s, x)) = FlattenSeq(s) \o x
<1> DEFINE t == Append(s, x)
           n == Len(s)
<1>1. /\ t \in Seq(Seq(S)) /\ t # <<>> /\ Len(t) = n + 1 /\ n \in Nat /\ t[n + 1] = x
      /\ \A i \in 1 .. n : t[i] = s[i] /\ s[i] \in Seq(S)
  <2> DEFINE Q == Seq(S)
  <2>1. s \in Seq(Q) /\ x \in Q
    OBVIOUS
  <2> HIDE DEF Q
  <2>2. /\ t \in Seq(Q) /\ t # <<>> /\ Len(t) = n + 1 /\ n \in Nat /\ t[n + 1] = x
        /\ \A i \in 1 .. n : t[i] = s[i] /\ s[i] \in Q
    <3>1. t \in Seq(Q) /\ Len(t) = n + 1 /\ n \in Nat /\ t[n + 1] = x /\ \A i \in 1 .. n : t[i] = s[i]
      BY <2>1, AppendProperties
    <3>2. t # <<>>
      BY <3>1
    <3>3. \A i \in 1 .. n : s[i] \in Q
      BY <2>1
    <3> QED BY <3>1, <3>2, <3>3
  <2> QED BY <2>2 DEF Q
<1> HIDE DEF t
<1>2. PICK g \in [1 .. Len(t) -> Seq(S)] :
        /\ g[1] = t[1] /\ \A i \in 2 .. Len(t) : g[i] = g[i - 1] \o t[i]
        /\ FlattenSeq(t) = g[Len(t)]
  BY <1>1, FlattenSteps
<1>3. CASE s = <<>>
  <2>1. n = 0 /\ FlattenSeq(s) = <<>>
    BY <1>3, FlattenBytes
  <2>2. FlattenSeq(t) = x
    BY <1>1, <1>2, <2>1
  <2> QED BY <2>1, <2>2 DEF t
<1>4. CASE s # <<>>
  <2>1. PICK f \in [1 .. n -> Seq(S)] :
          /\ f[1] = s[1] /\ \A i \in 2 .. n : f[i] = f[i - 1] \o s[i]
          /\ FlattenSeq(s) = f[n]
    BY <1>4, FlattenSteps
  <2>2. n \in 1 .. n
    BY <1>4
  <2> DEFINE T == {i \in 0 .. n : i = 0 \/ g[i] = f[i]}
  <2>3. 0 \in T
    BY <2>2
  <2>4. ASSUME NEW i \in 1 .. n, i - 1 \in T PROVE i \in T
    <3>1. CASE i = 1
      <4>1. 1 \in 1 .. n /\ t[1] = s[1]
        BY <1>1, <2>2
      <4> QED BY <1>2, <2>1, <2>4, <3>1, <4>1
    <3>2. CASE i # 1
      <4>1. i \in 2 .. n /\ i \in 2 .. Len(t) /\ g[i - 1] = f[i - 1]
        BY <1>1, <2>4, <3>2
      <4>2. t[i] = s[i] /\ g[i] = g[i - 1] \o t[i] /\ f[i] = f[i - 1] \o s[i]
        BY <1>1, <1>2, <2>1, <4>1
      <4>3. g[i] = f[i]
        BY <4>1, <4>2
      <4> QED BY <2>4, <4>3
    <3> QED BY <3>1, <3>2
  <2>5. \A i \in 0 .. n : i \in T
    <3> HIDE DEF T
    <3> QED BY <1>1, <2>3, <2>4, UpTo
  <2>6. g[n] = f[n]
    <3>1. n \in 0 .. n /\ n # 0
      BY <2>2
    <3>2. n \in T
      <4> HIDE DEF T
      <4> QED BY <2>5, <3>1
    <3> QED BY <3>1, <3>2
  <2>7. n + 1 \in 2 .. Len(t) /\ (n + 1) - 1 = n
    BY <1>1, <2>2
  <2>8. g[n + 1] = g[n] \o t[n + 1]
    BY <1>2, <2>7
  <2> QED BY <1>1, <1>2, <2>1, <2>6, <2>8 DEF t
<1> QED BY <1>3, <1>4

LEMMA FlattenConcat ==
  ASSUME NEW S, NEW s \in Seq(Seq(S)), NEW t \in Seq(Seq(S))
  PROVE  FlattenSeq(s \o t) = FlattenSeq(s) \o FlattenSeq(t)
<1> DEFINE n == Len(t)
           u(k) == SubSeq(t, 1, k)
           T == {k \in 0 .. n : FlattenSeq(s \o u(k)) = FlattenSeq(s) \o FlattenSeq(u(k))}
<1>0. n \in Nat /\ (\A i \in 1 .. n : t[i] \in Seq(S)) /\ \A k \in 0 .. n : u(k) \in Seq(Seq(S))
  OBVIOUS
<1>1. 0 \in T
  <2>1. u(0) = <<>> /\ s \o u(0) = s
    OBVIOUS
  <2>2. FlattenSeq(s) \in Seq(S) /\ FlattenSeq(<<>>) = <<>>
    BY FlattenBytes
  <2>3. FlattenSeq(s) \o <<>> = FlattenSeq(s)
    BY <2>2
  <2>4. FlattenSeq(s \o u(0)) = FlattenSeq(s) \o FlattenSeq(u(0))
    BY <2>1, <2>2, <2>3
  <2>5. 0 \in 0 .. n
    BY <1>0
  <2> QED BY <2>4, <2>5
<1>2. ASSUME NEW k \in 1 .. n, k - 1 \in T PROVE k \in T
  <2> DEFINE v == u(k - 1)
             x == t[k]
  <2>1. v \in Seq(Seq(S)) /\ x \in Seq(S)
    BY <1>0
  <2>2. u(k) = Append(v, x)
    OBVIOUS
  <2>3. FlattenSeq(s \o v) = FlattenSeq(s) \o FlattenSeq(v)
    BY <1>2
  <2> HIDE DEF v, x
  <2>4. s \o Append(v, x) = Append(s \o v, x) /\ s \o v \in Seq(Seq(S))
    BY <2>1
  <2>5. FlattenSeq(Append(s \o v, x)) = FlattenSeq(s \o v) \o x
    BY <2>1, <2>4, FlattenAppend
  <2>6. FlattenSeq(Append(v, x)) = FlattenSeq(v) \o x
    BY <2>1, FlattenAppend
  <2>7. FlattenSeq(v) \in Seq(S) /\ FlattenSeq(s) \in Seq(S)
    BY <2>1, FlattenBytes
  <2>8. (FlattenSeq(s) \o FlattenSeq(v)) \o x = FlattenSeq(s) \o (FlattenSeq(v) \o x)
    <3> DEFINE f == FlattenSeq(s)
               g == FlattenSeq(v)
    <3>1. f \in Seq(S) /\ g \in Seq(S)
      BY <2>7
    <3> HIDE DEF f, g
    <3>2. (f \o g) \o x = f \o (g \o x)
      BY <2>1, <3>1
    <3> QED BY <3>2 DEF f, g
  <2>9. FlattenSeq(s \o u(k)) = FlattenSeq(s) \o FlattenSeq(u(k))
    BY <2>2, <2>3, <2>4, <2>5, <2>6, <2>8
  <2> QED BY <1>0, <2>9
<1>3. \A k \in 0 .. n : k \in T
  <2> HIDE DEF T
  <2> QED BY <1>0, <1>1, <1>2, UpTo
<1>4. n \in T /\ u(n) = t
  BY <1>0, <1>3
<1> QED BY <1>4

(* One sequence, three and five.                                             *)
LEMMA FlattenOne ==
  ASSUME NEW S, NEW x \in Seq(S)
  PROVE  FlattenSeq(<<x>>) = x
<1>1. <<x>> = Append(<<>>, x) /\ <<>> \in Seq(Seq(S)) /\ <<>> \o x = x
  OBVIOUS
<1> QED BY <1>1, FlattenAppend, FlattenBytes

-----------------------------------------------------------------------------
(* Numbers as text.                                                          *)

LEMMA Powers ==
  \A i \in 0 .. to_string_buffer_size :
    /\ power[i] \in Nat \ {0}
    /\ power[i] = IF i = 0 THEN 1 ELSE 10 * power[i - 1]
<1>1. power = CHOOSE f : IsPower(f, to_string_buffer_size)
  BY DEF power, IsPower
<1> QED BY <1>1, NumberAssumption, PowersFound

LEMMA PowersGrow ==
  \A i, j \in 0 .. to_string_buffer_size : i <= j => power[i] <= power[j]
<1> SUFFICES ASSUME NEW i \in 0 .. to_string_buffer_size
             PROVE  \A j \in 0 .. to_string_buffer_size : i <= j => power[i] <= power[j]
  OBVIOUS
<1> DEFINE n == to_string_buffer_size
           T == {j \in 0 .. n : i <= j => power[i] <= power[j]}
<1>1. n \in Nat
  BY NumberAssumption
<1>2. \A j \in 0 .. n : power[j] \in Nat \ {0} /\ power[j] = IF j = 0 THEN 1 ELSE 10 * power[j - 1]
  BY Powers
<1>3. 0 \in T
  BY <1>1, <1>2
<1>4. ASSUME NEW j \in 1 .. n, j - 1 \in T PROVE j \in T
  <2>1. j \in 0 .. n /\ j - 1 \in 0 .. n
    BY <1>1
  <2>2. power[j] \in Nat /\ power[j - 1] \in Nat /\ power[j] = 10 * power[j - 1] /\ power[i] \in Nat
    BY <1>2, <2>1
  <2>3. power[j - 1] <= power[j]
    BY <2>2
  <2>4. i <= j - 1 => power[i] <= power[j - 1]
    BY <1>4
  <2>5. i <= j => i = j \/ i <= j - 1
    BY <2>1
  <2>6. i <= j => power[i] <= power[j]
    BY <2>2, <2>3, <2>4, <2>5
  <2> QED BY <2>1, <2>6
<1>5. \A j \in 0 .. n : j \in T
  <2> HIDE DEF T
  <2> QED BY <1>1, <1>3, <1>4, UpTo
<1> QED BY <1>5

(* The digits a number has.                                                  *)
Width(n) == CHOOSE w \in 1 .. to_string_buffer_size : n < power[w] /\ (w > 1 => n >= power[w - 1])

LEMMA WidthFound ==
  ASSUME NEW n \in Number
  PROVE  /\ Width(n) \in 1 .. to_string_buffer_size
         /\ n < power[Width(n)] /\ (Width(n) > 1 => n >= power[Width(n) - 1])
<1>1. /\ to_string_buffer_size \in Nat \ {0} /\ n \in Nat
      /\ \A i \in 0 .. to_string_buffer_size : power[i] \in Nat
  BY NumberAssumption, Powers DEF Number
<1>2. n < power[to_string_buffer_size]
  BY <1>1, NumberAssumption DEF Number
<1>3. \E w \in 1 .. to_string_buffer_size : n < power[w] /\ (w > 1 => n >= power[w - 1])
  BY <1>1, <1>2, WidthExists
<1> QED BY <1>3 DEF Width

LEMMA WidthGrows ==
  ASSUME NEW a \in Number, NEW b \in Number, a <= b
  PROVE  Width(a) <= Width(b)
<1> DEFINE v == Width(a)
           w == Width(b)
<1>1. /\ v \in 1 .. to_string_buffer_size /\ (v > 1 => a >= power[v - 1])
      /\ w \in 1 .. to_string_buffer_size /\ b < power[w]
  BY WidthFound
<1> HIDE DEF v, w
<1> SUFFICES ASSUME w < v PROVE FALSE
  BY <1>1 DEF v, w
<1>2. /\ to_string_buffer_size \in Nat /\ a \in Nat /\ b \in Nat
      /\ \A i \in 0 .. to_string_buffer_size : power[i] \in Nat
  BY NumberAssumption, Powers DEF Number
<1>3. w <= v - 1 /\ v - 1 \in 0 .. to_string_buffer_size /\ w \in 0 .. to_string_buffer_size /\ v > 1
  BY <1>1, <1>2
<1>4. power[w] <= power[v - 1]
  BY <1>3, PowersGrow
<1> QED BY <1>1, <1>2, <1>3, <1>4

(* A number is written in digits, in the buffer it has.                      *)
LEMMA NumberAsText ==
  ASSUME NEW n \in Number
  PROVE  to_string(n) \in Seq(Byte) /\ Len(to_string(n)) = Width(n) /\ Width(n) \in 1 .. to_string_buffer_size
<1> DEFINE w == Width(n)
           f == [i \in 1 .. w |-> Digit[((n \div power[w - i]) % 10) + 1]]
<1>1. w \in 1 .. to_string_buffer_size /\ to_string_buffer_size \in Nat
  BY WidthFound, NumberAssumption
<1>2. to_string(n) = f
  BY DEF to_string, Width
<1>3. ASSUME NEW i \in 1 .. w PROVE Digit[((n \div power[w - i]) % 10) + 1] \in Byte
  <2>1. w - i \in 0 .. to_string_buffer_size
    BY <1>1
  <2>2. power[w - i] \in Nat \ {0}
    BY <2>1, Powers
  <2>3. n \div power[w - i] \in Int
    BY <2>2 DEF Number
  <2>4. ((n \div power[w - i]) % 10) + 1 \in 1 .. 10
    BY <2>3
  <2> QED BY <2>4 DEF Byte, OwnBytes, Digits
<1>4. f \in Seq(Byte) /\ Len(f) = w
  <2> HIDE DEF w
  <2> QED BY <1>1, <1>3
<1> HIDE DEF f
<1> QED BY <1>1, <1>2, <1>4

(* Run finds the end of what it looks for.                                   *)
LEMMA RunFound ==
  ASSUME NEW S, NEW src \in Seq(S), NEW pos \in 0 .. Len(src), NEW chars, NEW most \in Nat
  PROVE  LET n == Run(src, pos, chars, most)
         IN  /\ n \in 0 .. Least(most, Len(src) - pos)
             /\ \A i \in 1 .. n : src[pos + i] \in chars
<1> DEFINE top  == Least(most, Len(src) - pos)
           Q(n) == /\ \A i \in 1 .. n : src[pos + i] \in chars
                   /\ n < top => src[pos + n + 1] \notin chars
           T == {n \in 0 .. top : n < top => src[pos + n + 1] \notin chars}
<1>1. top \in Nat
  BY DEF Least
<1> HIDE DEF top
<1>2. T \in SUBSET Nat /\ T # {}
  <2>1. top \in T
    BY <1>1
  <2>2. \A k \in T : k \in Nat
    BY <1>1
  <2> HIDE DEF T
  <2> QED BY <2>1, <2>2
<1>3. PICK n \in T : \A v \in T : n <= v
  <2> HIDE DEF T
  <2> QED BY <1>2, SmallestExists
<1>4. ASSUME NEW i \in 1 .. n PROVE src[pos + i] \in chars
  <2>1. i - 1 \in 0 .. top /\ i - 1 < top /\ ~ (n <= i - 1)
    BY <1>1, <1>3
  <2>2. i - 1 \notin T
    BY <1>3, <2>1
  <2>3. src[pos + (i - 1) + 1] \in chars
    BY <2>1, <2>2
  <2>4. pos + (i - 1) + 1 = pos + i
    BY <2>1
  <2> QED BY <2>3, <2>4
<1>5. n \in 0 .. top /\ Q(n)
  BY <1>3, <1>4
<1>6. Run(src, pos, chars, most) = CHOOSE k \in 0 .. top : Q(k)
  BY DEF Run, top
<1> HIDE DEF Q
<1>7. Run(src, pos, chars, most) \in 0 .. top /\ Q(Run(src, pos, chars, most))
  BY <1>5, <1>6
<1> QED BY <1>7 DEF Q, top

LEMMA DigitValue ==
  ASSUME NEW ch \in Digits
  PROVE  ValueOf(ch) \in 0 .. 9
<1>1. PICK i \in 1 .. 10 : ch = Digit[i]
  BY DEF Digits
<1>2. i - 1 \in 0 .. 9 /\ Digit[(i - 1) + 1] = ch
  BY <1>1
<1> QED BY <1>2 DEF ValueOf

LEMMA AtoiInt ==
  ASSUME NEW S, NEW s \in Seq(S)
  PROVE  atoi(s) \in Int
<1> DEFINE sign  == Run(s, 0, Signs, 1)
           n     == Run(s, sign, Digits, Len(s))
           Step  == [p \in (1 .. n) \X Int |-> AsInt(10 * p[2] + ValueOf(s[sign + p[1]]))]
           Is(f) == f = [i \in 0 .. n |->
                           IF i = 0 THEN 0 ELSE AsInt(10 * f[i - 1] + ValueOf(s[sign + i]))]
           f0    == CHOOSE f : Is(f)
<1>1. Len(s) \in Nat /\ 0 \in 0 .. Len(s)
  OBVIOUS
<1>2. sign \in 0 .. Least(1, Len(s) - 0)
  BY <1>1, RunFound
<1>3. sign \in 0 .. Len(s)
  BY <1>1, <1>2 DEF Least
<1> HIDE DEF sign
<1>4. n \in 0 .. Least(Len(s), Len(s) - sign) /\ \A i \in 1 .. n : s[sign + i] \in Digits
  BY <1>1, <1>3, RunFound
<1>5. n \in Nat
  BY <1>1, <1>3, <1>4 DEF Least
<1> HIDE DEF n
<1>6. \A v \in Int : AsInt(v) \in Int
  BY ProtocolAssumption DEF AsInt
<1>7. \A i \in 1 .. n : ValueOf(s[sign + i]) \in Int
  BY <1>4, DigitValue
<1>8. \A i \in 1 .. n, v \in Int : AsInt(10 * v + ValueOf(s[sign + i])) \in Int
  <2> SUFFICES ASSUME NEW i \in 1 .. n, NEW v \in Int PROVE AsInt(10 * v + ValueOf(s[sign + i])) \in Int
    OBVIOUS
  <2>1. 10 * v + ValueOf(s[sign + i]) \in Int
    BY <1>7
  <2> QED BY <1>6, <2>1
<1>9. PICK g : Steps(g, Int, 0, n, Step)
  <2>1. Step \in [(1 .. n) \X Int -> Int] /\ 0 \in Int
    BY <1>8
  <2> HIDE DEF Step
  <2> QED BY <1>5, <2>1, StepsExist
<1>10. Is(g)
  <2>1. g \in [0 .. n -> Int] /\ g[0] = 0 /\ \A i \in 1 .. n : g[i] = Step[<<i, g[i - 1]>>]
    BY <1>9 DEF Steps
  <2>2. \A i \in 1 .. n : g[i - 1] \in Int
    BY <1>5, <2>1
  <2>3. \A i \in 1 .. n : g[i] = AsInt(10 * g[i - 1] + ValueOf(s[sign + i]))
    BY <2>1, <2>2
  <2>4. \A i \in 0 .. n : g[i] = IF i = 0 THEN 0 ELSE AsInt(10 * g[i - 1] + ValueOf(s[sign + i]))
    BY <2>1, <2>3
  <2> QED BY <2>1, <2>4
<1>11. Is(f0)
  <2> HIDE DEF Is
  <2> QED BY <1>10
<1> HIDE DEF f0
<1>12. \A i \in 0 .. n : f0[i] = IF i = 0 THEN 0 ELSE AsInt(10 * f0[i - 1] + ValueOf(s[sign + i]))
  BY <1>11
<1> DEFINE T == {i \in 0 .. n : f0[i] \in Int}
<1>13. 0 \in T
  BY <1>5, <1>12
<1>14. \A i \in 1 .. n : i - 1 \in T => i \in T
  BY <1>5, <1>8, <1>12
<1>15. \A i \in 0 .. n : i \in T
  <2> HIDE DEF T
  <2> QED BY <1>5, <1>13, <1>14, UpTo
<1>16. f0[n] \in Int
  BY <1>5, <1>15
<1>17. atoi(s) = IF sign = 1 /\ s[1] = "-" THEN AsInt(- f0[n]) ELSE f0[n]
  BY DEF atoi, sign, n, f0
<1> QED BY <1>6, <1>16, <1>17

LEMMA NumberFacts ==
  /\ UINT64_RANGE \in Nat /\ UINT64_RANGE > 3 /\ Number \subseteq Nat /\ 0 \in Number /\ 1 \in Number /\ 2 \in Number /\ 3 \in Number
  /\ to_string_buffer_size \in Number /\ to_string_buffer_size >= 1
  /\ MAX_PARAM_SIZE \in Number /\ MAX_PARAMS \in Number
<1>1. /\ UINT64_RANGE \in Nat /\ 3 \in 0 .. UINT64_RANGE - 1 /\ to_string_buffer_size \in 0 .. UINT64_RANGE - 1
      /\ MAX_PARAM_SIZE \in 0 .. UINT64_RANGE - 1 /\ MAX_PARAMS \in 0 .. UINT64_RANGE - 1
      /\ to_string_buffer_size \in Nat \ {0}
  BY NumberAssumption
<1> QED BY <1>1 DEF Number

LEMMA FromStringNumber ==
  ASSUME NEW S, NEW s \in Seq(S)
  PROVE  from_string(s) \in Number
<1> DEFINE n     == Run(s, 0, Digits, Len(s))
           Step  == [p \in (1 .. n) \X Nat |-> Least(10 * p[2] + ValueOf(s[p[1]]), UINT64_RANGE)]
           Is(f) == f = [i \in 0 .. n |->
                           IF i = 0 THEN 0 ELSE Least(10 * f[i - 1] + ValueOf(s[i]), UINT64_RANGE)]
           f0    == CHOOSE f : Is(f)
<1>1. Len(s) \in Nat /\ 0 \in 0 .. Len(s)
  OBVIOUS
<1>2. n \in 0 .. Least(Len(s), Len(s) - 0) /\ \A i \in 1 .. n : s[0 + i] \in Digits
  BY <1>1, RunFound
<1>3. n \in Nat
  BY <1>1, <1>2 DEF Least
<1>4. \A i \in 1 .. n : s[i] \in Digits
  BY <1>2, <1>3
<1> HIDE DEF n
<1>5. \A i \in 1 .. n, v \in Nat : Least(10 * v + ValueOf(s[i]), UINT64_RANGE) \in Nat
  <2> SUFFICES ASSUME NEW i \in 1 .. n, NEW v \in Nat PROVE Least(10 * v + ValueOf(s[i]), UINT64_RANGE) \in Nat
    OBVIOUS
  <2>1. ValueOf(s[i]) \in 0 .. 9
    BY <1>4, DigitValue
  <2> QED BY <2>1, NumberFacts DEF Least
<1>6. PICK g : Steps(g, Nat, 0, n, Step)
  <2>1. Step \in [(1 .. n) \X Nat -> Nat] /\ 0 \in Nat
    BY <1>5
  <2> HIDE DEF Step
  <2> QED BY <1>3, <2>1, StepsExist
<1>7. Is(g)
  <2>1. g \in [0 .. n -> Nat] /\ g[0] = 0 /\ \A i \in 1 .. n : g[i] = Step[<<i, g[i - 1]>>]
    BY <1>6 DEF Steps
  <2>2. \A i \in 1 .. n : g[i - 1] \in Nat
    BY <1>3, <2>1
  <2>3. \A i \in 1 .. n : g[i] = Least(10 * g[i - 1] + ValueOf(s[i]), UINT64_RANGE)
    BY <2>1, <2>2
  <2>4. \A i \in 0 .. n : g[i] = IF i = 0 THEN 0 ELSE Least(10 * g[i - 1] + ValueOf(s[i]), UINT64_RANGE)
    BY <2>1, <2>3
  <2> QED BY <2>1, <2>4
<1>8. Is(f0)
  <2> HIDE DEF Is
  <2> QED BY <1>7
<1> HIDE DEF f0
<1>9. \A i \in 0 .. n : f0[i] = IF i = 0 THEN 0 ELSE Least(10 * f0[i - 1] + ValueOf(s[i]), UINT64_RANGE)
  BY <1>8
<1> DEFINE T == {i \in 0 .. n : f0[i] \in Nat}
<1>10. 0 \in T
  BY <1>3, <1>9
<1>11. \A i \in 1 .. n : i - 1 \in T => i \in T
  BY <1>3, <1>5, <1>9
<1>12. \A i \in 0 .. n : i \in T
  <2> HIDE DEF T
  <2> QED BY <1>3, <1>10, <1>11, UpTo
<1>13. f0[n] \in Nat
  BY <1>3, <1>12
<1>14. from_string(s) = IF f0[n] < UINT64_RANGE THEN f0[n] ELSE 0
  BY DEF from_string, n, f0
<1> QED BY <1>13, <1>14, NumberFacts DEF Number

-----------------------------------------------------------------------------
(* What the parser finds lies in the text, and is as long as it may be.      *)

Param == [off : Nat, len : Number]
Found == [status : {"OK", "ERROR", "BUFFER_NOT_READ"}, pos : Nat, params : Seq(Param)]

LEMMA ReadIntFound ==
  ASSUME NEW S, NEW src \in Seq(S), NEW pos \in 0 .. Len(src)
  PROVE  readInt_(src, pos).value \in Int /\ readInt_(src, pos).pos \in Nat
<1> DEFINE chars == Digits \union Signs
           n == Run(src, pos, chars, INT_BUFFER_SIZE)
<1>1. INT_BUFFER_SIZE \in Nat /\ Len(src) \in Nat
  BY ProtocolAssumption
<1>2. n \in 0 .. Least(INT_BUFFER_SIZE, Len(src) - pos)
  <2> HIDE DEF chars
  <2> QED BY <1>1, RunFound
<1>3. n \in Nat /\ pos + n <= Len(src)
  BY <1>1, <1>2 DEF Least
<1>4. readInt_(src, pos) = [value |-> atoi(SubSeq(src, pos + 1, pos + n)), pos |-> pos + n]
  BY DEF readInt_
<1> HIDE DEF n
<1>5. SubSeq(src, pos + 1, pos + n) \in Seq(S)
  BY <1>1, <1>3
<1>6. atoi(SubSeq(src, pos + 1, pos + n)) \in Int
  BY <1>5, AtoiInt
<1> QED BY <1>3, <1>4, <1>6

LEMMA ReadParamFound ==
  ASSUME NEW S, NEW src \in Seq(S), NEW st \in Found
  PROVE  readParam_(src, st) \in Found /\ Len(readParam_(src, st).params) <= Len(st.params) + 1
<1> DEFINE int  == readInt_(src, st.pos + 1)
           size == int.value
           head == readLn_(src, int.pos)
           off  == int.pos + 2
           tail == readLn_(src, off + size)
           r    == readParam_(src, st)
<1>1. /\ st.status \in {"OK", "ERROR", "BUFFER_NOT_READ"} /\ st.pos \in Nat /\ st.params \in Seq(Param)
      /\ Len(st.params) \in Nat /\ Len(src) \in Nat
  BY DEF Found
<1>2. head \in {"OK", "ERROR", "BUFFER_NOT_READ"} /\ tail \in {"OK", "ERROR", "BUFFER_NOT_READ"}
  BY DEF readLn_
<1>3. ASSUME NEW status \in {"OK", "ERROR", "BUFFER_NOT_READ"}, r = Parsed(status, st.pos, <<>>)
      PROVE  r \in Found /\ Len(r.params) <= Len(st.params) + 1
  <2>1. <<>> \in Seq(Param) /\ Len(<<>>) = 0
    OBVIOUS
  <2>2. r.params = <<>> /\ r \in Found
    BY <1>1, <1>3, <2>1 DEF Parsed, Found
  <2> QED BY <1>1, <2>1, <2>2
<1>4. CASE st.status # "OK"
  <2>1. r = st
    BY <1>4 DEF readParam_
  <2> HIDE DEF r
  <2>2. r \in Found /\ Len(r.params) <= Len(st.params) + 1
    BY <1>1, <2>1
  <2> QED BY <2>2 DEF r
<1>5. CASE st.status = "OK" /\ st.pos + 2 > Len(src)
  <2>1. r = Parsed("BUFFER_NOT_READ", st.pos, <<>>)
    BY <1>5 DEF readParam_
  <2>2. r \in Found /\ Len(r.params) <= Len(st.params) + 1
    <3> HIDE DEF r
    <3> QED BY <1>3, <2>1
  <2> QED BY <2>2
<1>6. CASE st.status = "OK" /\ ~ (st.pos + 2 > Len(src))
  <2>1. st.pos + 1 \in 0 .. Len(src)
    BY <1>1, <1>6
  <2>2. size \in Int /\ off \in Nat
    BY <2>1, ReadIntFound
  <2>3. r = IF At(src, st.pos) # "$" THEN Parsed("ERROR", st.pos, <<>>)
            ELSE IF size < 0 \/ size > MAX_PARAM_SIZE THEN Parsed("ERROR", st.pos, <<>>)
            ELSE IF head # "OK" THEN Parsed(head, st.pos, <<>>)
            ELSE IF off + size > Len(src) THEN Parsed("BUFFER_NOT_READ", st.pos, <<>>)
            ELSE IF tail # "OK" THEN Parsed(tail, st.pos, <<>>)
            ELSE Parsed("OK", off + size + 2, Append(st.params, [off |-> off, len |-> size]))
    BY <1>6 DEF readParam_
  <2> HIDE DEF r, int, size, head, off, tail
  <2>4. CASE \E status \in {"OK", "ERROR", "BUFFER_NOT_READ"} : r = Parsed(status, st.pos, <<>>)
    <3>1. PICK status \in {"OK", "ERROR", "BUFFER_NOT_READ"} : r = Parsed(status, st.pos, <<>>)
      BY <2>4
    <3>2. r \in Found /\ Len(r.params) <= Len(st.params) + 1
      BY <1>3, <3>1 DEF r
    <3> QED BY <3>2 DEF r
  <2>5. CASE ~ \E status \in {"OK", "ERROR", "BUFFER_NOT_READ"} : r = Parsed(status, st.pos, <<>>)
    <3> DEFINE p == [off |-> off, len |-> size]
    <3>1. /\ ~ (size < 0 \/ size > MAX_PARAM_SIZE)
          /\ r = Parsed("OK", off + size + 2, Append(st.params, p))
      BY <1>2, <2>3, <2>5
    <3>2. size \in Number
      BY <2>2, <3>1, NumberFacts DEF Number
    <3>3. p \in Param
      BY <2>2, <3>2 DEF Param
    <3> HIDE DEF p
    <3>4. Append(st.params, p) \in Seq(Param) /\ Len(Append(st.params, p)) = Len(st.params) + 1
      BY <1>1, <3>3, AppendProperties
    <3>5. off + size + 2 \in Nat
      BY <2>2, <3>2, NumberFacts
    <3>6. r \in Found /\ Len(r.params) <= Len(st.params) + 1
      BY <1>1, <3>1, <3>4, <3>5 DEF Parsed, Found
    <3> QED BY <3>6 DEF r
  <2> QED BY <2>4, <2>5
<1> QED BY <1>4, <1>5, <1>6

LEMMA ParseFound ==
  ASSUME NEW S, NEW src \in Seq(S)
  PROVE  Parse(src) \in Found /\ Len(Parse(src).params) <= MAX_PARAMS
<1> DEFINE int   == readInt_(src, 1)
           count == int.value
           line  == readLn_(src, int.pos)
           first == Parsed(line, int.pos + 2, <<>>)
           Step  == [p \in (1 .. count) \X Found |-> readParam_(src, p[2])]
           Is(f) == f = [i \in 0 .. count |-> IF i = 0 THEN first ELSE readParam_(src, f[i - 1])]
           f0    == CHOOSE f : Is(f)
<1>1. MAX_PARAMS \in Nat /\ Len(src) \in Nat
  BY NumberFacts
<1>2. ASSUME NEW status \in {"ERROR", "BUFFER_NOT_READ"}, NEW pos \in Nat, Parse(src) = Parsed(status, pos, <<>>)
      PROVE  Parse(src) \in Found /\ Len(Parse(src).params) <= MAX_PARAMS
  <2>1. <<>> \in Seq(Param) /\ Len(<<>>) = 0
    OBVIOUS
  <2>2. Parse(src).params = <<>> /\ Parse(src) \in Found
    BY <1>2, <2>1 DEF Parsed, Found
  <2> QED BY <1>1, <2>1, <2>2
<1>3. CASE 2 > Len(src)
  <2>1. Parse(src) = Parsed("BUFFER_NOT_READ", 0, <<>>)
    BY <1>3 DEF Parse
  <2> QED BY <1>2, <2>1
<1>4. CASE ~ (2 > Len(src)) /\ src[1] # "*"
  <2>1. Parse(src) = Parsed("ERROR", 0, <<>>)
    BY <1>4 DEF Parse
  <2> QED BY <1>2, <2>1
<1>5. CASE ~ (2 > Len(src)) /\ src[1] = "*" /\ (count <= 0 \/ count > MAX_PARAMS)
  <2>1. Parse(src) = Parsed("ERROR", 1, <<>>)
    BY <1>5 DEF Parse
  <2> QED BY <1>2, <2>1
<1>6. CASE ~ (2 > Len(src)) /\ src[1] = "*" /\ ~ (count <= 0 \/ count > MAX_PARAMS)
  <2>0. Parse(src) = f0[count]
    BY <1>6 DEF Parse
  <2>1. count \in Int /\ int.pos \in Nat
    <3>1. 1 \in 0 .. Len(src)
      BY <1>1, <1>6
    <3> QED BY <3>1, ReadIntFound
  <2>2. count \in Nat /\ count \in 0 .. MAX_PARAMS
    BY <1>1, <1>6, <2>1
  <2>3. first \in Found /\ Len(first.params) = 0
    <3>1. line \in {"OK", "ERROR", "BUFFER_NOT_READ"}
      BY DEF readLn_
    <3>2. <<>> \in Seq(Param) /\ Len(<<>>) = 0
      OBVIOUS
    <3> HIDE DEF line, int
    <3> QED BY <2>1, <3>1, <3>2 DEF Parsed, Found
  <2> HIDE DEF first, count
  <2>4. PICK g : Steps(g, Found, first, count, Step)
    <3>1. Step \in [(1 .. count) \X Found -> Found]
      BY ReadParamFound
    <3> HIDE DEF Step
    <3> QED BY <2>2, <2>3, <3>1, StepsExist
  <2>5. Is(g)
    <3>1. g \in [0 .. count -> Found] /\ g[0] = first /\ \A i \in 1 .. count : g[i] = Step[<<i, g[i - 1]>>]
      BY <2>4 DEF Steps
    <3>2. \A i \in 1 .. count : g[i - 1] \in Found
      BY <2>2, <3>1
    <3>3. \A i \in 1 .. count : g[i] = readParam_(src, g[i - 1])
      BY <3>1, <3>2
    <3>4. \A i \in 0 .. count : g[i] = IF i = 0 THEN first ELSE readParam_(src, g[i - 1])
      BY <3>1, <3>3
    <3> QED BY <3>1, <3>4
  <2>6. Is(f0)
    <3> HIDE DEF Is
    <3> QED BY <2>5
  <2> HIDE DEF f0
  <2>7. \A i \in 0 .. count : f0[i] = IF i = 0 THEN first ELSE readParam_(src, f0[i - 1])
    BY <2>6
  <2> DEFINE T == {i \in 0 .. count : f0[i] \in Found /\ Len(f0[i].params) <= i}
  <2>8. 0 \in T
    BY <2>2, <2>3, <2>7
  <2>9. ASSUME NEW i \in 1 .. count, i - 1 \in T PROVE i \in T
    <3>1. f0[i - 1] \in Found /\ Len(f0[i - 1].params) <= i - 1 /\ i \in 0 .. count /\ i # 0
      BY <2>2, <2>9
    <3>2. f0[i] = readParam_(src, f0[i - 1])
      BY <2>7, <3>1
    <3>3. f0[i] \in Found /\ Len(f0[i].params) <= Len(f0[i - 1].params) + 1
      BY <3>1, <3>2, ReadParamFound
    <3>4. Len(f0[i].params) \in Nat /\ Len(f0[i - 1].params) \in Nat
      BY <3>1, <3>3 DEF Found
    <3>5. Len(f0[i].params) <= i
      BY <2>2, <3>1, <3>3, <3>4
    <3> QED BY <3>1, <3>3, <3>5
  <2>10. \A i \in 0 .. count : i \in T
    <3> HIDE DEF T
    <3> QED BY <2>2, <2>8, <2>9, UpTo
  <2>11. f0[count] \in Found /\ Len(f0[count].params) <= count
    BY <2>2, <2>10
  <2>12. Len(f0[count].params) \in Nat
    BY <2>11 DEF Found
  <2> QED BY <1>1, <2>0, <2>2, <2>11, <2>12
<1> QED BY <1>3, <1>4, <1>5, <1>6

-----------------------------------------------------------------------------
(* The room a response asks for is enough for what it writes.                *)

Text == {t \in [blk : Block \union {NoBlock}, off : Nat, len : Number, bytes : Seq(Byte)] :
           t.blk = NoBlock => Len(t.bytes) <= t.len}

Shown(mem, texts) == FlattenSeq([i \in DOMAIN texts |-> Chars(mem, texts[i])])

Takes(texts, n) ==
  texts \in Seq(Text) /\ n \in Nat /\ \A mem \in Memory(Byte) : Len(Shown(mem, texts)) <= n

Fits(resp) == Takes(resp.texts, resp.size)

LEMMA OwnBytesAreBytes ==
  /\ {CR, LF, "*", "$", ":", "+", "-ERR ", "OK", "pong", ".", "string", Garbage,
      "one parameter", "at most", "two, three", "or four", "or more", "Not", "Implemented"} \subseteq Byte
  /\ {"0", "1", "3"} \subseteq Byte
<1>1. Digit[1] \in Digits /\ Digit[2] \in Digits /\ Digit[4] \in Digits
  BY DEF Digits
<1>2. Digit[1] = "0" /\ Digit[2] = "1" /\ Digit[4] = "3"
  BY DEF Digit
<1>3. {"0", "1", "3"} \subseteq Byte
  BY <1>1, <1>2 DEF Byte, OwnBytes
<1> QED BY <1>3 DEF Byte, OwnBytes

LEMMA CharsFit ==
  ASSUME NEW mem \in Memory(Byte), NEW t \in Text
  PROVE  Chars(mem, t) \in Seq(Byte) /\ Len(Chars(mem, t)) <= t.len
<1>1. /\ t.off \in Nat /\ t.len \in Number /\ t.bytes \in Seq(Byte)
      /\ t.blk = NoBlock => Len(t.bytes) <= t.len
  BY DEF Text
<1>2. Garbage \in Byte /\ t.len \in Nat
  BY <1>1, OwnBytesAreBytes, NumberFacts
<1>3. CASE t.blk = NoBlock
  BY <1>1, <1>3 DEF Chars
<1>4. CASE t.blk # NoBlock
  <2>1. Chars(mem, t) = Held(mem, t.blk, t.off, t.len)
    BY <1>4 DEF Chars
  <2>2. mem.mem \in [Block -> Seq(Byte)]
    BY MemoryParts
  <2>3. Held(mem, t.blk, t.off, t.len) \in Seq(Byte) /\ Len(Held(mem, t.blk, t.off, t.len)) = t.len
    BY <1>1, <1>2, <2>2, HeldBytes
  <2> QED BY <1>2, <2>1, <2>3
<1> QED BY <1>3, <1>4

LEMMA ShownBytes ==
  ASSUME NEW mem \in Memory(Byte), NEW texts \in Seq(Text)
  PROVE  /\ [i \in DOMAIN texts |-> Chars(mem, texts[i])] \in Seq(Seq(Byte))
         /\ Shown(mem, texts) \in Seq(Byte) /\ Len(Shown(mem, texts)) \in Nat
<1> DEFINE c == [i \in DOMAIN texts |-> Chars(mem, texts[i])]
<1>1. \A i \in DOMAIN texts : Chars(mem, texts[i]) \in Seq(Byte)
  <2>1. \A i \in DOMAIN texts : texts[i] \in Text
    OBVIOUS
  <2> QED BY <2>1, CharsFit
<1>2. DOMAIN texts = 1 .. Len(texts) /\ Len(texts) \in Nat
  OBVIOUS
<1>3. c \in Seq(Seq(Byte))
  BY <1>1, <1>2
<1> HIDE DEF c
<1>4. FlattenSeq(c) \in Seq(Byte)
  BY <1>3, FlattenBytes
<1>5. Shown(mem, texts) = FlattenSeq(c)
  BY DEF Shown, c
<1>6. Len(Shown(mem, texts)) \in Nat
  BY <1>4, <1>5
<1> QED BY <1>3, <1>4, <1>5, <1>6 DEF c

LEMMA TakesOne ==
  ASSUME NEW t \in Text
  PROVE  Takes(<<t>>, t.len)
<1>1. <<t>> \in Seq(Text) /\ t.len \in Nat
  <2>1. <<t>> \in Seq(Text)
    OBVIOUS
  <2>2. t.len \in Number
    BY DEF Text
  <2> QED BY <2>1, <2>2, NumberFacts
<1>2. ASSUME NEW mem \in Memory(Byte) PROVE Len(Shown(mem, <<t>>)) <= t.len
  <2> DEFINE x == Chars(mem, t)
  <2>1. x \in Seq(Byte) /\ Len(x) <= t.len
    BY CharsFit
  <2>2. [i \in DOMAIN <<t>> |-> Chars(mem, <<t>>[i])] = <<x>>
    OBVIOUS
  <2> HIDE DEF x
  <2>3. FlattenSeq(<<x>>) = x
    BY <2>1, FlattenOne
  <2> QED BY <2>1, <2>2, <2>3 DEF Shown
<1> QED BY <1>1, <1>2 DEF Takes

LEMMA TakesBoth ==
  ASSUME NEW s, NEW a, Takes(s, a), NEW t, NEW b, Takes(t, b)
  PROVE  Takes(s \o t, a + b)
<1>1. s \in Seq(Text) /\ t \in Seq(Text) /\ a \in Nat /\ b \in Nat
  BY DEF Takes
<1>2. s \o t \in Seq(Text) /\ a + b \in Nat
  BY <1>1
<1>3. ASSUME NEW mem \in Memory(Byte) PROVE Len(Shown(mem, s \o t)) <= a + b
  <2> DEFINE C(u) == [i \in DOMAIN u |-> Chars(mem, u[i])]
  <2>1. C(s \o t) = C(s) \o C(t)
    <3>1. /\ DOMAIN s = 1 .. Len(s) /\ DOMAIN t = 1 .. Len(t) /\ Len(s) \in Nat /\ Len(t) \in Nat
          /\ DOMAIN (s \o t) = 1 .. Len(s) + Len(t)
          /\ \A i \in 1 .. Len(s) + Len(t) : (s \o t)[i] = IF i <= Len(s) THEN s[i] ELSE t[i - Len(s)]
      BY <1>1
    <3>2. C(s) \in Seq(Seq(Byte)) /\ C(t) \in Seq(Seq(Byte))
      BY <1>1, ShownBytes
    <3>3. Len(C(s)) = Len(s) /\ Len(C(t)) = Len(t)
      BY <3>1
    <3>4. /\ DOMAIN (C(s) \o C(t)) = 1 .. Len(s) + Len(t)
          /\ \A i \in 1 .. Len(s) + Len(t) :
               (C(s) \o C(t))[i] = IF i <= Len(s) THEN C(s)[i] ELSE C(t)[i - Len(s)]
      <4> DEFINE x == C(s)
                 y == C(t)
                 Q == Seq(Byte)
      <4>1. x \in Seq(Q) /\ y \in Seq(Q) /\ Len(x) = Len(s) /\ Len(y) = Len(t)
        BY <3>2, <3>3
      <4> HIDE DEF x, y, Q
      <4>2. /\ DOMAIN (x \o y) = 1 .. Len(s) + Len(t)
            /\ \A i \in 1 .. Len(s) + Len(t) : (x \o y)[i] = IF i <= Len(s) THEN x[i] ELSE y[i - Len(s)]
        BY <4>1
      <4> QED BY <4>2 DEF x, y
    <3>5. \A i \in 1 .. Len(s) + Len(t) :
            (C(s) \o C(t))[i] = Chars(mem, (s \o t)[i])
      <4> SUFFICES ASSUME NEW i \in 1 .. Len(s) + Len(t)
                   PROVE  (C(s) \o C(t))[i] = Chars(mem, (s \o t)[i])
        OBVIOUS
      <4>1. CASE i <= Len(s)
        <5>1. i \in DOMAIN s
          BY <3>1, <4>1
        <5> QED BY <3>1, <3>4, <4>1, <5>1
      <4>2. CASE ~ (i <= Len(s))
        <5>1. i - Len(s) \in DOMAIN t
          BY <3>1, <4>2
        <5> QED BY <3>1, <3>4, <4>2, <5>1
      <4> QED BY <4>1, <4>2
    <3>6. C(s) \o C(t) = [i \in 1 .. Len(s) + Len(t) |-> (C(s) \o C(t))[i]]
      <4> DEFINE w == C(s) \o C(t)
                 Q == Seq(Byte)
      <4>1. w \in Seq(Q) /\ DOMAIN w = 1 .. Len(s) + Len(t)
        <5> HIDE DEF C
        <5> QED BY <3>2, <3>4
      <4> HIDE DEF w, Q
      <4>2. w = [i \in DOMAIN w |-> w[i]]
        BY <4>1
      <4> QED BY <4>1, <4>2 DEF w
    <3> QED BY <3>1, <3>5, <3>6
  <2>2. C(s) \in Seq(Seq(Byte)) /\ C(t) \in Seq(Seq(Byte))
    BY <1>1, ShownBytes
  <2> HIDE DEF C
  <2>3. FlattenSeq(C(s) \o C(t)) = FlattenSeq(C(s)) \o FlattenSeq(C(t))
    BY <2>2, FlattenConcat
  <2>4. FlattenSeq(C(s)) \in Seq(Byte) /\ FlattenSeq(C(t)) \in Seq(Byte)
    BY <2>2, FlattenBytes
  <2>5. Shown(mem, s) = FlattenSeq(C(s)) /\ Shown(mem, t) = FlattenSeq(C(t)) /\ Shown(mem, s \o t) = FlattenSeq(C(s \o t))
    BY DEF Shown, C
  <2>6. Len(FlattenSeq(C(s))) <= a /\ Len(FlattenSeq(C(t))) <= b
    BY <2>5 DEF Takes
  <2>7. Len(FlattenSeq(C(s)) \o FlattenSeq(C(t))) = Len(FlattenSeq(C(s))) + Len(FlattenSeq(C(t)))
    BY <2>4
  <2>8. Len(FlattenSeq(C(s))) \in Nat /\ Len(FlattenSeq(C(t))) \in Nat
    BY <2>4
  <2>9. Len(FlattenSeq(C(s))) + Len(FlattenSeq(C(t))) <= a + b
    BY <1>1, <2>6, <2>8
  <2> QED BY <2>1, <2>3, <2>5, <2>7, <2>9
<1> QED BY <1>2, <1>3 DEF Takes

LEMMA TakesMore ==
  ASSUME NEW s, NEW a, Takes(s, a), NEW b \in Nat, a <= b
  PROVE  Takes(s, b)
<1>1. s \in Seq(Text) /\ a \in Nat
  BY DEF Takes
<1>2. ASSUME NEW mem \in Memory(Byte) PROVE Len(Shown(mem, s)) <= b
  <2>1. Len(Shown(mem, s)) \in Nat /\ Len(Shown(mem, s)) <= a
    BY <1>1, ShownBytes DEF Takes
  <2> QED BY <1>1, <2>1
<1> QED BY <1>1, <1>2 DEF Takes

LEMMA LiteralText ==
  ASSUME NEW bytes \in Seq(Byte), Len(bytes) \in Number
  PROVE  Literal(bytes) \in Text /\ Literal(bytes).len = Len(bytes)
<1>1. Len(bytes) <= Len(bytes) /\ 0 \in Nat
  BY NumberFacts
<1> QED BY <1>1 DEF Literal, Text

(* Two bytes end a line.                                                     *)
LEMMA OwnTexts ==
  /\ \A a \in Byte : Literal(<<a>>) \in Text /\ Literal(<<a>>).len = 1
  /\ \A a, b \in Byte : Literal(<<a, b>>) \in Text /\ Literal(<<a, b>>).len = 2
  /\ Literal(ENDLN) \in Text /\ Literal(ENDLN).len = 2 /\ Len(ENDLN) = 2
<1>1. ASSUME NEW a \in Byte PROVE Literal(<<a>>) \in Text /\ Literal(<<a>>).len = 1
  <2>1. <<a>> \in Seq(Byte) /\ Len(<<a>>) = 1
    OBVIOUS
  <2> QED BY <2>1, LiteralText, NumberFacts
<1>2. ASSUME NEW a \in Byte, NEW b \in Byte PROVE Literal(<<a, b>>) \in Text /\ Literal(<<a, b>>).len = 2
  <2>1. <<a, b>> \in Seq(Byte) /\ Len(<<a, b>>) = 2
    OBVIOUS
  <2> QED BY <2>1, LiteralText, NumberFacts
<1>3. Literal(ENDLN) \in Text /\ Literal(ENDLN).len = 2
  BY <1>2, OwnBytesAreBytes DEF ENDLN
<1>4. Len(ENDLN) = 2
  BY DEF ENDLN
<1> QED BY <1>1, <1>2, <1>3, <1>4

LEMMA Joined ==
  ASSUME NEW x, NEW y
  PROVE  <<x>> \o <<y>> = <<x, y>> /\ \A z : <<x, y>> \o <<z>> = <<x, y, z>>
<1>1. <<x>> \o <<y>> = <<x, y>>
  <2> DEFINE S == {x, y}
             l == <<x>> \o <<y>>
  <2>1. <<x>> \in Seq(S) /\ <<y>> \in Seq(S) /\ <<x, y>> \in Seq(S)
    OBVIOUS
  <2>2. l \in Seq(S) /\ Len(l) = 2 /\ l[1] = x /\ l[2] = y
    BY <2>1, ConcatProperties
  <2>3. Len(<<x, y>>) = 2 /\ <<x, y>>[1] = x /\ <<x, y>>[2] = y
    OBVIOUS
  <2> HIDE DEF l, S
  <2>4. \A i \in 1 .. Len(l) : l[i] = <<x, y>>[i]
    BY <2>2, <2>3
  <2>5. l = <<x, y>>
    BY <2>1, <2>2, <2>3, <2>4, SeqEqual
  <2> QED BY <2>5 DEF l
<1>2. ASSUME NEW z PROVE <<x, y>> \o <<z>> = <<x, y, z>>
  <2> DEFINE S == {x, y, z}
             l == <<x, y>> \o <<z>>
  <2>1. <<x, y>> \in Seq(S) /\ <<z>> \in Seq(S) /\ <<x, y, z>> \in Seq(S)
    OBVIOUS
  <2>2. l \in Seq(S) /\ Len(l) = 3 /\ l[1] = x /\ l[2] = y /\ l[3] = z
    BY <2>1, ConcatProperties
  <2>3. Len(<<x, y, z>>) = 3 /\ <<x, y, z>>[1] = x /\ <<x, y, z>>[2] = y /\ <<x, y, z>>[3] = z
    OBVIOUS
  <2> HIDE DEF l, S
  <2>4. \A i \in 1 .. Len(l) : l[i] = <<x, y, z>>[i]
    BY <2>2, <2>3
  <2>5. l = <<x, y, z>>
    BY <2>1, <2>2, <2>3, <2>4, SeqEqual
  <2> QED BY <2>5 DEF l
<1> QED BY <1>1, <1>2

LEMMA LineFits ==
  ASSUME NEW a \in Byte, NEW t \in Text
  PROVE  Takes(Line(<<a>>, t), 1 + t.len + 2)
<1> DEFINE x == Literal(<<a>>)
           y == Literal(ENDLN)
<1>1. x \in Text /\ x.len = 1 /\ y \in Text /\ y.len = 2 /\ t.len \in Nat
  <2>1. t.len \in Number
    BY DEF Text
  <2> QED BY <2>1, OwnTexts, NumberFacts
<1>2. Line(<<a>>, t) = <<x, t, y>>
  BY DEF Line
<1> HIDE DEF x, y
<1>3. Takes(<<x>>, 1) /\ Takes(<<t>>, t.len) /\ Takes(<<y>>, 2)
  BY <1>1, TakesOne
<1>4. Takes(<<x>> \o <<t>>, 1 + t.len)
  BY <1>3, TakesBoth
<1>5. Takes((<<x>> \o <<t>>) \o <<y>>, (1 + t.len) + 2)
  BY <1>3, <1>4, TakesBoth
<1>6. (<<x>> \o <<t>>) \o <<y>> = <<x, t, y>>
  BY Joined
<1> QED BY <1>2, <1>5, <1>6

LEMMA NumberText ==
  ASSUME NEW n \in Number
  PROVE  /\ Literal(to_string(n)) \in Text /\ Literal(to_string(n)).len = Width(n)
         /\ Width(n) \in 1 .. to_string_buffer_size /\ Width(n) \in Nat /\ Width(n) <= to_string_buffer_size
<1>1. to_string(n) \in Seq(Byte) /\ Len(to_string(n)) = Width(n) /\ Width(n) \in 1 .. to_string_buffer_size
  BY NumberAsText
<1>2. Width(n) \in Number /\ Width(n) \in Nat /\ Width(n) <= to_string_buffer_size
  BY <1>1, NumberFacts DEF Number
<1> QED BY <1>1, <1>2, LiteralText

LEMMA StringNRTakes ==
  ASSUME NEW t \in Text
  PROVE  Takes(responceStringNR__(t), 1 + Width(t.len) + 2 + t.len + 2)
<1> DEFINE z == Literal(to_string(t.len))
           y == Literal(ENDLN)
           l == Line(<<"$">>, z)
<1>1. t.len \in Number /\ t.len \in Nat
  <2>1. t.len \in Number
    BY DEF Text
  <2> QED BY <2>1, NumberFacts
<1>2. z \in Text /\ z.len = Width(t.len) /\ Width(t.len) \in Nat
  BY <1>1, NumberText
<1>3. "$" \in Byte /\ y \in Text /\ y.len = 2
  BY OwnBytesAreBytes, OwnTexts
<1>4. responceStringNR__(t) = l \o <<t, y>>
  BY DEF responceStringNR__, Line
<1> HIDE DEF z
<1>5. Takes(l, 1 + Width(t.len) + 2)
  BY <1>2, <1>3, LineFits
<1> HIDE DEF y, l
<1>6. Takes(<<t>>, t.len) /\ Takes(<<y>>, 2)
  BY <1>3, TakesOne
<1>7. Takes(<<t>> \o <<y>>, t.len + 2) /\ <<t>> \o <<y>> = <<t, y>>
  BY <1>6, TakesBoth, Joined
<1>8. Takes(l \o <<t, y>>, (1 + Width(t.len) + 2) + (t.len + 2))
  BY <1>5, <1>7, TakesBoth
<1>9. (1 + Width(t.len) + 2) + (t.len + 2) = 1 + Width(t.len) + 2 + t.len + 2
  BY <1>1, <1>2
<1> QED BY <1>4, <1>8, <1>9

LEMMA StringSize ==
  ASSUME NEW t \in Text
  PROVE  /\ calc_size_str(t) \in Nat /\ calc_size_str(t) = 1 + to_string_buffer_size + 2 + t.len + 2
         /\ Takes(responceStringNR__(t), calc_size_str(t))
<1>1. t.len \in Number /\ t.len \in Nat /\ to_string_buffer_size \in Nat
  <2>1. t.len \in Number
    BY DEF Text
  <2> QED BY <2>1, NumberFacts
<1>2. Width(t.len) \in Nat /\ Width(t.len) <= to_string_buffer_size
  BY <1>1, NumberText
<1>3. calc_size_str(t) = 1 + to_string_buffer_size + 2 + t.len + 2
  BY OwnTexts DEF calc_size_str, calc_size_int
<1>4. /\ calc_size_str(t) \in Nat
      /\ 1 + Width(t.len) + 2 + t.len + 2 <= calc_size_str(t)
  BY <1>1, <1>2, <1>3
<1> QED BY <1>3, <1>4, StringNRTakes, TakesMore

LEMMA TextResponsesFit ==
  ASSUME NEW t \in Text
  PROVE  Fits(Error(t)) /\ Fits(String(t)) /\ Fits(SimpleString(t))
<1>1. "-ERR " \in Byte /\ "+" \in Byte
  BY OwnBytesAreBytes
<1>2. Fits(Error(t))
  <2>1. Error(t).texts = Line(<<"-ERR ">>, t) /\ Error(t).size = 1 + t.len + 2
    BY OwnTexts DEF Error, Response
  <2> QED BY <1>1, <2>1, LineFits DEF Fits
<1>3. Fits(String(t))
  <2>1. String(t).texts = responceStringNR__(t) /\ String(t).size = calc_size_str(t)
    BY DEF String, Response
  <2> QED BY <2>1, StringSize DEF Fits
<1>4. Fits(SimpleString(t))
  <2>1. SimpleString(t).texts = Line(<<"+">>, t) /\ SimpleString(t).size = 1 + t.len + 2
    BY OwnTexts DEF SimpleString, Response
  <2> QED BY <1>1, <2>1, LineFits DEF Fits
<1> QED BY <1>2, <1>3, <1>4

LEMMA OwnResponsesFit ==
  Fits(OK_) /\ \A b \in BOOLEAN : Fits(Bool(b))
<1> DEFINE y == Literal(ENDLN)
<1>1. y \in Text /\ y.len = 2 /\ Len(ENDLN) = 2
  BY OwnTexts
<1>2. ASSUME NEW a \in Byte, NEW b \in Byte
      PROVE  Takes(<<Literal(<<a, b>>), y>>, 2 + 2)
  <2> DEFINE x == Literal(<<a, b>>)
  <2>1. x \in Text /\ x.len = 2
    BY OwnTexts
  <2> HIDE DEF x, y
  <2>2. Takes(<<x>>, 2) /\ Takes(<<y>>, 2)
    BY <1>1, <2>1, TakesOne
  <2>3. Takes(<<x>> \o <<y>>, 2 + 2) /\ <<x>> \o <<y>> = <<x, y>>
    BY <2>2, TakesBoth, Joined
  <2> QED BY <2>3 DEF x
<1>3. "+" \in Byte /\ "OK" \in Byte /\ ":" \in Byte /\ "0" \in Byte /\ "1" \in Byte
  BY OwnBytesAreBytes
<1>4. Fits(OK_)
  <2>1. OK_.texts = <<Literal(<<"+", "OK">>), y>> /\ OK_.size = 2 + 2
    BY <1>1 DEF OK_, Response
  <2> QED BY <1>2, <1>3, <2>1 DEF Fits
<1>5. ASSUME NEW b \in BOOLEAN PROVE Fits(Bool(b))
  <2>1. Bool(b).texts = <<Literal(<<":", IF b THEN "1" ELSE "0">>), y>> /\ Bool(b).size = 2 + 2
    BY <1>1 DEF Bool, Response
  <2>2. (IF b THEN "1" ELSE "0") \in Byte
    BY <1>3
  <2> QED BY <1>2, <1>3, <2>1, <2>2 DEF Fits
<1> QED BY <1>4, <1>5

LEMMA NumberFits ==
  ASSUME NEW n \in Number
  PROVE  Fits(NumberU64(n))
<1> DEFINE top == UINT64_RANGE - 1
           z == Literal(to_string(n))
           w == Literal(to_string(top))
<1>1. top \in Number /\ n <= top /\ n \in Nat /\ NUMBER_LIMIT \in Nat /\ to_string_buffer_size \in Nat
  BY NumberFacts, ProtocolAssumption DEF Number
<1>2. /\ z \in Text /\ z.len = Width(n) /\ Width(n) \in Nat /\ Width(n) <= to_string_buffer_size
      /\ w \in Text /\ w.len = Width(top) /\ Width(top) \in Nat
  BY <1>1, NumberText
<1>3. Width(n) <= Width(top)
  BY <1>1, WidthGrows
<1>4. CASE n > NUMBER_LIMIT
  <2>1. NumberU64(n).texts = responceStringNR__(z) /\ NumberU64(n).size = calc_size_str(w)
    BY <1>4 DEF NumberU64, Response
  <2> HIDE DEF z, w
  <2>2. calc_size_str(z) = 1 + to_string_buffer_size + 2 + z.len + 2 /\ Takes(responceStringNR__(z), calc_size_str(z))
    BY <1>2, StringSize
  <2>3. calc_size_str(w) = 1 + to_string_buffer_size + 2 + w.len + 2 /\ calc_size_str(w) \in Nat
    BY <1>2, StringSize
  <2>4. calc_size_str(z) <= calc_size_str(w)
    BY <1>1, <1>2, <1>3, <2>2, <2>3
  <2> QED BY <2>1, <2>2, <2>3, <2>4, TakesMore DEF Fits
<1>5. CASE ~ (n > NUMBER_LIMIT)
  <2>1. NumberU64(n).texts = Line(<<":">>, z) /\ NumberU64(n).size = 1 + to_string_buffer_size + 2
    BY <1>5, OwnTexts DEF NumberU64, Response, responceNumberSV__, calc_size_int
  <2> HIDE DEF z
  <2>2. Takes(Line(<<":">>, z), 1 + z.len + 2)
    BY <1>2, OwnBytesAreBytes, LineFits
  <2>3. 1 + z.len + 2 <= 1 + to_string_buffer_size + 2 /\ 1 + to_string_buffer_size + 2 \in Nat
    BY <1>1, <1>2
  <2> QED BY <2>1, <2>2, <2>3, TakesMore DEF Fits
<1> QED BY <1>4, <1>5

(* A list asks for the room of its head and of each of its texts.            *)
LEMMA StringsFit ==
  ASSUME NEW list \in Seq(Text), list # <<>>, Len(list) \in Number
  PROVE  Fits(Strings(list))
<1> DEFINE n     == Len(list)
           base  == 1 + calc_size_int + Len(ENDLN)
           Step  == [p \in (1 .. n) \X Nat |-> p[2] + calc_size_str(list[p[1]])]
           Is(f) == f = [i \in 0 .. n |-> IF i = 0 THEN base ELSE f[i - 1] + calc_size_str(list[i])]
           size  == CHOOSE f : Is(f)
           nr    == [i \in DOMAIN list |-> responceStringNR__(list[i])]
           first == Line(<<"*">>, Literal(to_string(n)))
<1>1. n \in Nat /\ n \in 1 .. n /\ \A i \in 1 .. n : list[i] \in Text
  <2>1. n \in Nat /\ n # 0
    OBVIOUS
  <2>2. \A i \in 1 .. n : list[i] \in Text
    OBVIOUS
  <2> QED BY <2>1, <2>2
<1>2. Strings(list) = [size |-> size[n], texts |-> first \o FlattenSeq(nr)]
  BY DEF Strings, Response
<1>3. base \in Nat /\ Takes(first, base)
  <2> DEFINE z == Literal(to_string(n))
  <2>1. z \in Text /\ z.len = Width(n) /\ Width(n) \in Nat /\ Width(n) <= to_string_buffer_size
    BY NumberText
  <2>2. base = 1 + to_string_buffer_size + 2 /\ to_string_buffer_size \in Nat
    BY OwnTexts, NumberFacts DEF calc_size_int
  <2> HIDE DEF z, base
  <2>3. Takes(Line(<<"*">>, z), 1 + z.len + 2)
    BY <2>1, OwnBytesAreBytes, LineFits
  <2>4. 1 + z.len + 2 <= base /\ base \in Nat
    BY <2>1, <2>2
  <2>5. Takes(Line(<<"*">>, z), base)
    BY <2>3, <2>4, TakesMore
  <2> QED BY <2>4, <2>5 DEF z
<1> HIDE DEF base
<1>4. \A i \in 1 .. n : /\ calc_size_str(list[i]) \in Nat
                        /\ Takes(responceStringNR__(list[i]), calc_size_str(list[i]))
  BY <1>1, StringSize
<1>5. DOMAIN list = 1 .. n
  OBVIOUS
<1>6. \A i \in 1 .. n : responceStringNR__(list[i]) \in Seq(Text)
  BY <1>4 DEF Takes
<1>7. nr \in Seq(Seq(Text)) /\ Len(nr) = n /\ \A i \in 1 .. n : nr[i] = responceStringNR__(list[i])
  <2> DEFINE Q == Seq(Text)
  <2>1. \A i \in 1 .. n : responceStringNR__(list[i]) \in Q
    BY <1>6
  <2> HIDE DEF Q, n
  <2>2. nr \in Seq(Q) /\ Len(nr) = n /\ \A i \in 1 .. n : nr[i] = responceStringNR__(list[i])
    BY <1>1, <1>5, <2>1
  <2> QED BY <2>2 DEF Q
<1> HIDE DEF n, nr
<1>8. nr # <<>>
  BY <1>1, <1>7
<1>9. PICK f \in [1 .. Len(nr) -> Seq(Text)] :
        /\ f[1] = nr[1] /\ \A i \in 2 .. Len(nr) : f[i] = f[i - 1] \o nr[i]
        /\ FlattenSeq(nr) = f[Len(nr)]
  BY <1>7, <1>8, FlattenSteps
<1>10. PICK g : Steps(g, Nat, base, n, Step)
  <2>1. Step \in [(1 .. n) \X Nat -> Nat]
    BY <1>4
  <2> HIDE DEF Step
  <2> QED BY <1>1, <1>3, <2>1, StepsExist
<1>11. Is(g)
  <2>1. g \in [0 .. n -> Nat] /\ g[0] = base /\ \A i \in 1 .. n : g[i] = Step[<<i, g[i - 1]>>]
    BY <1>10 DEF Steps
  <2>2. \A i \in 1 .. n : g[i - 1] \in Nat
    BY <1>1, <2>1
  <2>3. \A i \in 1 .. n : g[i] = g[i - 1] + calc_size_str(list[i])
    BY <2>1, <2>2
  <2>4. \A i \in 0 .. n : g[i] = IF i = 0 THEN base ELSE g[i - 1] + calc_size_str(list[i])
    BY <2>1, <2>3
  <2> QED BY <2>1, <2>4
<1>12. Is(size)
  <2> HIDE DEF Is
  <2> QED BY <1>11
<1> HIDE DEF size
<1>13. \A i \in 0 .. n : size[i] = IF i = 0 THEN base ELSE size[i - 1] + calc_size_str(list[i])
  BY <1>12
<1> DEFINE T == {i \in 0 .. n : size[i] \in Nat /\ base <= size[i] /\ (i # 0 => Takes(f[i], size[i] - base))}
<1>14. 0 \in T
  BY <1>1, <1>3, <1>13
<1>15. ASSUME NEW i \in 1 .. n, i - 1 \in T PROVE i \in T
  <2> DEFINE r == responceStringNR__(list[i])
             k == calc_size_str(list[i])
  <2>0. Takes(r, k) /\ k \in Nat
    BY <1>4
  <2>1. size[i - 1] \in Nat /\ base <= size[i - 1] /\ (i - 1 # 0 => Takes(f[i - 1], size[i - 1] - base))
    BY <1>15
  <2>2. i \in 0 .. n /\ size[i] = size[i - 1] + k
    BY <1>1, <1>13
  <2> HIDE DEF k
  <2>3. size[i] \in Nat /\ base <= size[i] /\ size[i] - base = (size[i - 1] - base) + k /\ size[i - 1] - base \in Nat
    BY <1>3, <2>0, <2>1, <2>2
  <2>4. Takes(f[i], size[i] - base)
    <3>1. CASE i = 1
      <4>1. f[i] = r
        BY <1>1, <1>7, <1>9, <3>1
      <4>2. size[i] - base = k
        BY <1>1, <1>3, <1>13, <2>0, <2>2, <3>1
      <4> QED BY <2>0, <4>1, <4>2
    <3>2. CASE i # 1
      <4>1. f[i] = f[i - 1] \o r
        <5>1. i \in 2 .. Len(nr)
          BY <1>7, <3>2
        <5> QED BY <1>7, <1>9, <5>1
      <4>2. Takes(f[i - 1], size[i - 1] - base)
        BY <2>1, <3>2
      <4> HIDE DEF r, T
      <4>3. Takes(f[i - 1] \o r, (size[i - 1] - base) + k)
        BY <2>0, <4>2, TakesBoth
      <4> QED BY <2>3, <4>1, <4>3
    <3> QED BY <3>1, <3>2
  <2> QED BY <2>2, <2>3, <2>4
<1>16. \A i \in 0 .. n : i \in T
  <2> HIDE DEF T
  <2> QED BY <1>1, <1>14, <1>15, UpTo
<1>17. size[n] \in Nat /\ base <= size[n] /\ Takes(f[n], size[n] - base)
  BY <1>1, <1>16
<1>18. Takes(first \o f[n], base + (size[n] - base))
  <2> HIDE DEF first, T
  <2> QED BY <1>3, <1>17, TakesBoth
<1>19. base + (size[n] - base) = size[n]
  BY <1>3, <1>17
<1>20. Strings(list).texts = first \o f[n] /\ Strings(list).size = size[n]
  BY <1>2, <1>7, <1>9
<1> QED BY <1>18, <1>19, <1>20 DEF Fits

-----------------------------------------------------------------------------
(* Commands.                                                                 *)

Answered(a) == a.status \in {"OK", "DISCONNECT", "SHUTDOWN"} /\ Fits(a.resp)

LEMMA TextAnswers ==
  ASSUME NEW t \in Text
  PROVE  Answered(set(t)) /\ Answered(Answer("OK", SimpleString(t))) /\ Answered(Answer("OK", Error(t)))
BY TextResponsesFit DEF Answered, set, Answer

LEMMA OwnMessages ==
  /\ \A a \in Byte : Answered(set_error(<<a>>))
  /\ \A a, b \in Byte : Answered(set_error(<<a, b>>))
  /\ Answered(set(Literal(<<"1", ".", "3">>)))
  /\ Answered(Answer("OK", SimpleString(Literal(<<"pong">>))))
  /\ Answered(Answer("OK", SimpleString(Literal(<<"string">>))))
<1>1. \A a \in Byte : Answered(set_error(<<a>>))
  BY OwnTexts, TextAnswers DEF set_error
<1>2. \A a, b \in Byte : Answered(set_error(<<a, b>>))
  BY OwnTexts, TextAnswers DEF set_error
<1>3. Answered(set(Literal(<<"1", ".", "3">>)))
  <2>1. "1" \in Byte /\ "." \in Byte /\ "3" \in Byte
    BY OwnBytesAreBytes
  <2>2. <<"1", ".", "3">> \in Seq(Byte) /\ Len(<<"1", ".", "3">>) = 3
    BY <2>1
  <2>3. Literal(<<"1", ".", "3">>) \in Text
    BY <2>2, LiteralText, NumberFacts
  <2> QED BY <2>3, TextAnswers
<1>4. "pong" \in Byte /\ "string" \in Byte
  BY OwnBytesAreBytes
<1> QED BY <1>1, <1>2, <1>3, <1>4, OwnTexts, TextAnswers

LEMMA MurmurAnswers ==
  ASSUME HashesAreNumbers, NEW mem \in Memory(Byte), NEW p \in Seq(Text)
  PROVE  Answered(MURMUR(mem, p))
<1> DEFINE number(i) == IF Len(p) >= i THEN from_string(Chars(mem, p[i])) ELSE 0
           hash == murmur(Chars(mem, p[2]), number(3))
           n == IF number(4) # 0 THEN hash % number(4) ELSE hash
<1>1. CASE Len(p) \notin 2 .. 4
  <2>1. MURMUR(mem, p) = set_error(<<"two, three", "or four">>)
    BY <1>1 DEF MURMUR, NEED_EXACT_PARAMS_234
  <2> QED BY <2>1, OwnMessages, OwnBytesAreBytes
<1>2. CASE Len(p) \in 2 .. 4
  <2>1. \A i \in 1 .. Len(p) : Chars(mem, p[i]) \in Seq(Byte)
    <3>1. \A i \in 1 .. Len(p) : p[i] \in Text
      OBVIOUS
    <3> QED BY <3>1, CharsFit
  <2>2. \A i \in 1 .. Len(p) : from_string(Chars(mem, p[i])) \in Number
    BY <2>1, FromStringNumber
  <2>3. number(3) \in Number /\ number(4) \in Number
    BY <1>2, <2>2, NumberFacts
  <2>4. Chars(mem, p[2]) \in Seq(Byte)
    BY <1>2, <2>1
  <2>5. hash \in Number
    <3> HIDE DEF number
    <3> QED BY <2>3, <2>4 DEF HashesAreNumbers
  <2>6. MURMUR(mem, p) = Answer("OK", NumberU64(n))
    BY <1>2 DEF MURMUR
  <2> DEFINE d == number(4)
  <2> HIDE DEF number, hash
  <2>7. n \in Number
    <3>1. d \in Number /\ hash \in Number
      BY <2>3, <2>5
    <3> HIDE DEF d
    <3>2. ASSUME d # 0 PROVE hash % d \in Number
      <4>1. d \in Nat \ {0} /\ hash \in Nat /\ d <= UINT64_RANGE - 1 /\ UINT64_RANGE \in Nat
        BY <3>1, <3>2, NumberFacts DEF Number
      <4>2. hash % d \in 0 .. d - 1
        BY <4>1
      <4> QED BY <4>1, <4>2 DEF Number
    <3> QED BY <2>5, <3>2 DEF d
  <2> HIDE DEF n
  <2>8. Fits(NumberU64(n))
    BY <2>7, NumberFits
  <2> QED BY <2>6, <2>8 DEF Answered, Answer
<1> QED BY <1>1, <1>2

LEMMA RandomAnswers ==
  ASSUME HashesAreNumbers, NEW mem \in Memory(Byte), NEW p \in Seq(Text), Len(p) <= MAX_PARAMS
  PROVE  Answered(RANDOM(mem, p)) /\ Answered(MRANDOM(mem, p))
<1>1. \A i \in 1 .. Len(p) : mixer(from_string(Chars(mem, p[i]))) \in Number
  <2>1. \A i \in 1 .. Len(p) : p[i] \in Text
    OBVIOUS
  <2>2. \A i \in 1 .. Len(p) : Chars(mem, p[i]) \in Seq(Byte)
    BY <2>1, CharsFit
  <2>3. \A i \in 1 .. Len(p) : from_string(Chars(mem, p[i])) \in Number
    BY <2>2, FromStringNumber
  <2> QED BY <2>3 DEF HashesAreNumbers
<1>2. mixer(0) \in Number
  BY NumberFacts DEF HashesAreNumbers
<1>3. Len(p) \in Nat
  OBVIOUS
<1>4. Answered(RANDOM(mem, p))
  <2>1. CASE Len(p) \notin 1 .. 2
    <3>1. RANDOM(mem, p) = set_error(<<"at most", "one parameter">>)
      BY <2>1 DEF RANDOM, NEED_EXACT_PARAMS_01
    <3> QED BY <3>1, OwnMessages, OwnBytesAreBytes
  <2>2. CASE Len(p) \in 1 .. 2
    <3> DEFINE n == mixer(IF Len(p) = 1 THEN 0 ELSE from_string(Chars(mem, p[2])))
    <3>1. RANDOM(mem, p) = Answer("OK", NumberU64(n))
      BY <2>2 DEF RANDOM
    <3>2. n \in Number
      <4>1. CASE Len(p) = 1
        BY <1>2, <4>1
      <4>2. CASE Len(p) # 1
        <5>1. 2 \in 1 .. Len(p)
          BY <2>2, <4>2
        <5> QED BY <1>1, <4>2, <5>1
      <4> QED BY <4>1, <4>2
    <3> HIDE DEF n
    <3> QED BY <3>1, <3>2, NumberFits DEF Answered, Answer
  <2> QED BY <2>1, <2>2
<1>5. Answered(MRANDOM(mem, p))
  <2>1. CASE Len(p) < 2
    <3>1. MRANDOM(mem, p) = set_error(<<"one parameter", "or more">>)
      BY <2>1 DEF MRANDOM, NEED_MORE_PARAMS_1
    <3> QED BY <3>1, OwnMessages, OwnBytesAreBytes
  <2>2. CASE ~ (Len(p) < 2)
    <3> DEFINE list == [i \in 1 .. Len(p) - 1 |-> Literal(to_string(mixer(from_string(Chars(mem, p[i + 1])))))]
    <3>1. MRANDOM(mem, p) = Answer("OK", Strings(list))
      BY <2>2 DEF MRANDOM
    <3>2. ASSUME NEW i \in 1 .. Len(p) - 1 PROVE Literal(to_string(mixer(from_string(Chars(mem, p[i + 1]))))) \in Text
      <4>1. i + 1 \in 1 .. Len(p)
        BY <1>3
      <4> QED BY <1>1, <4>1, NumberText
    <3>3. list \in Seq(Text) /\ Len(list) = Len(p) - 1
      BY <1>3, <2>2, <3>2
    <3> HIDE DEF list
    <3>4. list # <<>> /\ Len(list) \in Number
      BY <1>3, <2>2, <3>3, NumberFacts DEF Number
    <3> QED BY <3>1, <3>3, <3>4, StringsFit DEF Answered, Answer
  <2> QED BY <2>1, <2>2
<1> QED BY <1>4, <1>5

LEMMA ExecuteAnswers ==
  ASSUME HashesAreNumbers, NEW mem \in Memory(Byte), NEW p \in Seq(Text), Len(p) <= MAX_PARAMS, Known(mem, p)
  PROVE  Answered(Execute(mem, p))
<1>1. Answered(ECHO(p))
  <2>1. CASE Len(p) # 2
    <3>1. ECHO(p) = set_error(<<"one parameter">>)
      BY <2>1 DEF ECHO, NEED_EXACT_PARAMS_1
    <3> QED BY <3>1, OwnMessages, OwnBytesAreBytes
  <2>2. CASE Len(p) = 2
    <3>1. ECHO(p) = set(p[2]) /\ p[2] \in Text
      BY <2>2 DEF ECHO
    <3> QED BY <3>1, TextAnswers
  <2> QED BY <2>1, <2>2
<1>2. Answered(PING(p)) /\ Answered(VERSION(p)) /\ Answered(TYPE(p))
  BY OwnMessages DEF PING, VERSION, TYPE
<1>3. Answered(TOUCH(p)) /\ Answered(REM(p)) /\ Answered(SELECT(p)) /\ Answered(TEST(p))
      /\ Answered(EXIT(p)) /\ Answered(SHUTDOWN(p))
  BY OwnResponsesFit DEF TOUCH, REM, SELECT, TEST, EXIT, SHUTDOWN, SetOK, Answer, Answered
<1>4. Answered(COMMAND(p))
  BY OwnMessages, OwnBytesAreBytes DEF COMMAND, SYS_NOT_IMPLEMENTED
<1>5. Answered(MURMUR(mem, p)) /\ Answered(RANDOM(mem, p)) /\ Answered(MRANDOM(mem, p))
  BY MurmurAnswers, RandomAnswers
<1>6. PICK name \in Names : Chars(mem, p[1]) = <<name>>
  BY DEF Known
<1> DEFINE x == Chars(mem, p[1])
<1>7. \/ x = <<"ECHO">> \/ x = <<"PING">> \/ x = <<"VERSION">> \/ x = <<"TYPE">> \/ x = <<"TOUCH">>
      \/ x = <<"COMMAND">> \/ x = <<"REM">> \/ x = <<"SELECT">> \/ x = <<"TEST">> \/ x = <<"EXIT">>
      \/ x = <<"SHUTDOWN">> \/ x = <<"MURMUR">> \/ x = <<"RANDOM">> \/ x = <<"MRANDOM">>
  BY <1>6 DEF Names
<1> DEFINE r == Execute(mem, p)
<1>8. r = CASE x = <<"ECHO">> -> ECHO(p)
           [] x = <<"PING">> -> PING(p)
           [] x = <<"VERSION">> -> VERSION(p)
           [] x = <<"TYPE">> -> TYPE(p)
           [] x = <<"TOUCH">> -> TOUCH(p)
           [] x = <<"COMMAND">> -> COMMAND(p)
           [] x = <<"REM">> -> REM(p)
           [] x = <<"SELECT">> -> SELECT(p)
           [] x = <<"TEST">> -> TEST(p)
           [] x = <<"EXIT">> -> EXIT(p)
           [] x = <<"SHUTDOWN">> -> SHUTDOWN(p)
           [] x = <<"MURMUR">> -> MURMUR(mem, p)
           [] x = <<"RANDOM">> -> RANDOM(mem, p)
           [] x = <<"MRANDOM">> -> MRANDOM(mem, p)
  BY DEF Execute
<1> HIDE DEF x, r
<1>9. \/ r = ECHO(p) \/ r = PING(p) \/ r = VERSION(p) \/ r = TYPE(p)
      \/ r = TOUCH(p) \/ r = COMMAND(p) \/ r = REM(p) \/ r = SELECT(p)
      \/ r = TEST(p) \/ r = EXIT(p) \/ r = SHUTDOWN(p) \/ r = MURMUR(mem, p)
      \/ r = RANDOM(mem, p) \/ r = MRANDOM(mem, p)
  <2>1. CASE x = <<"ECHO">>
    BY <1>8, <2>1, Zenon
  <2>2. CASE x = <<"PING">>
    BY <1>8, <2>2, Zenon
  <2>3. CASE x = <<"VERSION">>
    BY <1>8, <2>3, Zenon
  <2>4. CASE x = <<"TYPE">>
    BY <1>8, <2>4, Zenon
  <2>5. CASE x = <<"TOUCH">>
    BY <1>8, <2>5, Zenon
  <2>6. CASE x = <<"COMMAND">>
    BY <1>8, <2>6, Zenon
  <2>7. CASE x = <<"REM">>
    BY <1>8, <2>7, Zenon
  <2>8. CASE x = <<"SELECT">>
    BY <1>8, <2>8, Zenon
  <2>9. CASE x = <<"TEST">>
    BY <1>8, <2>9, Zenon
  <2>10. CASE x = <<"EXIT">>
    BY <1>8, <2>10, Zenon
  <2>11. CASE x = <<"SHUTDOWN">>
    BY <1>8, <2>11, Zenon
  <2>12. CASE x = <<"MURMUR">>
    BY <1>8, <2>12, Zenon
  <2>13. CASE x = <<"RANDOM">>
    BY <1>8, <2>13, Zenon
  <2>14. CASE x = <<"MRANDOM">>
    BY <1>8, <2>14, Zenon
  <2> QED BY <1>7, <2>1, <2>2, <2>3, <2>4, <2>5, <2>6, <2>7, <2>8, <2>9, <2>10, <2>11, <2>12, <2>13, <2>14, Zenon
<1> QED BY <1>1, <1>2, <1>3, <1>4, <1>5, <1>9 DEF r

-----------------------------------------------------------------------------
(* The answer is made, and the worker.                                       *)

(* An answer starts where its buffer starts, and fits.                       *)
LEMMA ProcessSetFits ==
  ASSUME NEW mem, Good(mem, Byte), NEW b \in Buffer, NEW resp, Fits(resp)
  PROVE  LET made == processSet(mem, b, resp)
         IN  /\ made.fits = TRUE /\ Good(made.m, Byte) /\ Unchanged(mem, made.m, b)
             /\ made.m.ctx[b].head = 0
<1> DEFINE cleared  == clear(mem, b)
           provided == provideBuffer(cleared, b, resp.size)
           off      == cleared.ctx[b].size
           bytes    == Written(provided.m, resp)
           made     == processSet(mem, b, resp)
<1>1. Garbage \in Byte
  BY OwnBytesAreBytes
<1>2. Good(cleared, Byte) /\ Unchanged(mem, cleared, b) /\ cleared.ctx[b] = NoContext
  BY ClearGood
<1>3. cleared.ctx[b].head = 0 /\ off = 0
  BY <1>2 DEF NoContext
<1>4. resp.size \in Nat /\ resp.texts \in Seq(Text)
  BY DEF Fits, Takes
<1>5. provided = resize(cleared, b, resp.size)
  BY <1>3, <1>4 DEF provideBuffer
<1> HIDE DEF cleared
<1>6. /\ Good(provided.m, Byte) /\ Unchanged(cleared, provided.m, b)
      /\ provided.m.ctx[b].head = 0 /\ provided.ok \in BOOLEAN
  BY <1>1, <1>2, <1>3, <1>4, <1>5, ResizeGood
<1>7. bytes \in Seq(Byte) /\ Len(bytes) \in Nat /\ Len(bytes) <= resp.size
  <2>1. provided.m \in Memory(Byte)
    BY <1>6 DEF Good
  <2>2. bytes = Shown(provided.m, resp.texts)
    BY DEF Written, Shown
  <2> HIDE DEF provided, bytes
  <2> QED BY <1>4, <2>1, <2>2, ShownBytes DEF Fits, Takes
<1> DEFINE copied == copy(provided.m, b, off, bytes)
           last   == resize(copied, b, off + Len(bytes))
<1>8. made = IF ~ provided.ok THEN [m |-> provided.m, fits |-> TRUE]
             ELSE [m |-> last.m, fits |-> Len(bytes) <= resp.size]
  BY DEF processSet, finalizeBuffer, cleared
<1> HIDE DEF provided, bytes, off, made
<1>9. Good(copied, Byte) /\ copied.ctx = provided.m.ctx
  <2>1. off \in Nat
    BY <1>3
  <2> QED BY <1>1, <1>6, <1>7, <2>1, CopyGood
<1> HIDE DEF copied
<1>10. /\ Good(last.m, Byte) /\ Unchanged(copied, last.m, b) /\ last.m.ctx[b].head = 0
  <2>1. off + Len(bytes) \in Nat /\ copied.ctx[b].head <= off + Len(bytes) /\ copied.ctx[b].head = 0
    BY <1>3, <1>6, <1>7, <1>9
  <2> QED BY <1>1, <1>9, <2>1, ResizeGood
<1> HIDE DEF last
<1>11. CASE ~ provided.ok
  <2>1. made.m = provided.m /\ made.fits = TRUE
    BY <1>8, <1>11
  <2> QED BY <1>2, <1>6, <2>1 DEF Unchanged, made
<1>12. CASE provided.ok
  <2>1. made.m = last.m /\ made.fits = (Len(bytes) <= resp.size)
    BY <1>8, <1>12
  <2> QED BY <1>2, <1>6, <1>7, <1>9, <1>10, <2>1 DEF Unchanged, made
<1> QED BY <1>6, <1>11, <1>12

(* What the worker leaves to the loop: memory well kept, the buffer of all   *)
(* clients and every other client's as they have to be, and an answer if it  *)
(* says that there is one.                                                   *)
Left(mem, c, out) ==
  /\ Good(out.m, Byte) /\ out.fits = TRUE
  /\ out.status \in {"PASS", "WRITE", "DISCONNECT", "DISCONNECT_ERROR", "SHUTDOWN"}
  /\ out.m.ctx[system_buffer].head = 0
  /\ \A d \in Client \ {c} : out.m.ctx[d] = mem.ctx[d]
  /\ out.status = "PASS" => out.m = mem
  /\ out.status = "WRITE" => out.m.ctx[c].head < out.m.ctx[c].size

LEMMA BufferOwners ==
  /\ system_buffer \in Buffer /\ system_buffer \notin Client
  /\ \A c \in Client : c \in Buffer /\ c # system_buffer
  /\ \A b \in Buffer : b = system_buffer \/ b \in Client
BY ProtocolAssumption

LEMMA EmptyOrNot ==
  ASSUME NEW mem, Good(mem, Byte), NEW b \in Buffer, mem.ctx[b].head = 0
  PROVE  Size(mem, b) = mem.ctx[b].size /\ mem.ctx[b].size \in Nat
BY GoodParts DEF Size

LEMMA EmitErrorLeaves ==
  ASSUME NEW mem, Good(mem, Byte), NEW c \in Client, mem.ctx[system_buffer].head = 0
  PROVE  Left(mem, c, emitError(mem, c, SYS_NOT_IMPLEMENTED))
<1> DEFINE resp == Error(Literal(SYS_NOT_IMPLEMENTED))
           made == processSet(mem, c, resp)
           out  == emitError(mem, c, SYS_NOT_IMPLEMENTED)
<1>1. Fits(resp)
  <2>1. SYS_NOT_IMPLEMENTED = <<"Not", "Implemented">> /\ "Not" \in Byte /\ "Implemented" \in Byte
    BY OwnBytesAreBytes DEF SYS_NOT_IMPLEMENTED
  <2> QED BY <2>1, OwnTexts, TextResponsesFit
<1> HIDE DEF resp
<1>2. made.fits = TRUE /\ Good(made.m, Byte) /\ Unchanged(mem, made.m, c) /\ made.m.ctx[c].head = 0
  BY <1>1, BufferOwners, ProcessSetFits
<1>3. Size(made.m, c) = made.m.ctx[c].size /\ made.m.ctx[c].size \in Nat
  BY <1>2, BufferOwners, EmptyOrNot
<1>4. out = Outcome(IF Size(made.m, c) = 0 THEN "DISCONNECT_ERROR" ELSE "WRITE", made)
  BY DEF emitError, resp
<1> HIDE DEF made, out
<1>5. out.m = made.m /\ out.fits = made.fits
      /\ out.status = IF Size(made.m, c) = 0 THEN "DISCONNECT_ERROR" ELSE "WRITE"
  BY <1>4 DEF Outcome
<1>6. made.m.ctx[system_buffer] = mem.ctx[system_buffer]
      /\ \A d \in Client \ {c} : made.m.ctx[d] = mem.ctx[d]
  BY <1>2, BufferOwners DEF Unchanged
<1>7. out.status = "WRITE" => made.m.ctx[c].head < made.m.ctx[c].size
  BY <1>2, <1>3, <1>5
<1> QED BY <1>2, <1>5, <1>6, <1>7 DEF Left, out

LEMMA TranslateLeaves ==
  ASSUME NEW mem, Good(mem, Byte), NEW c \in Client, mem.ctx[c].head = 0, NEW a, Answered(a)
  PROVE  Left(mem, c, translate_(a.status, processSet(mem, system_buffer, a.resp), c))
<1> DEFINE made == processSet(mem, system_buffer, a.resp)
           out  == translate_(a.status, made, c)
<1>1. made.fits = TRUE /\ Good(made.m, Byte) /\ Unchanged(mem, made.m, system_buffer)
      /\ made.m.ctx[system_buffer].head = 0
  <2> DEFINE resp == a.resp
  <2>1. Fits(resp) /\ system_buffer \in Buffer
    BY BufferOwners DEF Answered
  <2> HIDE DEF resp
  <2>2. LET x == processSet(mem, system_buffer, resp)
        IN  x.fits = TRUE /\ Good(x.m, Byte) /\ Unchanged(mem, x.m, system_buffer)
            /\ x.m.ctx[system_buffer].head = 0
    BY <2>1, ProcessSetFits
  <2> QED BY <2>2 DEF resp
<1>2. Size(made.m, system_buffer) = made.m.ctx[system_buffer].size /\ made.m.ctx[system_buffer].size \in Nat
  BY <1>1, BufferOwners, EmptyOrNot
<1>3. \A d \in Client : made.m.ctx[d] = mem.ctx[d]
  BY <1>1, BufferOwners DEF Unchanged
<1>4. made = [m |-> made.m, fits |-> made.fits]
  BY DEF processSet
<1> DEFINE swapped == swap(made.m, system_buffer, c)
<1>5. [made EXCEPT !.m = swap(@, system_buffer, c)] = [m |-> swapped, fits |-> made.fits]
  <2> HIDE DEF made
  <2> QED BY <1>4
<1> HIDE DEF made
<1>6. /\ Good(swapped, Byte) /\ swapped.ctx[system_buffer] = made.m.ctx[c]
      /\ swapped.ctx[c] = made.m.ctx[system_buffer]
      /\ \A d \in Buffer \ {system_buffer, c} : swapped.ctx[d] = made.m.ctx[d]
  <2>1. system_buffer \in Buffer /\ c \in Buffer /\ system_buffer # c
    BY BufferOwners
  <2> DEFINE m0 == made.m
             m1 == swap(m0, system_buffer, c)
  <2>2. Good(m0, Byte)
    BY <1>1
  <2> HIDE DEF m0
  <2>3. /\ Good(m1, Byte) /\ m1.ctx[system_buffer] = m0.ctx[c] /\ m1.ctx[c] = m0.ctx[system_buffer]
        /\ \A d \in Buffer \ {system_buffer, c} : m1.ctx[d] = m0.ctx[d]
    BY <2>1, <2>2, SwapGood
  <2> QED BY <2>3 DEF m0
<1>7. CASE Size(made.m, system_buffer) = 0
  <2>1. out.m = made.m /\ out.fits = made.fits /\ out.status = "DISCONNECT_ERROR"
    BY <1>7 DEF translate_, Outcome
  <2> HIDE DEF out
  <2> QED BY <1>1, <1>3, <2>1 DEF Left, out, made
<1>8. CASE Size(made.m, system_buffer) # 0 /\ a.status # "OK"
  <2>1. out.m = made.m /\ out.fits = made.fits /\ out.status = a.status
    BY <1>8 DEF translate_, Outcome
  <2>2. out.status \in {"DISCONNECT", "SHUTDOWN"}
    BY <1>8, <2>1 DEF Answered
  <2> HIDE DEF out
  <2> QED BY <1>1, <1>3, <2>1, <2>2 DEF Left, out, made
<1>9. CASE Size(made.m, system_buffer) # 0 /\ a.status = "OK"
  <2>1. out.m = swapped /\ out.fits = made.fits /\ out.status = "WRITE"
    BY <1>5, <1>9 DEF translate_, Outcome
  <2> HIDE DEF out, swapped
  <2>2. swapped.ctx[c].head < swapped.ctx[c].size
    BY <1>1, <1>2, <1>6, <1>9
  <2>3. \A d \in Client \ {c} : swapped.ctx[d] = mem.ctx[d]
    BY <1>3, <1>6, BufferOwners
  <2>4. swapped.ctx[system_buffer].head = 0
    BY <1>3, <1>6
  <2> QED BY <1>1, <1>6, <2>1, <2>2, <2>3, <2>4 DEF Left, out, made
<1> QED BY <1>7, <1>8, <1>9

(* The parameters of a request are texts in the client's buffer.             *)
LEMMA ViewsAreTexts ==
  ASSUME NEW mem, Good(mem, Byte), NEW c \in Client, NEW params \in Seq(Param)
  PROVE  LET p == [i \in DOMAIN params |->
                     View(mem.ctx[c].data, mem.ctx[c].head + params[i].off, params[i].len)]
         IN  p \in Seq(Text) /\ Len(p) = Len(params)
<1> DEFINE v(i) == View(mem.ctx[c].data, mem.ctx[c].head + params[i].off, params[i].len)
           p == [i \in DOMAIN params |-> v(i)]
<1>1. mem.ctx[c].data \in Block \union {NoBlock} /\ mem.ctx[c].head \in Nat
  BY GoodParts, BufferOwners
<1>2. DOMAIN params = 1 .. Len(params) /\ Len(params) \in Nat
  OBVIOUS
<1>3. ASSUME NEW i \in 1 .. Len(params) PROVE v(i) \in Text
  <2>1. params[i] \in Param
    OBVIOUS
  <2>2. params[i].off \in Nat /\ params[i].len \in Number
    BY <2>1 DEF Param
  <2>3. mem.ctx[c].head + params[i].off \in Nat
    BY <1>1, <2>2
  <2>4. <<>> \in Seq(Byte) /\ Len(<<>>) = 0
    OBVIOUS
  <2>5. 0 <= params[i].len
    BY <2>2, NumberFacts DEF Number
  <2> QED BY <1>1, <2>2, <2>3, <2>4, <2>5 DEF View, Text
<1> HIDE DEF v
<1>4. p = [i \in 1 .. Len(params) |-> v(i)]
  BY <1>2
<1>5. p \in Seq(Text) /\ Len(p) = Len(params)
  BY <1>2, <1>3, <1>4
<1> QED BY <1>5 DEF v

LEMMA WorkerLeaves ==
  ASSUME HashesAreNumbers, NEW mem, Good(mem, Byte), NEW c \in Client,
         mem.ctx[c].head = 0, mem.ctx[system_buffer].head = 0
  PROVE  Left(mem, c, worker(mem, c))
<1> DEFINE ctx    == mem.ctx[c]
           src    == Data(mem, c)
           parsed == Parse(src)
           p      == [i \in DOMAIN parsed.params |->
                        View(ctx.data, ctx.head + parsed.params[i].off, parsed.params[i].len)]
           answer == Execute(mem, p)
           idle   == [m |-> mem, fits |-> TRUE]
           out    == worker(mem, c)
<1>1. mem \in Memory(Byte) /\ mem.mem \in [Block -> Seq(Byte)] /\ Garbage \in Byte
  BY GoodParts, OwnBytesAreBytes
<1>2. src \in Seq(Byte)
  <2>1. Size(mem, c) \in Nat
    BY BufferOwners, EmptyOrNot
  <2>2. 0 \in Nat
    OBVIOUS
  <2> QED BY <1>1, <2>1, <2>2, HeldBytes DEF Data
<1> HIDE DEF src
<1>3. parsed.params \in Seq(Param) /\ Len(parsed.params) <= MAX_PARAMS
  <2>1. parsed \in Found /\ Len(parsed.params) <= MAX_PARAMS
    BY <1>2, ParseFound
  <2> HIDE DEF parsed
  <2> QED BY <2>1 DEF Found
<1>4. p \in Seq(Text) /\ Len(p) = Len(parsed.params)
  <2> DEFINE params == parsed.params
  <2>1. params \in Seq(Param)
    BY <1>3
  <2> HIDE DEF params
  <2>2. LET q == [i \in DOMAIN params |->
                    View(mem.ctx[c].data, mem.ctx[c].head + params[i].off, params[i].len)]
        IN  q \in Seq(Text) /\ Len(q) = Len(params)
    BY <2>1, ViewsAreTexts
  <2> QED BY <2>2 DEF params
<1>5. out = IF Size(mem, c) = 0 THEN Outcome("PASS", idle)
            ELSE IF parsed.status = "BUFFER_NOT_READ" THEN Outcome("PASS", idle)
            ELSE IF parsed.status = "ERROR" THEN Outcome("DISCONNECT_ERROR", idle)
            ELSE IF ~ Known(mem, p) THEN emitError(mem, c, SYS_NOT_IMPLEMENTED)
            ELSE translate_(answer.status, processSet(mem, system_buffer, answer.resp), c)
  BY DEF worker, workerCommand, workerAnswer, Views, src
<1> HIDE DEF parsed, p, out
<1>6. Left(mem, c, Outcome("PASS", idle)) /\ Left(mem, c, Outcome("DISCONNECT_ERROR", idle))
  BY DEF Left, Outcome
<1>7. Left(mem, c, emitError(mem, c, SYS_NOT_IMPLEMENTED))
  BY EmitErrorLeaves
<1>8. ASSUME Known(mem, p)
      PROVE  Left(mem, c, translate_(answer.status, processSet(mem, system_buffer, answer.resp), c))
  <2>1. Len(p) <= MAX_PARAMS
    BY <1>3, <1>4
  <2>2. Answered(answer)
    BY <1>1, <1>4, <1>8, <2>1, ExecuteAnswers
  <2> HIDE DEF answer
  <2> QED BY <2>2, TranslateLeaves
<1> HIDE DEF answer, idle
<1> QED BY <1>5, <1>6, <1>7, <1>8 DEF out

-----------------------------------------------------------------------------
(* The inductive invariant.                                                  *)

(* What the context of a client is while the loop waits for this of it: a    *)
(* request starts where the buffer does, and an answer is not all written.   *)
Waits(ctx, state) ==
  /\ state = "none" => ctx = NoContext
  /\ state = "READ" => ctx.head = 0 /\ ctx.size <= conf_maxRequestSize
  /\ state = "WRITE" => ctx.head < ctx.size

AllWishes == (UNION {Wishes[c] : c \in Client}) \union {NoWish}

ClientTypes ==
  /\ conn \in [Client -> {"none", "READ", "WRITE"}]
  /\ wish \in [Client -> AllWishes]
  /\ \A c \in Client : wish[c] \in Wishes[c] \union {NoWish}
  /\ inq \in [Client -> Seq(Byte)]
  /\ reset \in [Client -> BOOLEAN]
  /\ broken \in {"no", "read"}

IInv ==
  /\ ClientTypes
  /\ Good(m, Byte)
  /\ m.ctx[system_buffer].head = 0
  /\ \A c \in Client : Waits(m.ctx[c], conn[c])

LEMMA WishesKnown == \A c \in Client : \A w \in Wishes[c] \union {NoWish} : w \in AllWishes
<1> SUFFICES ASSUME NEW c \in Client, NEW w \in Wishes[c] PROVE w \in UNION {Wishes[d] : d \in Client}
  BY DEF AllWishes
<1>1. Wishes[c] \in {Wishes[d] : d \in Client}
  OBVIOUS
<1> QED BY <1>1, Zenon

LEMMA NothingWaits == Waits(NoContext, "none")
<1>1. "none" # "READ" /\ "none" # "WRITE"
  OBVIOUS
<1> QED BY <1>1 DEF Waits

LEMMA InitInv == Init => IInv
<1> SUFFICES ASSUME Init PROVE IInv
  OBVIOUS
<1>1. m = InitMemory /\ Good(m, Byte) /\ \A b \in Buffer : m.ctx[b] = NoContext
  BY InitGood DEF Init
<1>2. m.ctx[system_buffer].head = 0
  BY <1>1, BufferOwners DEF NoContext
<1>3. \A c \in Client : Waits(m.ctx[c], conn[c])
  <2>1. \A c \in Client : m.ctx[c] = NoContext /\ conn[c] = "none"
    BY <1>1, BufferOwners DEF Init
  <2> QED BY <2>1, NothingWaits
<1>4. ClientTypes
  <2>1. <<>> \in Seq(Byte)
    OBVIOUS
  <2>2. NoWish \in AllWishes
    BY DEF AllWishes
  <2>3. wish \in [Client -> AllWishes] /\ \A c \in Client : wish[c] \in Wishes[c] \union {NoWish}
    BY <2>2 DEF Init
  <2>4. inq \in [Client -> Seq(Byte)]
    BY <2>1 DEF Init
  <2>5. conn \in [Client -> {"none", "READ", "WRITE"}] /\ reset \in [Client -> BOOLEAN] /\ broken = "no"
    BY DEF Init
  <2> QED BY <2>3, <2>4, <2>5 DEF ClientTypes
<1> QED BY <1>1, <1>2, <1>3, <1>4 DEF IInv

(* A client's parts change, the others stay.                                 *)
LEMMA TypesKept ==
  ASSUME ClientTypes, NEW c \in Client,
         NEW state \in {"none", "READ", "WRITE"}, NEW w \in Wishes[c] \union {NoWish},
         NEW rest \in Seq(Byte), NEW gone \in BOOLEAN,
         conn' = [conn EXCEPT ![c] = state], wish' = [wish EXCEPT ![c] = w],
         inq' = [inq EXCEPT ![c] = rest], reset' = [reset EXCEPT ![c] = gone],
         broken' \in {"no", "read"}
  PROVE  /\ ClientTypes' /\ conn'[c] = state
         /\ \A d \in Client \ {c} : conn'[d] = conn[d]
<1>1. conn' \in [Client -> {"none", "READ", "WRITE"}] /\ conn'[c] = state
      /\ \A d \in Client \ {c} : conn'[d] = conn[d]
  BY DEF ClientTypes
<1>2. wish' \in [Client -> AllWishes] /\ \A d \in Client : wish'[d] \in Wishes[d] \union {NoWish}
  <2>1. w \in AllWishes
    BY WishesKnown
  <2> QED BY <2>1 DEF ClientTypes
<1>3. inq' \in [Client -> Seq(Byte)]
  <2> DEFINE Q == Seq(Byte)
  <2>1. inq \in [Client -> Q] /\ rest \in Q
    BY DEF ClientTypes
  <2> HIDE DEF Q
  <2>2. inq' \in [Client -> Q]
    BY <2>1
  <2> QED BY <2>2 DEF Q
<1>4. reset' \in [Client -> BOOLEAN]
  BY DEF ClientTypes
<1> QED BY <1>1, <1>2, <1>3, <1>4 DEF ClientTypes

(* Nothing of a client stays as it is: all parts named.                      *)
LEMMA Same ==
  ASSUME ClientTypes, NEW c \in Client
  PROVE  /\ conn[c] \in {"none", "READ", "WRITE"} /\ conn = [conn EXCEPT ![c] = conn[c]]
         /\ wish[c] \in Wishes[c] \union {NoWish} /\ wish = [wish EXCEPT ![c] = wish[c]]
         /\ inq[c] \in Seq(Byte) /\ inq = [inq EXCEPT ![c] = inq[c]]
         /\ reset[c] \in BOOLEAN /\ reset = [reset EXCEPT ![c] = reset[c]]
<1>1. conn[c] \in {"none", "READ", "WRITE"} /\ conn = [conn EXCEPT ![c] = conn[c]]
  BY DEF ClientTypes
<1>2. wish[c] \in Wishes[c] \union {NoWish} /\ wish = [wish EXCEPT ![c] = wish[c]]
  BY DEF ClientTypes
<1>3. inq[c] \in Seq(Byte) /\ inq = [inq EXCEPT ![c] = inq[c]]
  <2> DEFINE Q == Seq(Byte)
  <2>1. inq \in [Client -> Q]
    BY DEF ClientTypes
  <2> HIDE DEF Q
  <2>2. inq[c] \in Q /\ inq = [inq EXCEPT ![c] = inq[c]]
    BY <2>1
  <2> QED BY <2>2 DEF Q
<1>4. reset[c] \in BOOLEAN /\ reset = [reset EXCEPT ![c] = reset[c]]
  BY DEF ClientTypes
<1> QED BY <1>1, <1>2, <1>3, <1>4

(* The memory after a step: one client's buffer is as it has to be now, and  *)
(* what the step did with the buffer of all clients is undone.               *)
LEMMA Rejoined ==
  ASSUME IInv, NEW c \in Client, ClientTypes', Good(m', Byte),
         m'.ctx[system_buffer].head = 0,
         \A d \in Client \ {c} : m'.ctx[d] = m.ctx[d] /\ conn'[d] = conn[d],
         Waits(m'.ctx[c], conn'[c])
  PROVE  IInv'
<1>1. \A d \in Client : Waits(m'.ctx[d], conn'[d])
  <2> SUFFICES ASSUME NEW d \in Client PROVE Waits(m'.ctx[d], conn'[d])
    OBVIOUS
  <2>1. CASE d = c
    BY <2>1
  <2>2. CASE d # c
    BY <2>2 DEF IInv
  <2> QED BY <2>1, <2>2
<1> QED BY <1>1 DEF IInv

(* What is known of the memory mem in the middle of a step for c.            *)
Middle(mem, c) ==
  /\ Good(mem, Byte) /\ mem.ctx[system_buffer].head = 0
  /\ \A d \in Client \ {c} : mem.ctx[d] = m.ctx[d]

LEMMA DisconnectInv ==
  ASSUME IInv, NEW c \in Client, NEW mem, Middle(mem, c),
         client_Disconnect(c, mem), broken' \in {"no", "read"}
  PROVE  IInv'
<1>1. Good(clear(mem, c), Byte) /\ clear(mem, c).ctx[c] = NoContext /\ Unchanged(mem, clear(mem, c), c)
  BY ClearGood, BufferOwners DEF Middle
<1>2. m' = clear(mem, c)
  BY DEF client_Disconnect
<1>3. ClientTypes' /\ conn'[c] = "none" /\ \A d \in Client \ {c} : conn'[d] = conn[d]
  <2>1. <<>> \in Seq(Byte)
    OBVIOUS
  <2> QED BY <2>1, TypesKept DEF client_Disconnect, IInv
<1>4. m'.ctx[c] = NoContext /\ Good(m', Byte)
  BY <1>1, <1>2
<1>5. m'.ctx[system_buffer].head = 0 /\ \A d \in Client \ {c} : m'.ctx[d] = m.ctx[d]
  BY <1>1, <1>2, BufferOwners DEF Unchanged, Middle
<1>6. Waits(m'.ctx[c], conn'[c])
  BY <1>3, <1>4, NothingWaits
<1> QED BY <1>3, <1>4, <1>5, <1>6, Rejoined

LEMMA RestartInv ==
  ASSUME IInv, Restart, broken' \in {"no", "read"}
  PROVE  IInv'
<1>1. m' = InitMemory /\ Good(m', Byte) /\ \A b \in Buffer : m'.ctx[b] = NoContext
  BY InitGood DEF Restart
<1>2. m'.ctx[system_buffer].head = 0
  BY <1>1, BufferOwners DEF NoContext
<1>3. \A c \in Client : Waits(m'.ctx[c], conn'[c])
  <2>1. \A c \in Client : m'.ctx[c] = NoContext /\ conn'[c] = "none"
    BY <1>1, BufferOwners DEF Restart
  <2> QED BY <2>1, NothingWaits
<1>4. ClientTypes'
  <2>1. <<>> \in Seq(Byte)
    OBVIOUS
  <2>2. NoWish \in AllWishes
    BY DEF AllWishes
  <2>3. wish' \in [Client -> AllWishes] /\ \A c \in Client : wish'[c] \in Wishes[c] \union {NoWish}
    BY <2>2 DEF Restart
  <2>4. inq' \in [Client -> Seq(Byte)]
    BY <2>1 DEF Restart
  <2>5. conn' \in [Client -> {"none", "READ", "WRITE"}] /\ reset' \in [Client -> BOOLEAN]
    BY DEF Restart
  <2> QED BY <2>3, <2>4, <2>5 DEF ClientTypes
<1> QED BY <1>1, <1>2, <1>3, <1>4 DEF IInv

(* Whatever the worker makes of what was read, the invariant holds again.    *)
LEMMA WorkerInv ==
  ASSUME HashesAreNumbers, IInv, NEW c \in Client, conn[c] = "READ",
         NEW mem, Middle(mem, c), mem.ctx[c].head = 0, mem.ctx[c].size <= conf_maxRequestSize,
         NEW rest \in Seq(Byte), client_Worker(c, mem, rest)
  PROVE  IInv'
<1> DEFINE out == worker(mem, c)
<1>1. Left(mem, c, out)
  BY WorkerLeaves DEF Middle
<1>2. /\ broken' = IF out.fits THEN "no" ELSE "answer"
      /\ CASE out.status \in {"PASS", "WRITE"} ->
                /\ m' = out.m
                /\ conn' = [conn EXCEPT ![c] = IF out.status = "WRITE" THEN "WRITE" ELSE @]
                /\ inq' = [inq EXCEPT ![c] = rest]
                /\ UNCHANGED <<wish, got, reset>>
           [] out.status \in {"DISCONNECT", "DISCONNECT_ERROR"} -> client_Disconnect(c, out.m)
           [] out.status = "SHUTDOWN" -> Restart
  BY DEF client_Worker, client_WorkerDone
<1> HIDE DEF out
<1> DEFINE Goes == /\ m' = out.m
                   /\ conn' = [conn EXCEPT ![c] = IF out.status = "WRITE" THEN "WRITE" ELSE @]
                   /\ inq' = [inq EXCEPT ![c] = rest]
                   /\ UNCHANGED <<wish, got, reset>>
           Ends == client_Disconnect(c, out.m)
           A == out.status \in {"PASS", "WRITE"}
           B == out.status \in {"DISCONNECT", "DISCONNECT_ERROR"}
           C == out.status = "SHUTDOWN"
<1>3. broken' = "no"
  BY <1>1, <1>2 DEF Left
<1>4. Middle(out.m, c)
  BY <1>1 DEF Left, Middle
<1>5. CASE A
  <2>1. Goes
    <3>1. ~ B /\ ~ C
      BY <1>5
    <3>2. (CASE A -> Goes [] B -> Ends [] C -> Restart)
      BY <1>2
    <3> HIDE DEF Goes, Ends, A, B, C
    <3> QED BY <1>5, <3>1, <3>2, Zenon
  <2> DEFINE state == IF out.status = "WRITE" THEN "WRITE" ELSE conn[c]
  <2>2. conn' = [conn EXCEPT ![c] = state] /\ state \in {"none", "READ", "WRITE"}
    BY <2>1
  <2>3. wish' = [wish EXCEPT ![c] = wish[c]] /\ reset' = [reset EXCEPT ![c] = reset[c]]
        /\ wish[c] \in Wishes[c] \union {NoWish} /\ reset[c] \in BOOLEAN
    BY <2>1, Same DEF IInv
  <2>4. state = "READ" \/ state = "WRITE"
    OBVIOUS
  <2>5. out.status = "WRITE" <=> state = "WRITE"
    OBVIOUS
  <2> HIDE DEF state
  <2>6. ClientTypes' /\ conn'[c] = state /\ \A d \in Client \ {c} : conn'[d] = conn[d]
    <3>1. inq' = [inq EXCEPT ![c] = rest] /\ broken' \in {"no", "read"} /\ ClientTypes
      BY <1>3, <2>1 DEF IInv
    <3> DEFINE w == wish[c]
               gone == reset[c]
    <3>2. /\ conn' = [conn EXCEPT ![c] = state] /\ wish' = [wish EXCEPT ![c] = w]
          /\ reset' = [reset EXCEPT ![c] = gone]
          /\ w \in Wishes[c] \union {NoWish} /\ gone \in BOOLEAN
      BY <2>2, <2>3
    <3>3. state \in {"none", "READ", "WRITE"}
      BY <2>2
    <3> HIDE DEF w, gone, Goes, Ends, A, B, C
    <3> QED BY <3>1, <3>2, <3>3, TypesKept
  <2>7. m' = out.m
    BY <2>1
  <2>8. Waits(m'.ctx[c], state)
    <3>1. CASE out.status = "WRITE"
      BY <1>1, <2>5, <2>7, <3>1 DEF Left, Waits
    <3>2. CASE out.status # "WRITE"
      <4>1. state = "READ" /\ out.m = mem
        BY <1>1, <1>5, <2>4, <2>5, <3>2 DEF Left
      <4> QED BY <2>7, <4>1 DEF Waits
    <3> QED BY <3>1, <3>2
  <2> QED BY <1>4, <2>6, <2>7, <2>8, Rejoined DEF Middle
<1>6. CASE B
  <2>1. Ends
    <3>1. ~ A /\ ~ C
      BY <1>6
    <3>2. (CASE A -> Goes [] B -> Ends [] C -> Restart)
      BY <1>2
    <3> HIDE DEF Goes, Ends, A, B, C
    <3> QED BY <1>6, <3>1, <3>2, Zenon
  <2> QED BY <1>3, <1>4, <2>1, DisconnectInv
<1>7. CASE C
  <2>1. Restart
    <3>1. ~ A /\ ~ B
      BY <1>7
    <3>2. (CASE A -> Goes [] B -> Ends [] C -> Restart)
      BY <1>2
    <3> HIDE DEF Goes, Ends, A, B, C
    <3> QED BY <1>7, <3>1, <3>2, Zenon
  <2> QED BY <1>3, <2>1, RestartInv
<1> QED BY <1>1, <1>5, <1>6, <1>7 DEF Left

-----------------------------------------------------------------------------
(* The steps of clients and of the loop.                                     *)

LEMMA RoomFound ==
  ASSUME IInv, NEW c \in Client
  PROVE  /\ Good(Room(c).m, Byte) /\ Unchanged(m, Room(c).m, c)
         /\ Room(c).m.ctx[c].head = m.ctx[c].head
         /\ Room(c).ok => /\ Room(c).m.ctx[c].size \in Nat
                          /\ m.ctx[c].size + STANDARD_READ_SIZE <= Room(c).m.ctx[c].size
<1>1. Good(m, Byte) /\ Garbage \in Byte /\ c \in Buffer /\ STANDARD_READ_SIZE \in Nat
  BY OwnBytesAreBytes, BufferOwners, ProtocolAssumption DEF IInv
<1> QED BY <1>1, ProvideGood DEF Room

(* What has been read, n bytes or, after an error, one byte less than there  *)
(* were, is behind what the buffer of c held.                                *)
LEMMA ReadMiddle ==
  ASSUME IInv, NEW c \in Client, conn[c] = "READ", NEW mem, Good(mem, Byte), Unchanged(m, mem, c),
         mem.ctx[c].head = 0, NEW n \in Nat, n <= mem.ctx[c].size
  PROVE  LET left == resize(mem, c, n).m
         IN  Middle(left, c) /\ left.ctx[c].head = 0 /\ left.ctx[c].size = n
<1> DEFINE r == resize(mem, c, n)
<1>1. Garbage \in Byte /\ c \in Buffer
  BY OwnBytesAreBytes, BufferOwners
<1>2. Good(r.m, Byte) /\ Unchanged(mem, r.m, c) /\ r.m.ctx[c].head = 0 /\ (r.ok => r.m.ctx[c].size = n)
  BY <1>1, ResizeGood
<1>3. r.ok
  <2>1. mem.ctx[c].size \in Nat /\ mem.ctx[c].capacity \in Nat /\ mem.ctx[c].size <= mem.ctx[c].capacity
    BY <1>1, GoodParts DEF Inside
  <2>2. ~ (n > mem.ctx[c].capacity)
    BY <2>1
  <2> QED BY <2>2 DEF resize
<1> HIDE DEF r
<1>4. r.m.ctx[system_buffer] = m.ctx[system_buffer] /\ \A d \in Client \ {c} : r.m.ctx[d] = m.ctx[d]
  BY <1>2, BufferOwners DEF Unchanged
<1>5. Middle(r.m, c)
  BY <1>2, <1>4 DEF Middle, IInv
<1> QED BY <1>2, <1>3, <1>5 DEF r

LEMMA NothingDone ==
  ASSUME IInv, NEW c \in Client
  PROVE  Middle(m, c)
BY DEF Middle, IInv

LEMMA AskInv ==
  ASSUME IInv, NEW c \in Client, NEW w \in Wishes[c], Ask(c, w)
  PROVE  IInv'
<1>1. w.wire \in Seq(Byte)
  <2>1. w.wire \in Seq(Range(w.wire))
    BY ProtocolAssumption
  <2>2. Range(w.wire) \subseteq Byte
    <3>1. Range(w.wire) \in {Range(v.wire) : v \in Wishes[c]}
      OBVIOUS
    <3> DEFINE Sent(d) == UNION {Range(v.wire) : v \in Wishes[d]}
    <3>2. Range(w.wire) \subseteq Sent(c)
      BY <3>1, Zenon
    <3> HIDE DEF Sent
    <3>3. Sent(c) \in {Sent(d) : d \in Client}
      OBVIOUS
    <3>4. Sent(c) \subseteq UNION {Sent(d) : d \in Client}
      BY <3>3, Zenon
    <3>5. (UNION {Sent(d) : d \in Client}) \subseteq Byte
      BY DEF Byte, Sent
    <3> QED BY <3>2, <3>4, <3>5
  <2> DEFINE R == Range(w.wire)
             s == w.wire
  <2>3. s \in Seq(R) /\ R \subseteq Byte
    BY <2>1, <2>2
  <2> HIDE DEF R, s
  <2>4. s \in Seq(Byte)
    BY <2>3
  <2> QED BY <2>4 DEF s
<1>2. ClientTypes' /\ conn'[c] = "READ" /\ \A d \in Client \ {c} : conn'[d] = conn[d]
  <2>1. reset' = [reset EXCEPT ![c] = reset[c]] /\ reset[c] \in BOOLEAN
    BY Same DEF Ask, IInv
  <2>2. broken' \in {"no", "read"} /\ ClientTypes
    BY DEF Ask, IInv, ClientTypes
  <2>3. /\ conn' = [conn EXCEPT ![c] = "READ"] /\ wish' = [wish EXCEPT ![c] = w]
        /\ inq' = [inq EXCEPT ![c] = w.wire]
    BY DEF Ask
  <2> DEFINE rest == w.wire
             gone == reset[c]
  <2>4. rest \in Seq(Byte) /\ gone \in BOOLEAN /\ inq' = [inq EXCEPT ![c] = rest]
        /\ reset' = [reset EXCEPT ![c] = gone] /\ w \in Wishes[c] \union {NoWish}
    BY <1>1, <2>1, <2>3
  <2> HIDE DEF rest, gone
  <2> QED BY <2>2, <2>3, <2>4, TypesKept
<1>3. m' = m
  BY DEF Ask
<1>4. Waits(m.ctx[c], "READ")
  <2>1. CASE conn[c] = "none"
    <3>1. m.ctx[c] = NoContext
      BY <2>1 DEF IInv, Waits
    <3>2. conf_maxRequestSize \in Nat
      BY ProtocolAssumption
    <3> QED BY <3>1, <3>2 DEF Waits, NoContext
  <2>2. CASE conn[c] = "READ"
    BY <2>2 DEF IInv
  <2> QED BY <2>1, <2>2 DEF Ask
<1> QED BY <1>2, <1>3, <1>4, Rejoined DEF IInv

LEMMA ResetInv ==
  ASSUME IInv, NEW c \in Client, Reset(c)
  PROVE  IInv'
<1>1. ClientTypes'
  BY DEF IInv, ClientTypes, Reset
<1> QED BY <1>1 DEF IInv, Reset

LEMMA DisconnectsInv ==
  ASSUME IInv, NEW c \in Client, Disconnect(c) \/ ReadNoRoom(c)
  PROVE  IInv'
<1>1. client_Disconnect(c, m) /\ broken' \in {"no", "read"}
  BY DEF Disconnect, ReadNoRoom, IInv, ClientTypes
<1> QED BY <1>1, NothingDone, DisconnectInv

LEMMA ReadInv ==
  ASSUME HashesAreNumbers, IInv, NEW c \in Client, NEW n \in Lumps, Read(c, n)
  PROVE  IInv'
<1> DEFINE room  == Room(c).m
           off   == m.ctx[c].size
           size  == Least(n, Least(Len(inq[c]), room.ctx[c].size - off))
           bytes == SubSeq(inq[c], 1, size)
           got0  == copy(room, c, off, bytes)
           mem   == finalizeBuffer(got0, c, off, size)
           rest  == SubSeq(inq[c], size + 1, Len(inq[c]))
<1>1. /\ conn[c] = "READ" /\ Room(c).ok
      /\ IF Size(mem, c) > conf_maxRequestSize
         THEN client_Disconnect(c, mem) /\ UNCHANGED broken
         ELSE client_Worker(c, mem, rest)
  BY DEF Read, Readable
<1>2. /\ m.ctx[c].head = 0 /\ off \in Nat /\ Garbage \in Byte /\ c \in Buffer
  <2>1. c \in Buffer /\ Good(m, Byte)
    BY BufferOwners DEF IInv
  <2>2. Waits(m.ctx[c], conn[c])
    BY DEF IInv
  <2> QED BY <1>1, <2>1, <2>2, GoodParts, OwnBytesAreBytes DEF Waits
<1>3. /\ Good(room, Byte) /\ Unchanged(m, room, c) /\ room.ctx[c].head = 0
      /\ room.ctx[c].size \in Nat /\ off + STANDARD_READ_SIZE <= room.ctx[c].size
  BY <1>1, <1>2, RoomFound
<1>4. inq[c] \in Seq(Byte) /\ Len(inq[c]) \in Nat
  <2>1. inq[c] \in Seq(Byte)
    BY Same DEF IInv
  <2> QED BY <2>1
<1> HIDE DEF room
<1>5. size \in 0 .. Len(inq[c]) /\ off + size <= room.ctx[c].size
  <2>1. n \in Nat /\ STANDARD_READ_SIZE \in Nat
    BY ProtocolAssumption
  <2> HIDE DEF off
  <2> QED BY <1>2, <1>3, <1>4, <2>1 DEF Least
<1> HIDE DEF size, off
<1>6. bytes \in Seq(Byte) /\ rest \in Seq(Byte)
  <2> DEFINE s == inq[c]
  <2>1. s \in Seq(Byte) /\ size \in 0 .. Len(s)
    BY <1>4, <1>5
  <2> HIDE DEF s
  <2>2. SubSeq(s, 1, size) \in Seq(Byte) /\ SubSeq(s, size + 1, Len(s)) \in Seq(Byte)
    BY <2>1
  <2> QED BY <2>2 DEF s
<1> HIDE DEF bytes, rest
<1>7. Good(got0, Byte) /\ got0.ctx = room.ctx
  BY <1>2, <1>3, <1>6, CopyGood
<1>8. mem = resize(got0, c, off + size).m
  BY DEF finalizeBuffer
<1> HIDE DEF got0, mem
<1>9. Middle(mem, c) /\ mem.ctx[c].head = 0 /\ mem.ctx[c].size = off + size
  <2>1. off + size \in Nat /\ off + size <= got0.ctx[c].size /\ got0.ctx[c].head = 0
    BY <1>2, <1>3, <1>5, <1>7
  <2>2. Unchanged(m, got0, c)
    BY <1>3, <1>7 DEF Unchanged
  <2> DEFINE k == off + size
  <2>3. k \in Nat /\ k <= got0.ctx[c].size /\ mem = resize(got0, c, k).m
    BY <1>8, <2>1
  <2> HIDE DEF k
  <2>4. Middle(mem, c) /\ mem.ctx[c].head = 0 /\ mem.ctx[c].size = k
    BY <1>1, <1>7, <2>1, <2>2, <2>3, ReadMiddle
  <2> QED BY <2>4 DEF k
<1>10. Size(mem, c) = mem.ctx[c].size /\ mem.ctx[c].size \in Nat /\ conf_maxRequestSize \in Nat
  BY <1>2, <1>9, EmptyOrNot, ProtocolAssumption DEF Middle
<1>11. CASE Size(mem, c) > conf_maxRequestSize
  <2>1. client_Disconnect(c, mem) /\ broken' \in {"no", "read"}
    BY <1>1, <1>11 DEF IInv, ClientTypes
  <2> QED BY <1>9, <2>1, DisconnectInv
<1>12. CASE ~ (Size(mem, c) > conf_maxRequestSize)
  <2>1. client_Worker(c, mem, rest) /\ mem.ctx[c].size <= conf_maxRequestSize
    BY <1>1, <1>10, <1>12
  <2> QED BY <1>1, <1>6, <1>9, <2>1, WorkerInv
<1> QED BY <1>11, <1>12

LEMMA ReadFailsInv ==
  ASSUME HashesAreNumbers, IInv, NEW c \in Client, ReadFails(c)
  PROVE  IInv'
<1> DEFINE room == Room(c).m
           off  == m.ctx[c].size
           mem  == finalizeBuffer(room, c, off, - 1)
<1>1. /\ conn[c] = "READ" /\ Room(c).ok
      /\ IF off = 0
         THEN broken' = "read" /\ UNCHANGED <<m, conn, wish, inq, got, reset>>
         ELSE client_Worker(c, mem, <<>>)
  BY DEF ReadFails, Readable
<1>2. CASE off = 0
  <2>1. broken' = "read" /\ UNCHANGED <<m, conn, wish, inq, got, reset>>
    BY <1>1, <1>2
  <2>2. ClientTypes'
    BY <2>1 DEF IInv, ClientTypes
  <2> QED BY <2>1, <2>2 DEF IInv
<1>3. CASE off # 0
  <2>1. client_Worker(c, mem, <<>>)
    BY <1>1, <1>3
  <2>2. /\ m.ctx[c].head = 0 /\ off \in Nat /\ off <= conf_maxRequestSize
        /\ STANDARD_READ_SIZE \in Nat /\ conf_maxRequestSize \in Nat
    <3>1. c \in Buffer /\ Good(m, Byte)
      BY BufferOwners DEF IInv
    <3>2. Waits(m.ctx[c], conn[c])
      BY DEF IInv
    <3> QED BY <1>1, <3>1, <3>2, GoodParts, ProtocolAssumption DEF Waits
  <2>3. /\ Good(room, Byte) /\ Unchanged(m, room, c) /\ room.ctx[c].head = 0
        /\ room.ctx[c].size \in Nat /\ off + STANDARD_READ_SIZE <= room.ctx[c].size
    BY <1>1, <2>2, RoomFound
  <2> DEFINE n == off - 1
  <2>4. n \in Nat /\ n <= room.ctx[c].size /\ n <= conf_maxRequestSize /\ off + (- 1) = n
    <3> HIDE DEF off, room
    <3> QED BY <1>3, <2>2, <2>3
  <2>5. mem = resize(room, c, n).m
    <3>1. mem = resize(room, c, off + (- 1)).m
      BY DEF finalizeBuffer
    <3> HIDE DEF mem, n, off, room
    <3> QED BY <2>4, <3>1
  <2> HIDE DEF n, mem, room
  <2>6. Middle(mem, c) /\ mem.ctx[c].head = 0 /\ mem.ctx[c].size = n
    BY <1>1, <2>3, <2>4, <2>5, ReadMiddle
  <2>7. <<>> \in Seq(Byte)
    OBVIOUS
  <2>8. mem.ctx[c].size <= conf_maxRequestSize
    BY <2>4, <2>6
  <2> DEFINE rest == <<>>
  <2>9. rest \in Seq(Byte) /\ client_Worker(c, mem, rest)
    BY <2>1, <2>7
  <2> HIDE DEF rest
  <2> QED BY <1>1, <2>6, <2>8, <2>9, WorkerInv
<1> QED BY <1>2, <1>3

LEMMA WriteInv ==
  ASSUME IInv, NEW c \in Client, NEW n \in Lumps, Write(c, n)
  PROVE  IInv'
<1> DEFINE size == Least(n, Size(m, c))
           left == pop(m, c, size)
<1>1. /\ conn[c] = "WRITE" /\ m' = left
      /\ conn' = [conn EXCEPT ![c] = IF Size(left, c) = 0 THEN "READ" ELSE conn[c]]
      /\ UNCHANGED <<wish, inq, reset, broken>>
  BY DEF Write
<1>2. c \in Buffer /\ Good(m, Byte) /\ m.ctx[c].head < m.ctx[c].size
  <2>1. Waits(m.ctx[c], conn[c])
    BY DEF IInv
  <2> QED BY <1>1, <2>1, BufferOwners DEF Waits, IInv
<1>3. Size(m, c) \in Nat \ {0}
  <2>1. m.ctx[c].head \in Nat /\ m.ctx[c].size \in Nat
    BY <1>2, GoodParts
  <2> QED BY <1>2, <2>1 DEF Size
<1>4. size \in Nat \ {0} /\ (size = Size(m, c) \/ size < Size(m, c))
  BY <1>3, ProtocolAssumption DEF Least
<1> HIDE DEF size
<1>5. /\ Good(left, Byte) /\ Unchanged(m, left, c)
      /\ size = Size(m, c) => left.ctx[c] = NoContext
      /\ size < Size(m, c) => left.ctx[c].head < left.ctx[c].size
  BY <1>2, <1>4, PopGood
<1> HIDE DEF left
<1>6. /\ left.ctx[system_buffer].head = 0
      /\ \A d \in Client \ {c} : left.ctx[d] = m.ctx[d]
  BY <1>5, BufferOwners DEF Unchanged, IInv
<1> DEFINE state == IF Size(left, c) = 0 THEN "READ" ELSE "WRITE"
<1>7. Waits(left.ctx[c], state)
  <2>1. CASE size = Size(m, c)
    <3>1. left.ctx[c] = NoContext /\ conf_maxRequestSize \in Nat
      BY <1>5, <2>1, ProtocolAssumption
    <3>2. Size(left, c) = 0
      BY <3>1 DEF Size, NoContext
    <3>3. state = "READ"
      BY <3>2
    <3> HIDE DEF state
    <3> QED BY <3>1, <3>3 DEF Waits, NoContext
  <2>2. CASE size < Size(m, c)
    <3>1. left.ctx[c].head < left.ctx[c].size
      BY <1>5, <2>2
    <3>2. left.ctx[c].head \in Nat /\ left.ctx[c].size \in Nat
      BY <1>2, <1>5, GoodParts
    <3>3. Size(left, c) # 0
      BY <3>1, <3>2 DEF Size
    <3>4. state = "WRITE"
      BY <3>3
    <3> HIDE DEF state
    <3> QED BY <3>1, <3>4 DEF Waits
  <2> QED BY <1>4, <2>1, <2>2
<1>8. ClientTypes' /\ conn'[c] = state /\ \A d \in Client \ {c} : conn'[d] = conn[d]
  <2>1. conn' = [conn EXCEPT ![c] = state] /\ state \in {"none", "READ", "WRITE"}
    BY <1>1
  <2> HIDE DEF state
  <2>2. conn \in [Client -> {"none", "READ", "WRITE"}]
    BY DEF IInv, ClientTypes
  <2>3. conn' \in [Client -> {"none", "READ", "WRITE"}]
    BY <2>1, <2>2
  <2>4. ClientTypes'
    BY <1>1, <2>3 DEF IInv, ClientTypes
  <2> QED BY <2>1, <2>2, <2>4
<1> HIDE DEF state
<1> QED BY <1>1, <1>5, <1>6, <1>7, <1>8, Rejoined

LEMMA NextInv == HashesAreNumbers /\ IInv /\ [Next]_vars => IInv'
<1> SUFFICES ASSUME HashesAreNumbers, IInv, [Next]_vars PROVE IInv'
  OBVIOUS
<1>1. CASE UNCHANGED vars
  <2>1. ClientTypes'
    BY <1>1 DEF vars, IInv, ClientTypes
  <2> QED BY <1>1, <2>1 DEF vars, IInv
<1>2. ASSUME NEW c \in Client, NEW w \in Wishes[c], Ask(c, w) PROVE IInv'
  BY <1>2, AskInv
<1>3. ASSUME NEW c \in Client, NEW n \in Lumps, Read(c, n) PROVE IInv'
  BY <1>3, ReadInv
<1>4. ASSUME NEW c \in Client, NEW n \in Lumps, Write(c, n) PROVE IInv'
  BY <1>4, WriteInv
<1>5. ASSUME NEW c \in Client, ReadNoRoom(c) \/ Disconnect(c) PROVE IInv'
  BY <1>5, DisconnectsInv
<1>6. ASSUME NEW c \in Client, ReadFails(c) PROVE IInv'
  BY <1>6, ReadFailsInv
<1>7. ASSUME NEW c \in Client, Reset(c) PROVE IInv'
  BY <1>7, ResetInv
<1> QED BY <1>1, <1>2, <1>3, <1>4, <1>5, <1>6, <1>7 DEF Next

-----------------------------------------------------------------------------
(* What is proved about RedisProtocol.                                       *)

(* The inductive invariant: memory well kept, nothing taken off the front of  *)
(* the worker's buffer, each client's IOBuffer as its connection has it,     *)
(* whatever AsyncLoop reads, writes, refuses or drops.                       *)
THEOREM InvariantHolds ==
  ASSUME HashesAreNumbers
  PROVE  Spec => []IInv
<1>1. Init => IInv
  BY InitInv
<1>2. IInv /\ [Next]_vars => IInv'
  BY NextInv
<1> QED BY <1>1, <1>2, PTL DEF Spec

(* The variables keep their types, and no request that is still being read    *)
(* is larger than conf_maxRequestSize_.                                      *)
THEOREM TypeCorrect ==
  ASSUME HashesAreNumbers
  PROVE  Spec => []TypeOK
<1>1. IInv => TypeOK
  <2> SUFFICES ASSUME IInv PROVE TypeOK
    OBVIOUS
  <2>1. \A c \in Client : conn[c] = "READ" => Size(m, c) <= conf_maxRequestSize
    <3> SUFFICES ASSUME NEW c \in Client, conn[c] = "READ" PROVE Size(m, c) <= conf_maxRequestSize
      OBVIOUS
    <3>1. m.ctx[c].head = 0 /\ m.ctx[c].size <= conf_maxRequestSize
      BY DEF IInv, Waits
    <3> QED BY <3>1, BufferOwners, EmptyOrNot DEF IInv
  <2> QED BY <2>1 DEF IInv, ClientTypes, TypeOK
<1> QED BY <1>1, InvariantHolds, PTL

(* Every block of TieredMemoryManager is in its free list or in one IOBuffer, *)
(* through every growth, swap with the worker's buffer, refusal and           *)
(* client_Disconnect_.                                                       *)
THEOREM BlocksOwnedHolds ==
  ASSUME HashesAreNumbers
  PROVE  Spec => []BlocksOwned
<1>1. IInv => BlocksOwned
  BY DEF IInv, Good, BlocksOwned
<1> QED BY <1>1, InvariantHolds, PTL

(* Result::processSet never writes past the room the response asked for: each *)
(* Response::size() bounds what its operator() writes, for every command,      *)
(* every text a client sends and every number.                               *)
THEOREM AnswersFitHolds ==
  ASSUME HashesAreNumbers
  PROVE  Spec => []AnswersFit
<1>1. IInv => AnswersFit
  BY DEF IInv, ClientTypes, AnswersFit
<1> QED BY <1>1, InvariantHolds, PTL
=============================================================================
