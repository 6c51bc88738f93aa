----------------------------- MODULE Estimators -----------------------------
(***************************************************************************)
(* Values that estimate and can be merged: HyperLogLog (cmd_hll.h,           *)
(* hyperloglog.h), t-digest (cmd_tdigest.h, tdigest.cc) and summary          *)
(* statistics (cmd_summary_stats.h, accdata.h).                              *)
(*                                                                         *)
(* The commands work on several keys.  Each key has one value; a value of    *)
(* the wrong size is taken for absent.  Numbers with a fraction are exact:   *)
(* a mean is a pair of a sum and a weight.                                   *)
(***************************************************************************)
EXTENDS Integers, Sequences, SequencesExt, FiniteSetsExt, Functions

CONSTANTS
  Keys,              \* keys of the model
  Elements,          \* what clients add to a HyperLogLog
  HLL_M,             \* registers
  calcAdd(_),        \* register and rank of an element: <<index, rank>>
  Capacities,        \* capacities of a t-digest that clients send
  Deltas,            \* ... and deltas
  Values,            \* numbers that clients add
  Weights,           \* their weights
  MIN_SIZE, MAX_SIZE_TD, MIN_WEIGHT, MAX_WEIGHT,
  Quarters           \* percentiles, in quarters

VARIABLES
  sort,      \* the kind of value the keys have
  vals,      \* value of each key, NoValue if it has none
  inMem,     \* keys whose newest pair is in the memory list
  byTime,    \* the keys that have a value, the one written last at the end
  seen,      \* what was added to each key, in order
  lost       \* ... and what was dropped

evars == <<sort, vals, inMem, byTime, seen, lost>>

NoValue == [is |-> "none"]
Nobody  == [k \in Keys |-> <<>>]

clamp(x, lo, hi) == IF x < lo THEN lo ELSE IF x > hi THEN hi ELSE x

(* A pair is written: its time is the newest (only statistics compare times).*)
Store(k, v) ==
  /\ vals' = [vals EXCEPT ![k] = v]
  /\ inMem' = inMem \cup {k}
  /\ byTime' = IF sort = "ss" THEN Append(SelectSeq(byTime, LAMBDA x : x # k), k) ELSE <<>>
  /\ UNCHANGED sort

(* PairFactory::Reserve: a pair of the same size in the memory list is kept. *)
ReserveValue(k, ok, empty) ==
  LET keeps == ok /\ k \in inMem
  IN  /\ Store(k, IF keeps THEN vals[k] ELSE empty)
      /\ seen' = IF keeps THEN seen ELSE [seen EXCEPT ![k] = <<>>]
      /\ lost' = IF keeps THEN lost ELSE [lost EXCEPT ![k] = <<>>]

Saw(k, ok, xs) == seen' = [seen EXCEPT ![k] = (IF ok THEN @ ELSE <<>>) \o xs]

-----------------------------------------------------------------------------
(* HyperLogLog: M[i] is the highest rank of an element of register i.        *)

hll_clear == [i \in 1 .. HLL_M |-> 0]
IsHLL(k)  == vals[k].is = "hll"
HLL(M)    == [is |-> "hll", M |-> M]
load_ptr(k) == vals[k].M

hll_add(M, x) ==
  LET a == calcAdd(x)
  IN  IF M[a[1]] >= a[2] THEN M ELSE [M EXCEPT ![a[1]] = a[2]]

hll_merge(M, OM) == [i \in DOMAIN M |-> Max({M[i], OM[i]})]

hll_addAll(M, xs) == FoldLeft(hll_add, M, xs)

(* The estimate depends on how many registers have each rank.                *)
estimate(M) == FoldFunction(LAMBDA r, b : [b EXCEPT ![r] = @ + 1], [r \in 0 .. 64 |-> 0], M)

Start(k) == IF IsHLL(k) THEN vals[k].M ELSE hll_clear

PFADD(k, xs) ==
  /\ Store(k, HLL(hll_addAll(Start(k), xs)))
  /\ Saw(k, IsHLL(k), xs)
  /\ UNCHANGED lost

PFADDBits(k, xs) == hll_addAll(Start(k), xs) # Start(k)

PFADDCOUNT(k, xs) == PFADD(k, xs)
PFADDCOUNTAnswer(k, xs) == estimate(hll_addAll(Start(k), xs))

PFSET(k, xs) ==
  /\ Store(k, HLL(hll_addAll(hll_clear, xs)))
  /\ Saw(k, FALSE, xs)
  /\ UNCHANGED lost

PFRESERVE(k) == ReserveValue(k, IsHLL(k), HLL(hll_clear))

Union(M, ks) == FoldLeft(LAMBDA m, k : IF IsHLL(k) THEN hll_merge(m, load_ptr(k)) ELSE m, M, ks)

PFCOUNT(ks) == estimate(Union(hll_clear, ks))

(* The destination is not a source of itself.                                *)
PFMERGE(k, ks) ==
  LET from == SelectSeq(ks, LAMBDA x : x # k /\ IsHLL(x))
  IN  /\ from # <<>>
      /\ Store(k, HLL(Union(Start(k), from)))
      /\ Saw(k, IsHLL(k), FlattenSeq([i \in DOMAIN from |-> seen[from[i]]]))
      /\ UNCHANGED lost

(* HyperLogLogOperationsRaw::e                                               *)
hll_e(M, rest) == estimate(FoldLeft(hll_merge, M, rest))

(* intersect: the estimates of all unions, added (TRUE) or subtracted.       *)
hll_intersect(Ms) ==
  {<<S, Cardinality(S) % 2 = 1, hll_e(hll_clear, [i \in 1 .. Cardinality(S) |-> Ms[SetToSeq(S)[i]]])>> :
     S \in SUBSET DOMAIN Ms \ {{}}}

PFINTERSECT(ks) ==
  IF \E i \in DOMAIN ks : ~ IsHLL(ks[i]) THEN {}
  ELSE hll_intersect([i \in DOMAIN ks |-> load_ptr(ks[i])])

(* jaccard, overlap: the estimates of both sets and of their union, which    *)
(* both quotients are made of.                                               *)
hll_jaccard(A, B) == <<hll_e(A, <<>>), hll_e(B, <<>>), hll_e(A, <<B>>)>>
hll_overlap(A, B) == <<hll_e(A, <<>>), hll_e(B, <<>>), hll_e(A, <<B>>)>>

(* Nothing if one of the values is missing.                                  *)
PFJACCARD(a, b) == IF IsHLL(a) /\ IsHLL(b) THEN hll_jaccard(load_ptr(a), load_ptr(b)) ELSE <<>>
PFOVERLAP(a, b) == IF IsHLL(a) /\ IsHLL(b) THEN hll_overlap(load_ptr(a), load_ptr(b)) ELSE <<>>
PFMJACCARD(a, ks) == [i \in DOMAIN ks |-> PFJACCARD(a, ks[i])]
PFMOVERLAP(a, ks) == [i \in DOMAIN ks |-> PFOVERLAP(a, ks[i])]

-----------------------------------------------------------------------------
(* t-digest.  A centroid is a sum and a weight, its mean their quotient.     *)

TDCapacity(c) == clamp(c, MIN_SIZE, MAX_SIZE_TD)
TDBytes(c)    == 32 + 16 * c

IsTD(k, c) == vals[k].is = "td" /\ vals[k].cap = TDCapacity(c)
Zero       == [sum |-> 0, w |-> 1]
EmptyTD(c) == [is |-> "td", cap |-> TDCapacity(c), nodes |-> <<>>, weight |-> 0,
               min |-> Zero, max |-> Zero]
TDData(k, c) == IF IsTD(k, c) THEN vals[k] ELSE EmptyTD(c)

Below(a, b) == a.sum * b.w < b.sum * a.w
Both(a, b)  == [sum |-> a.sum + b.sum, w |-> a.w + b.w]
abs(n)      == IF n < 0 THEN - n ELSE n
Distance(a, b) == [sum |-> abs(a.sum * b.w - b.sum * a.w), w |-> a.w * b.w]
SumOf(nodes) == FoldLeft(Both, [sum |-> 0, w |-> 0], nodes)

(* Before the first that is not below the new one.                           *)
insertIntoSortedRange(nodes, node) ==
  LET n == Cardinality({i \in DOMAIN nodes : Below(nodes[i], node)})
  IN  SubSeq(nodes, 1, n) \o <<node>> \o SubSeq(nodes, n + 1, Len(nodes))

findMinDistance(nodes) ==
  LET D(i) == Distance(nodes[i], nodes[i + 1])
      I    == 1 .. Len(nodes) - 1
  IN  D(CHOOSE i \in I : \A j \in I : ~ Below(D(j), D(i)))

(* Neighbours become one while the distance, times their weight, is within   *)
(* delta.                                                                    *)
compressCentroids(useWeight, nodes, delta) ==
  LET join(a, b) == LET d == Distance(a, b)
                        f == IF useWeight THEN a.w + b.w ELSE 1
                    IN  ~ Below(delta, [d EXCEPT !.sum = f * @])
      step(out, b) == IF join(Last(out), b) THEN Front(out) \o <<Both(Last(out), b)>>
                      ELSE Append(out, b)
  IN  FoldLeft(step, <<nodes[1]>>, Tail(nodes))

(* Mutant: the centroid that is left over at the end is not written.         *)
compressAggressiveNoTail(nodes, delta) ==
  LET d == findMinDistance(nodes)
      c == compressCentroids(~ Below(delta, d), nodes, IF Below(delta, d) THEN d ELSE delta)
  IN  IF Len(nodes) < 2 THEN nodes ELSE Front(c)

compressAggressive(nodes, delta) ==
  IF Len(nodes) < 2 THEN nodes
  ELSE LET d == findMinDistance(nodes)
       IN  IF Below(delta, d) THEN compressCentroids(FALSE, nodes, d)
           ELSE compressCentroids(TRUE, nodes, delta)

updateMinMax(td, x) ==
  IF td.nodes = <<>> THEN [td EXCEPT !.min = x, !.max = x]
  ELSE [td EXCEPT !.min = IF Below(x, @) THEN x ELSE @, !.max = IF Below(@, x) THEN x ELSE @]

(* RawTDigest::add_: out is the digest and what it had no room for.          *)
td_add(delta, out, node) ==
  LET td    == updateMinMax(out.td, [sum |-> node.sum, w |-> node.w])
      nodes == IF Len(td.nodes) < td.cap THEN td.nodes
               ELSE compressAggressive(td.nodes, delta)
  IN  IF Len(nodes) < td.cap
      THEN [out EXCEPT !.td = [td EXCEPT !.nodes = insertIntoSortedRange(nodes, node),
                                         !.weight = @ + node.w]]
      ELSE [td |-> td, lost |-> Append(out.lost, node)]

td_addAll(td, delta, nodes) ==
  FoldLeft(LAMBDA o, n : td_add(delta, o, n), [td |-> td, lost |-> <<>>], nodes)

(* TDADD_Factory and TDMERGE_Factory: nodes go into the digest of key k.     *)
TDPut(k, c, d, nodes, saw, missed) ==
  LET out == td_addAll(TDData(k, c), [sum |-> d, w |-> 1], nodes)
      sorted(old, new) == FoldLeft(insertIntoSortedRange, old, new)
  IN  /\ Store(k, out.td)
      /\ seen' = [seen EXCEPT ![k] = sorted(IF IsTD(k, c) THEN @ ELSE <<>>, saw)]
      /\ lost' = [lost EXCEPT ![k] = sorted(IF IsTD(k, c) THEN @ ELSE <<>>, missed \o out.lost)]

TDADDWEIGHT(k, c, d, items) ==
  LET nodes == [i \in DOMAIN items |->
                  LET w == clamp(items[i][2], MIN_WEIGHT, MAX_WEIGHT)
                  IN  [sum |-> items[i][1] * w, w |-> w]]
  IN  TDPut(k, c, d, nodes, nodes, <<>>)

TDADD(k, c, d, xs) == TDADDWEIGHT(k, c, d, [i \in DOMAIN xs |-> <<xs[i], MIN_WEIGHT>>])

(* Sources have their own capacities; the destination is not one of them.    *)
TDMERGECAPACITY(k, c, d, srcs) ==
  LET from == SelectSeq(srcs, LAMBDA s : s[1] # k /\ IsTD(s[1], s[2]))
      all(f(_)) == FlattenSeq([i \in DOMAIN from |-> f(from[i][1])])
  IN  /\ from # <<>>
      /\ TDPut(k, c, d, all(LAMBDA s : vals[s].nodes), all(LAMBDA s : seen[s]),
               all(LAMBDA s : lost[s]))

TDMERGE(k, c, d, ks) == TDMERGECAPACITY(k, c, d, [i \in DOMAIN ks |-> <<ks[i], c>>])

(* The bytes are held against a limit on the capacity.                       *)
TDRESERVE(k, c) ==
  /\ TDBytes(TDCapacity(c)) <= MAX_SIZE_TD
  /\ ReserveValue(k, IsTD(k, c), EmptyTD(c))

(* RawTDigest::percentile, p in quarters.                                    *)
percentile(td, p) ==
  LET cum(i) == SumOf(SubSeq(td.nodes, 1, i)).w
      hit    == {i \in 1 .. Len(td.nodes) - 1 : 4 * cum(i) >= p * td.weight}
  IN  IF td.nodes = <<>> THEN Zero
      ELSE IF p = 0 THEN td.min ELSE IF p = 4 THEN td.max
      ELSE td.nodes[IF hit = {} THEN Len(td.nodes) ELSE Min(hit)]

Plus(a, b) == [sum |-> a.sum * b.w + b.sum * a.w, w |-> a.w * b.w]
Times(a, n) == [a EXCEPT !.sum = @ * n]
Over(a, n)  == [a EXCEPT !.w = @ * n]

(* RawTDigest::trimmedMean_: the part of each centroid between two ranks.    *)
trimmedMean(td, p, q) ==
  LET cum(i)  == 4 * SumOf(SubSeq(td.nodes, 1, i)).w
      from(i) == Max({p * td.weight, IF i = 1 THEN 0 ELSE cum(i - 1)})
      to(i)   == Min({q * td.weight, cum(i)})
      part    == [i \in DOMAIN td.nodes |-> Times(td.nodes[i], Max({0, to(i) - from(i)}))]
  IN  IF p >= q \/ td.nodes = <<>> THEN Zero
      ELSE Over(FoldLeft(Plus, Zero, part), (q - p) * td.weight)

td_mean(td) ==
  IF td.nodes = <<>> THEN Zero ELSE [sum |-> SumOf(td.nodes).sum, w |-> td.weight]

TDPERCENTILE(k, c, p)      == percentile(TDData(k, c), p)
TDMPERCENTILE(k, c, ps)    == [i \in DOMAIN ps |-> TDPERCENTILE(k, c, ps[i])]
TDMEDIAN(k, c)             == TDPERCENTILE(k, c, 2)
TDTRIMMEDMEAN(k, c, p, q)  == trimmedMean(TDData(k, c), p, q)
TDMEAN(k, c)               == td_mean(TDData(k, c))
TDMIN(k, c)                == TDData(k, c).min
TDMAX(k, c)                == TDData(k, c).max
TDSIZE(k, c)               == TDData(k, c).weight
TDINFO(k, c) ==
  IF IsTD(k, c) THEN <<TDCapacity(c), TDSIZE(k, c), TDMIN(k, c), TDMAX(k, c), Len(vals[k].nodes)>>
  ELSE <<>>

-----------------------------------------------------------------------------
(* Summary statistics.  nz and pos stand for sumHarmonic_ and sumLog_: how    *)
(* many numbers are in them.                                                 *)

IsSS(k) == vals[k].is = "ss"

Fresh == [is |-> "ss", count |-> 0, first |-> 0, last |-> 0, min |-> 0, max |-> 0,
          sum |-> 0, sum2 |-> 0, nz |-> 0, pos |-> 0]

One(p) == IF p THEN 1 ELSE 0

acc_init(a, x) ==
  [a EXCEPT !.count = 1, !.first = x, !.last = x, !.min = x, !.max = x, !.sum = x,
            !.sum2 = x * x, !.nz = One(x # 0), !.pos = One(x > 0)]

accumulate(a, x) ==
  IF a.count = 0 THEN acc_init(a, x)
  ELSE [a EXCEPT !.count = @ + 1, !.last = x, !.min = Min({@, x}), !.max = Max({@, x}),
                 !.sum = @ + x, !.sum2 = @ + x * x, !.nz = @ + One(x # 0), !.pos = @ + One(x > 0)]

(* Only the count is reset.                                                  *)
acc_clear(a) == [a EXCEPT !.count = 0]

(* AccData::merge, the other being older.                                    *)
acc_merge(a, o) ==
  IF o.count = 0 THEN a
  ELSE IF a.count = 0 THEN o
  ELSE [a EXCEPT !.first = o.first, !.min = Min({@, o.min}), !.max = Max({@, o.max}),
                 !.sum = @ + o.sum, !.sum2 = @ + o.sum2, !.nz = @ + o.nz, !.pos = @ + o.pos,
                 !.count = @ + o.count]

(* The pairs of the keys that have one, the newest first.                    *)
mergeLoadContainer(ks) ==
  FlattenSeq([i \in DOMAIN byTime |->
                SelectSeq(ks, LAMBDA x : x = byTime[Len(byTime) + 1 - i] /\ IsSS(x))])

SSADD(k, xs) ==
  /\ Store(k, FoldLeft(accumulate, IF IsSS(k) THEN vals[k] ELSE Fresh, xs))
  /\ Saw(k, IsSS(k), xs)
  /\ UNCHANGED lost

SSADDGETALL(k, xs) == SSADD(k, xs)
SSADDGET(k, x)     == SSADD(k, <<x>>)
SSADDMGET(k, x)    == SSADD(k, <<x>>)

SSRESERVE(k) == ReserveValue(k, IsSS(k), Fresh)

(* The destination is written in place when it is in the memory list: it is  *)
(* cleared first, so if it is a source too it meets what was merged so far.  *)
SSMERGE(k, ks) ==
  LET alias == IsSS(k) /\ k \in inMem
      from  == mergeLoadContainer(ks)
      own(s) == alias /\ s = k
      a0    == acc_clear(IF IsSS(k) THEN vals[k] ELSE Fresh)
      acc   == FoldLeft(LAMBDA a, s : acc_merge(a, IF own(s) THEN a ELSE vals[s]), a0, from)
      saw   == FoldLeft(LAMBDA q, s : (IF own(s) THEN q ELSE seen[s]) \o q, <<>>, from)
  IN  /\ Store(k, acc)
      /\ seen' = [seen EXCEPT ![k] = saw]
      /\ UNCHANGED lost

Fields == DOMAIN Fresh \ {"is"}

(* AccData::operator[]                                                       *)
SSGET(k, sub)   == IF IsSS(k) THEN vals[k][sub] ELSE 0
SSMGET(k, subs) == [s \in subs |-> SSGET(k, s)]

getDataAll(a) == [s \in Fields |-> IF a.count = 0 THEN 0 ELSE a[s]]
SSGETALL(ks) ==
  getDataAll(IF Len(ks) = 1 THEN (IF IsSS(ks[1]) THEN vals[ks[1]] ELSE Fresh)
             ELSE FoldLeft(LAMBDA a, s : acc_merge(a, vals[s]), Fresh, mergeLoadContainer(ks)))
==============================================================================
