------------------------------- MODULE Vectors -------------------------------
(***************************************************************************)
(* Vectors and their neighbours: cmd_vectors2.h, include/vectors.h,          *)
(* vectors_bit.h and vectors_storage.h, over RSets.                          *)
(*                                                                         *)
(* Coordinates are small integers.  The code stores a vector of length 1 and *)
(* a magnitude; here that is a vector without common divisor, and the        *)
(* divisor: what is lost by rounding is lost only in quantizeComponent.      *)
(* Distances are fractions; a square root, which keeps the order, is left    *)
(* out.                                                                      *)
(***************************************************************************)
EXTENDS RSets

CONSTANTS
  V_PLANES,                  \* for each band the hyperplanes (rows of +1, -1) of its bits
  V_RANDOM,                  \* rows of the matrix of randomProjection
  V_BITS_MIN,                \* bits that a search compares at least
  V_GRAIN,                   \* by element type: the step of quantizeComponent
  V_RESULTS, V_LOOPS, V_COUNT   \* results__, ITERATIONS_LOOPS_VSIM, count__
ASSUME VectorAssumption ==
  /\ V_BITS_MIN \in Nat
  /\ \A b \in DOMAIN V_PLANES : Len(V_PLANES[b]) >= V_BITS_MIN

QTypes    == DOMAIN V_GRAIN \cup {"b"}
QCode(q)  == CASE q = "f" -> 1 [] q = "s" -> 2 [] q = "i" -> 3 [] q = "b" -> 4
V_BANDS   == Len(V_PLANES)
V_BITS    == Len(V_PLANES[1])
Axes(v)   == [i \in DOMAIN v |-> i]
SumOf(op(_), v) == FoldLeft(LAMBDA t, i : t + op(i), 0, Axes(v))
Size(x)   == IF x < 0 THEN - x ELSE x

(* checkDType                                                                *)
DTypes     == {"l", "m", "c", "k"}
BitDTypes  == {"h", "b", "d"}
checkDType(dtype, q) == dtype \in (IF q = "b" THEN BitDTypes ELSE DTypes)

-----------------------------------------------------------------------------
(* vectors.h and vectors_storage.h                                           *)

dotProduct(a, b) == SumOf(LAMBDA i : a[i] * b[i], a)

getMagnitude(v) ==
  LET divides(n) == \A i \in DOMAIN v : Size(v[i]) % n = 0
      biggest    == Max({Size(v[i]) : i \in DOMAIN v})
  IN  IF biggest = 0 THEN 0 ELSE Max({n \in 1 .. biggest : divides(n)})

(* Division that does not round: m divides x.                                *)
Exactly(x, m) == IF x < 0 THEN - (Size(x) \div m) ELSE x \div m

normalize(v) ==
  LET m == getMagnitude(v)
  IN  IF m = 0 THEN v ELSE [i \in DOMAIN v |-> Exactly(v[i], m)]

quantizeComponent(q, x) == V_GRAIN[q] * ((x + V_GRAIN[q] \div 2) \div V_GRAIN[q])

(* bitVectorQuantize                                                         *)
bitVectorQuantize(v) == [i \in DOMAIN v |-> IF v[i] > 0 THEN 1 ELSE 0]

(* StoredVector::createInRawMemory: type, dimensions, magnitude, elements.   *)
createInRawMemory(q, v) ==
  IF q = "b" THEN <<QCode(q), Len(v), 0>> \o bitVectorQuantize(v)
  ELSE <<QCode(q), Len(v), getMagnitude(v)>>
         \o [i \in DOMAIN v |-> quantizeComponent(q, normalize(v)[i])]

(* toStoredVector: the size of the value tells its type.                     *)
NoVector == [mag |-> 0, vdata |-> <<>>]
toStoredVector(q, dim, val) ==
  IF Len(val) = 0 \/ SubSeq(val, 1, 2) # <<QCode(q), dim>> THEN NoVector
  ELSE [mag |-> val[3], vdata |-> SubSeq(val, 4, Len(val))]

denormalize(s) == [i \in DOMAIN s.vdata |-> s.vdata[i] * s.mag]

(* randomProjection                                                          *)
randomProjection(v, dim) == [x \in 1 .. dim |-> dotProduct(v, V_RANDOM[x])]

(* CreateFloatVector                                                         *)
CreateFloatVector(v, dim_ix) ==
  IF dim_ix > 1 /\ dim_ix < Len(v) THEN randomProjection(v, dim_ix) ELSE v

-----------------------------------------------------------------------------
(* Distances.  A vector is given as it is stored, [mag, vdata].              *)

distanceCosine(a, b) ==
  LET dot == dotProduct(a.vdata, b.vdata)
      den == dotProduct(a.vdata, a.vdata) * dotProduct(b.vdata, b.vdata)
  IN  IF den = 0 THEN <<0, 1>> ELSE <<- (dot * Size(dot)), den>>

distanceEuclideanSquared(a, b) ==
  <<Max({0, a.mag ^ 2 * dotProduct(a.vdata, a.vdata) + b.mag ^ 2 * dotProduct(b.vdata, b.vdata)
              - 2 * a.mag * b.mag * dotProduct(a.vdata, b.vdata)}), 1>>

manhattan(x, y) == <<SumOf(LAMBDA i : Size(x[i] - y[i]), x), 1>>

canberra(x, y) ==
  FoldLeft(LAMBDA t, i : LET den == Size(x[i]) + Size(y[i])
                         IN  IF den = 0 THEN t
                             ELSE <<t[1] * den + Size(x[i] - y[i]) * t[2], t[2] * den>>,
           <<0, 1>>, Axes(x))

distanceManhattan(a, b) == manhattan(denormalize(a), denormalize(b))
distanceCanberra(a, b)  == canberra(denormalize(a), denormalize(b))

distance(dtype, a, b) ==
  CASE dtype = "l" -> distanceEuclideanSquared(a, b)
    [] dtype = "m" -> distanceManhattan(a, b)
    [] dtype = "k" -> distanceCanberra(a, b)
    [] dtype = "c" -> distanceCosine(a, b)

(* prepareFVector: the vector searched for is put together again, with its   *)
(* magnitude for some distances.                                             *)
prepareFVector(q, dim, dtype, val) ==
  LET s == toStoredVector(q, dim, val)
  IN  IF s = NoVector THEN NoVector
      ELSE IF dtype \in {"m", "k"} THEN [mag |-> 1, vdata |-> denormalize(s)] ELSE s

(* distanceManhattanPrepared and distanceCanberraPrepared                    *)
distanceManhattanPrepared(a, b) == manhattan(a.vdata, denormalize(b))
distanceCanberraPrepared(a, b)  == canberra(a.vdata, denormalize(b))

distancePrepared(dtype, a, b) ==
  CASE dtype = "l" -> distanceEuclideanSquared(a, b)
    [] dtype = "m" -> distanceManhattanPrepared(a, b)
    [] dtype = "k" -> distanceCanberraPrepared(a, b)
    [] dtype = "c" -> distanceCosine(a, b)

(* vectors_bit.h: elements are 0 and 1.                                      *)
popcount(a)              == dotProduct(a, a)
distanceHamming(a, b)    == <<SumOf(LAMBDA i : Size(a[i] - b[i]), a), 1>>
distanceCosineBit(a, b)  ==
  IF popcount(a) = 0 \/ popcount(b) = 0 THEN <<1, 1>>
  ELSE <<popcount(a) * popcount(b) - dotProduct(a, b) ^ 2, popcount(a) * popcount(b)>>
distanceDominating(a, b) == <<- dotProduct(a, b), 1>>

distanceBit(dtype, a, b) ==
  CASE dtype = "h" -> distanceHamming(a, b)
    [] dtype = "b" -> distanceCosineBit(a, b)
    [] dtype = "d" -> distanceDominating(a, b)

(* distanceBitPrepareFix and distanceBitFix: the distance as it is answered. *)
distanceBitFix(dtype, a, d) ==
  CASE dtype = "h" -> <<d[1], Len(a)>>
    [] dtype = "b" -> d
    [] dtype = "d" -> IF popcount(a) = 0 THEN <<1, 1>> ELSE <<popcount(a) + d[1], popcount(a)>>

(* The distance that VSIM and VSIMFLAT compare by.                           *)
Near(q, dim, dtype, val, other) ==
  distancePrepared(dtype, prepareFVector(q, dim, dtype, val), toStoredVector(q, dim, other))

(* process_rangeBit__: vectors of bits are compared as they are.             *)
NearBit(dim, dtype, val, other) ==
  distanceBit(dtype, toStoredVector("b", dim, val).vdata, toStoredVector("b", dim, other).vdata)

-----------------------------------------------------------------------------
(* simhashBands and simhashBandsBit: on which side of the planes of a band a *)
(* vector lies.                                                              *)
side(q, v, plane) ==
  IF q # "b" THEN dotProduct(v, plane) > 0
  ELSE SumOf(LAMBDA i : IF (v[i] = 1) = (plane[i] = 1) THEN 0 ELSE 1, v) <= Len(v) \div 2

simhash(q, v, b) == [h \in 1 .. V_BITS |-> IF side(q, v, V_PLANES[b][h]) THEN 1 ELSE 0]

(* Decoder: the number of the band and the bits of its hash.                 *)
fixBits(bits)   == IF bits = 0 THEN V_BITS ELSE Max({V_BITS_MIN, Min({bits, V_BITS})})
fixBands(bands) == IF bands = 0 THEN V_BANDS ELSE Min({bands, V_BANDS})

bandText(q, v, b, bits) == <<b>> \o SubSeq(simhash(q, v, b), 1, bits)

VDecoder(q, dim, bands, bits, sub, data) ==
  LET s == toStoredVector(q, dim, data)
  IN  IF s = NoVector THEN NotDecoded
      ELSE Decoded({bandText(q, s.vdata, b, bits) : b \in 1 .. bands}, hashKeySort(sub))

-----------------------------------------------------------------------------
(* The commands.                                                             *)

(* groups of a member and a vector.                                          *)
VADD(q, dim_ix, groups) ==
  Command(Writes(LAMBDA d, g :
                   LET val       == createInRawMemory(q, CreateFloatVector(g[2], dim_ix))
                       Decode(v) == VDecoder(q, dim_ix, V_BANDS, V_BITS, g[1], v)
                   IN  rset_add(FALSE, Decode(rset_getIndexes(d, g[1])), g[1], hashKeySort(g[1]),
                                val, Decode(val).texts),
                 groups),
          [m \in {groups[i][1] : i \in DOMAIN groups} |->
             LET i == Max({i \in DOMAIN groups : groups[i][1] = m})
             IN  <<createInRawMemory(q, CreateFloatVector(groups[i][2], dim_ix)), 0>>])

VREM(q, dim_ix, subs) ==
  Command(Writes(LAMBDA d, sub : rset_rem(FALSE, VDecoder(q, dim_ix, V_BANDS, V_BITS, sub, rset_getIndexes(d, sub)),
                                          sub, hashKeySort(sub)), subs),
          [m \in {m \in Range(subs) : toStoredVector(q, dim_ix, rset_getData(m)) # NoVector} |-> Gone])

VGETINDEXES(q, dim, sub) ==
  VDecoder(q, dim, V_BANDS, V_BITS, sub, rset_getIndexes(db, sub))

(* process__VGET_: the bits are answered as +1 and -1.                       *)
Signs(bits) == [i \in DOMAIN bits |-> 2 * bits[i] - 1]

process_VGET(q, dim, sub, norm) ==
  LET s == toStoredVector(q, dim, rset_getData(sub))
  IN  IF q = "b" THEN (IF norm THEN <<0>> ELSE <<>>) \o Signs(s.vdata)
      ELSE IF norm THEN <<s.mag>> \o s.vdata
      ELSE denormalize(s)

VGET(q, dim, sub)           == process_VGET(q, dim, sub, FALSE)
VGETNORMALIZED(q, dim, sub) == process_VGET(q, dim, sub, TRUE)

VGETRAW(q, dim, sub) ==
  LET s == toStoredVector(q, dim, rset_getData(sub))
  IN  IF q = "b" THEN Signs(s.vdata) ELSE denormalize(s)

INF == <<1, 0>>

VDISTANCE(q, dim, dtype, subA, subB) ==
  LET a == toStoredVector(q, dim, rset_getData(subA))
      b == toStoredVector(q, dim, rset_getData(subB))
  IN  IF a = NoVector \/ b = NoVector THEN INF
      ELSE IF q = "b" THEN distanceBitFix(dtype, a.vdata, distanceBit(dtype, a.vdata, b.vdata))
      ELSE distance(dtype, a, b)

(* VMDISTANCE::process__naive__ for up to two members, process__prepared__   *)
(* for more.                                                                 *)
process_prepared(q, dim, dtype, subA, subB) ==
  LET a == prepareFVector(q, dim, dtype, rset_getData(subA))
      b == toStoredVector(q, dim, rset_getData(subB))
  IN  IF a = NoVector \/ b = NoVector THEN INF ELSE distancePrepared(dtype, a, b)

(* process__<bool>                                                           *)
process_bits(dim, dtype, subA, subB) ==
  LET a == toStoredVector("b", dim, rset_getData(subA))
      b == toStoredVector("b", dim, rset_getData(subB))
  IN  IF a = NoVector \/ b = NoVector THEN INF
      ELSE distanceBitFix(dtype, a.vdata, distanceBit(dtype, a.vdata, b.vdata))

VMDISTANCE(q, dim, dtype, subA, subs) ==
  [i \in DOMAIN subs |-> IF q = "b" THEN process_bits(dim, dtype, subA, subs[i])
                         ELSE IF Len(subs) <= 2 THEN VDISTANCE(q, dim, dtype, subA, subs[i])
                         ELSE process_prepared(q, dim, dtype, subA, subs[i])]

(* TopKSmallest: nodes are a distance and a member.                          *)
Closer(x, y) ==
  \/ x[1][1] * y[1][2] < y[1][1] * x[1][2]
  \/ x[1][1] * y[1][2] = y[1][1] * x[1][2] /\ x[2] < y[2]

VSIMHeap(heap, node) ==
  IF Cardinality(heap) < V_RESULTS THEN heap \cup {node}
  ELSE LET front == CHOOSE n \in heap : \A o \in heap \ {n} : Closer(o, n)
       IN  IF Closer(node, front) THEN (heap \ {front}) \cup {node} ELSE heap

(* The nearest of these members that have such a vector.                     *)
Nearest(q, dim, dtype, sub, others) ==
  LET val   == rset_getData(sub)
      kept  == {m \in others \ {sub} : toStoredVector(q, dim, rset_getData(m)) # NoVector}
      node(m) == <<IF q = "b" THEN NearBit(dim, dtype, val, rset_getData(m))
                   ELSE Near(q, dim, dtype, val, rset_getData(m)), m>>
  IN  FoldLeft(LAMBDA heap, m : VSIMHeap(heap, node(m)), {}, SetToSortSeq(kept, <))

(* VSIMFLAT::process_range__: all control keys, V_LOOPS of them in a page.   *)
VSIMFLAT(q, dim, dtype, sub, start) ==
  LET from  == find(db, IF start = NoTail THEN <<Empty>> ELSE start)
      late  == {k \in from : Cardinality({j \in from : Less(j, k)}) >= V_LOOPS}
  IN  IF toStoredVector(q, dim, rset_getData(sub)) = NoVector THEN [found |-> {}, tail |-> NoTail]
      ELSE [found |-> Nearest(q, dim, dtype, sub, {k[2] : k \in {k \in from \ late : isOK(db, k)}}),
            tail  |-> IF late = {} THEN NoTail ELSE least(late)]

(* VSIM::scanIndex__: the prefix may end inside the text.                    *)
scanBand(text_) ==
  {extractNth(V_BITS + 2, k)[1] :
     k \in sharedAccumulatePairs(db, V_COUNT, StopPrefix(db, text_), text_).page}

VSIMOf(q, dim, dtype, sub, bands, bits) ==
  LET decoded == VDecoder(q, dim, bands, bits, sub, rset_getData(sub))
  IN  IF ~ decoded.ok THEN {}
      ELSE Nearest(q, dim, dtype, sub, UNION {scanBand(t) : t \in decoded.texts})

(* VSIM::process__<bool>                                                     *)
VSIMBits(dim, dtype, sub, bands, bits) == VSIMOf("b", dim, dtype, sub, bands, bits)

VSIM(q, dim, dtype, sub, bands, bits) ==
  IF q = "b" THEN VSIMBits(dim, dtype, sub, fixBands(bands), fixBits(bits))
  ELSE VSIMOf(q, dim, dtype, sub, fixBands(bands), fixBits(bits))
==============================================================================
