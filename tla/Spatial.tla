------------------------------- MODULE Spatial -------------------------------
(***************************************************************************)
(* Members with a place.                                                     *)
(*                                                                         *)
(* Points of D dimensions on a Morton curve: common/mortoncurve.h and .cc,   *)
(* and the commands cmd_mortoncurve2d.h, 3d, 4d, 8d and 16d.  The five files *)
(* differ in the number of dimensions and the width of a coordinate, which   *)
(* are parameters here, and in one line of MC2POINT.                         *)
(*                                                                         *)
(* Places on a map: cmd_geo.h and common/geohash.cc.  The world is a grid of *)
(* FAN^MAX_SIZE by FAN^MAX_SIZE points; a character of a hash cuts a cell in *)
(* FAN both ways (4 and 8 in turn in the code).  A step is LatUnit north or  *)
(* LonUnit east, so that a cell may be higher than wide, as cells away from  *)
(* the equator.                                                              *)
(***************************************************************************)
EXTENDS ZSets

CONSTANTS
  Bits(_),               \* bits of a coordinate (ElemType), by dimension
  UnsignedBits(_),       \* bits of an unsigned, in the scale of Bits
  ShiftedOut,            \* what a build makes of 1u shifted by all of them
  MAX_SKIPS, MAX_RETRIES
ASSUME SkipsAssumption == MAX_SKIPS \in Nat /\ MAX_RETRIES \in Nat /\ ShiftedOut \in {0, 1}

-----------------------------------------------------------------------------
(* mortoncurve.h: bit i of coordinate d is bit i * D + d - 1 of the number.  *)

bit(x, i)  == (x \div 2 ^ i) % 2
Levels(D)  == 0 .. Bits(D) - 1

splitBits(D, x)   == MapThenSumSet(LAMBDA i : bit(x, i) * 2 ^ (D * i), Levels(D))
combineBits(D, z) == MapThenSumSet(LAMBDA i : bit(z, D * i) * 2 ^ i, Levels(D))

toMorton(D, v)   == MapThenSumSet(LAMBDA d : splitBits(D, v[d]) * 2 ^ (d - 1), 1 .. D)
fromMorton(D, z) == [d \in 1 .. D |-> combineBits(D, z \div 2 ^ (d - 1))]

toMorton2D32(v)    == toMorton(2, v)
fromMorton2D32(z)  == fromMorton(2, z)
toMorton3D32(v)    == toMorton(3, v)
fromMorton3D32(z)  == fromMorton(3, z)
toMorton4D32(v)    == toMorton(4, v)
fromMorton4D32(z)  == fromMorton(4, z)
toMorton8D8(v)     == toMorton(8, v)
fromMorton8D8(z)   == fromMorton(8, z)
toMorton16D8(v)    == toMorton(16, v)
fromMorton16D8(z)  == fromMorton(16, z)

(* 1u << n.  By the full width it is undefined: the shift of a processor that  *)
(* takes n modulo the width gives 1, one folded by the compiler 0.             *)
OneShifted(D, n) == IF n < UnsignedBits(D) THEN 2 ^ n ELSE ShiftedOut

(* mortoncurve.cc: the bits of one dimension, from a position down, replaced *)
(* by those of a pattern; of a bit that the mask misses the old value stays.   *)
loadBits(D, pattern, pos, value, dim) ==
  LET base_mask == (OneShifted(D, pos \div D + 1) - 1) % 2 ^ UnsignedBits(D)
      old(i)    == bit(value, D * i + dim)
      new(i)    == Max({bit(pattern, i), old(i) * (1 - bit(base_mask, i))})
  IN  value + MapThenSumSet(LAMBDA i : (new(i) - old(i)) * 2 ^ (D * i + dim), Levels(D))

(* T(-1)                                                                     *)
NoBigMin(D) == 2 ^ (D * Bits(D))

(* The least number after z inside the rectangle: one turn of the loop for   *)
(* each bit, the highest first.                                              *)
RECURSIVE bigminFrom(_, _, _, _, _, _)
bigminFrom(D, pos, z, z_min, z_max, bigmin) ==
  IF pos < 0 THEN bigmin
  ELSE
    LET dim   == pos % D
        mask  == 2 ^ (pos \div D)
        magic == <<bit(z, pos), bit(z_min, pos), bit(z_max, pos)>>
    IN  CASE magic = <<0, 0, 1>> ->
               bigminFrom(D, pos - 1, z, z_min, loadBits(D, mask - 1, pos, z_max, dim),
                          loadBits(D, mask, pos, z_min, dim))
          [] magic \in {<<0, 1, 0>>, <<1, 1, 0>>} -> NoBigMin(D)
          [] magic = <<0, 1, 1>> -> z_min
          [] magic = <<1, 0, 0>> -> bigmin
          [] magic = <<1, 0, 1>> ->
               bigminFrom(D, pos - 1, z, loadBits(D, mask, pos, z_min, dim), z_max, bigmin)
          [] OTHER -> bigminFrom(D, pos - 1, z, z_min, z_max, bigmin)

computeBigMin(D, z, z_min, z_max) == bigminFrom(D, D * Bits(D) - 1, z, z_min, z_max, 0)

-----------------------------------------------------------------------------
(* MortonRectangle: two corners.                                             *)
inside(D, v, v1, v2) == \A d \in 1 .. D : v1[d] <= v[d] /\ v[d] <= v2[d]

(* mortonSearchPoint                                                         *)
mortonSearchPoint(D, v, count, start) == linearSearchPoint(toMorton(D, v), count, start)

(* Mutant: the search goes on behind bigmin.                                 *)
jumpBehind(z, bigmin) == bigmin + 1

(* Where the search starts again after too many pairs outside.               *)
jump(z, bigmin) == bigmin

(* mortonSearch: the pairs from the least of `rest` on.  s has the counters  *)
(* of the loop; skips is not set back by a jump.                             *)
RECURSIVE walk(_, _, _, _, _, _, _)
walk(optimized, D, v1, v2, count, rest, s) ==
  LET done(tail) == [page |-> s.page, tail |-> tail]
      z_max      == toMorton(D, v2)
  IN
  IF rest = {} THEN done(NoTail)
  ELSE
    LET k       == least(rest)
        z       == k[1]
        next(t) == walk(optimized, D, v1, v2, count, rest \ {k},
                        [t EXCEPT !.iterations = @ + 1])
        big_min == computeBigMin(D, z, toMorton(D, v1), z_max)
    IN  IF k \in StopRangePrefix(db, makeKeyRangeN(<<z_max>>)) THEN done(NoTail)
        ELSE IF s.iterations >= ITERATIONS_LOOPS_MAX THEN done(k)
        ELSE IF ~ isOK(db, k) THEN next(s)
        ELSE IF inside(D, fromMorton(D, z), v1, v2) THEN
          IF Cardinality(s.page) >= count THEN done(k)
          ELSE next([s EXCEPT !.page = @ \cup {k}, !.skips = 0])
        ELSE IF ~ optimized \/ s.skips < MAX_SKIPS THEN next([s EXCEPT !.skips = @ + 1])
        ELSE IF s.retries >= MAX_RETRIES THEN done(k)
        ELSE IF big_min > z_max THEN done(NoTail)
        ELSE walk(optimized, D, v1, v2, count, find(db, makeKeyRangeN(<<jump(z, big_min)>>)),
                  [s EXCEPT !.iterations = @ + 1, !.skips = @ + 1, !.retries = @ + 1])

mortonSearch(optimized, D, v1, v2, count, start) ==
  walk(optimized, D, v1, v2, count,
       find(db, IF start = NoTail THEN makeKeyRangeN(<<toMorton(D, v1)>>) ELSE start),
       [page |-> {}, iterations |-> 0, skips |-> 0, retries |-> 0])

-----------------------------------------------------------------------------
(* What the commands of every dimension do.                                  *)

MaxCoord(D) == 2 ^ Bits(D) - 1

Coords(D, v) == [d \in 1 .. D |-> from_string(MaxCoord(D), v[d])]

Score(D, sub) ==
  LET ixs == getIndexes(P1, sub)
  IN  IF ixs = <<>> THEN [d \in 1 .. D |-> Empty] ELSE fromMorton(D, ixs[1][1])

AddPoints(D, groups) ==
  AddAll(P1, [i \in DOMAIN groups |->
    <<groups[i][1], <<<<toMorton(D, Coords(D, groups[i][2]))>>>>, groups[i][3]>>])

(* Every command file has a copy of the two searches for its dimension.      *)
mortonSearchPoint2D(v, count, start) == mortonSearchPoint(2, v, count, start)
mortonSearch2D(optimized, v1, v2, count, start) ==
  mortonSearch(optimized, 2, v1, v2, count, start)
mortonSearchPoint3D(v, count, start) == mortonSearchPoint(3, v, count, start)
mortonSearch3D(optimized, v1, v2, count, start) ==
  mortonSearch(optimized, 3, v1, v2, count, start)
mortonSearchPoint4D(v, count, start) == mortonSearchPoint(4, v, count, start)
mortonSearch4D(optimized, v1, v2, count, start) ==
  mortonSearch(optimized, 4, v1, v2, count, start)
mortonSearchPoint8D(v, count, start) == mortonSearchPoint(8, v, count, start)
mortonSearch8D(optimized, v1, v2, count, start) ==
  mortonSearch(optimized, 8, v1, v2, count, start)
mortonSearchPoint16D(v, count, start) == mortonSearchPoint(16, v, count, start)
mortonSearch16D(optimized, v1, v2, count, start) ==
  mortonSearch(optimized, 16, v1, v2, count, start)

MC2GET(sub)                          == get(P1, sub)
MC2MGET(subs)                        == [i \in DOMAIN subs |-> get(P1, subs[i])]
MC2SCORE(sub)                        == Score(2, sub)
MC2ADD(groups)                       == AddPoints(2, groups)
MC2REM(subs)                         == cmdProcessRem(P1, subs)
(* MC2POINT reads the number of results in place of the start key, and looks *)
(* for keys that start with it: there is none under this name.               *)
MC2POINT(v, count, start) ==
  IF start = NoTail THEN mortonSearchPoint2D(Coords(2, v), count, start) ELSE [page |-> {}, tail |-> NoTail]
MC2RANGENAIVE(v1, v2, count, start) ==
  mortonSearch2D(FALSE, Coords(2, v1), Coords(2, v2), count, start)
MC2RANGE(v1, v2, count, start) ==
  mortonSearch2D(TRUE, Coords(2, v1), Coords(2, v2), count, start)
MC2ENCODE(v)                         == toMorton2D32(Coords(2, v))
MC2DECODE(z)                         == fromMorton2D32(z)

MC3GET(sub)                          == get(P1, sub)
MC3MGET(subs)                        == [i \in DOMAIN subs |-> get(P1, subs[i])]
MC3SCORE(sub)                        == Score(3, sub)
MC3ADD(groups)                       == AddPoints(3, groups)
MC3REM(subs)                         == cmdProcessRem(P1, subs)
MC3POINT(v, count, start)            == mortonSearchPoint3D(Coords(3, v), count, start)
MC3RANGENAIVE(v1, v2, count, start) ==
  mortonSearch3D(FALSE, Coords(3, v1), Coords(3, v2), count, start)
MC3RANGE(v1, v2, count, start) ==
  mortonSearch3D(TRUE, Coords(3, v1), Coords(3, v2), count, start)
MC3ENCODE(v)                         == toMorton3D32(Coords(3, v))
MC3DECODE(z)                         == fromMorton3D32(z)

MC4GET(sub)                          == get(P1, sub)
MC4MGET(subs)                        == [i \in DOMAIN subs |-> get(P1, subs[i])]
MC4SCORE(sub)                        == Score(4, sub)
MC4ADD(groups)                       == AddPoints(4, groups)
MC4REM(subs)                         == cmdProcessRem(P1, subs)
MC4POINT(v, count, start)            == mortonSearchPoint4D(Coords(4, v), count, start)
MC4RANGENAIVE(v1, v2, count, start) ==
  mortonSearch4D(FALSE, Coords(4, v1), Coords(4, v2), count, start)
MC4RANGE(v1, v2, count, start) ==
  mortonSearch4D(TRUE, Coords(4, v1), Coords(4, v2), count, start)
MC4ENCODE(v)                         == toMorton4D32(Coords(4, v))
MC4DECODE(z)                         == fromMorton4D32(z)

MC8GET(sub)                          == get(P1, sub)
MC8MGET(subs)                        == [i \in DOMAIN subs |-> get(P1, subs[i])]
MC8SCORE(sub)                        == Score(8, sub)
MC8ADD(groups)                       == AddPoints(8, groups)
MC8REM(subs)                         == cmdProcessRem(P1, subs)
MC8POINT(v, count, start)            == mortonSearchPoint8D(Coords(8, v), count, start)
MC8RANGENAIVE(v1, v2, count, start) ==
  mortonSearch8D(FALSE, Coords(8, v1), Coords(8, v2), count, start)
MC8RANGE(v1, v2, count, start) ==
  mortonSearch8D(TRUE, Coords(8, v1), Coords(8, v2), count, start)
MC8ENCODE(v)                         == toMorton8D8(Coords(8, v))
MC8DECODE(z)                         == fromMorton8D8(z)

MC16GET(sub)                         == get(P1, sub)
MC16MGET(subs)                       == [i \in DOMAIN subs |-> get(P1, subs[i])]
MC16SCORE(sub)                       == Score(16, sub)
MC16ADD(groups)                      == AddPoints(16, groups)
MC16REM(subs)                        == cmdProcessRem(P1, subs)
MC16POINT(v, count, start)           == mortonSearchPoint16D(Coords(16, v), count, start)
MC16RANGENAIVE(v1, v2, count, start) ==
  mortonSearch16D(FALSE, Coords(16, v1), Coords(16, v2), count, start)
MC16RANGE(v1, v2, count, start) ==
  mortonSearch16D(TRUE, Coords(16, v1), Coords(16, v2), count, start)
MC16ENCODE(v)                        == toMorton16D8(Coords(16, v))
MC16DECODE(z)                        == fromMorton16D8(z)

-----------------------------------------------------------------------------
(* Places on a map.                                                          *)

CONSTANTS
  MAX_SIZE, FAN,       \* characters of a full hash, and the parts they cut a cell in
  LatUnit, LonUnit,
  cells                \* GeoSphere::cells: the radius a hash length is good for
ASSUME GeoAssumption ==
  /\ MAX_SIZE \in Nat \ {0} /\ FAN \in Nat \ {0, 1} /\ LatUnit \in Nat \ {0} /\ LonUnit \in Nat \ {0}
  /\ cells \in [1 .. MAX_SIZE -> Nat]

Side(size)     == FAN ^ size                 \* cells beside each other
Span(size)     == FAN ^ (MAX_SIZE - size)    \* points of a cell, each way
cell(x, size)  == x \div Span(size)

part(x, i) == (x \div Span(i)) % FAN

(* GeoHash::encode: for each character, in which part of what is left the    *)
(* point lies, from the west and from the south.                             *)
encodeHash(lat, lon, size) == [i \in 1 .. size |-> FAN * part(lon, i) + part(lat, i)]

Rows(hash)    == MapThenSumSet(LAMBDA i : (hash[i] % FAN) * Span(i), DOMAIN hash)
Columns(hash) == MapThenSumSet(LAMBDA i : (hash[i] \div FAN) * Span(i), DOMAIN hash)

(* GeoHash::decode: the corner of the cell, and twice its centre.            *)
decodeHash(hash)   == <<Rows(hash), Columns(hash)>>
centerTwice(hash)  == [i \in 1 .. 2 |-> 2 * decodeHash(hash)[i] + Span(Len(hash))]

(* adjacent: over the edge of the map the hash goes on at the other side.    *)
Directions == [n |-> <<1, 0>>, s |-> <<-1, 0>>, e |-> <<0, 1>>, w |-> <<0, -1>>]

adjacent(hash, dir) ==
  LET size   == Len(hash)
      at     == decodeHash(hash)
      to(i)  == ((cell(at[i], size) + dir[i]) % Side(size)) * Span(size)
  IN  encodeHash(to(1), to(2), size)

(* distance, squared.  East and west meet.                                   *)
Around(a, b) == LET d == IF a > b THEN a - b ELSE b - a
                IN  Min({d, Side(MAX_SIZE) - d})
distance2(p, q) ==
  ((p[1] - q[1]) * LatUnit) ^ 2 + (Around(p[2], q[2]) * LonUnit) ^ 2

(* selectCellsSize_                                                          *)
selectCellsSize(radius) ==
  Cardinality({i \in 1 .. MAX_SIZE : \A j \in 1 .. i : radius <= cells[j]})

-----------------------------------------------------------------------------
(* nearbyCells: which neighbours of the cell of the point are searched.      *)

Box(h, rows, columns) ==
  LET D == Directions
      step(c, f) == IF f = "" THEN c ELSE adjacent(c, D[f])
  IN  {step(step(h, r), c) : r \in rows, c \in columns}

nearbyCells(lat, lon, radius) ==
  LET size   == selectCellsSize(radius)
      h      == encodeHash(lat, lon, size)
      wide   == Span(size) * LonUnit > 2 * radius
      high   == Span(size) * LatUnit > 2 * radius
      above  == 2 * lat > centerTwice(h)[1]
      below  == 2 * lat < centerTwice(h)[1]
      left   == 2 * lon < centerTwice(h)[2]
      beside == IF left THEN {"", "w"} ELSE {"", "e"}
  IN  IF size = 0 THEN {}
      ELSE IF high /\ wide THEN Box(h, IF below THEN {"", "n"} ELSE {"", "s"}, beside)
      ELSE IF high         THEN Box(h, IF above THEN {"", "n"} ELSE {"", "s"}, {"", "e", "w"})
      ELSE IF wide         THEN Box(h, {"", "n", "s"}, beside)
      ELSE Box(h, {"", "n", "s"}, {"", "e", "w"})

FourCells(lat, lon, radius) ==
  LET size == selectCellsSize(radius)
  IN  size > 0 /\ Span(size) * LonUnit > 2 * radius /\ Span(size) * LatUnit > 2 * radius

-----------------------------------------------------------------------------
(* cmd_geo.h                                                                 *)

formatLine(lat, lon) == <<lat, lon>> \o encodeHash(lat, lon, MAX_SIZE)

extractPoint(line) == <<line[1], line[2]>>

(* groups of a member, its latitude and its longitude.                       *)
GEOADD(groups) ==
  AddAll(P1Geo, [i \in DOMAIN groups |->
    <<groups[i][1], <<encodeHash(groups[i][2], groups[i][3], MAX_SIZE)>>,
      formatLine(groups[i][2], groups[i][3])>>])

GEOREM(subs)  == cmdProcessRem(P1Geo, subs)
GEOGET(sub)   == get(P1Geo, sub)
GEOMGET(subs) == [i \in DOMAIN subs |-> get(P1Geo, subs[i])]

(* For each cell the pairs whose hash starts with it, and of them the places *)
(* nearer than radius.  (The bound on the length of an answer is not met.)   *)
Candidates(lat, lon, radius) ==
  UNION {sharedAccumulatePairs(db, Cardinality(DOMAIN db), StopPrefix(db, hash), hash).page
         : hash \in nearbyCells(lat, lon, radius)}

GEORADIUS(lat, lon, radius) ==
  {k[Len(k)] : k \in {k \in Candidates(lat, lon, radius) :
     distance2(<<lat, lon>>, extractPoint(db[k])) < radius ^ 2}}

GEODIST(sub1, sub2) ==
  LET line1 == get(P1Geo, sub1)
      line2 == get(P1Geo, sub2)
  IN  IF line1 = <<>> \/ line2 = <<>> THEN -1
      ELSE distance2(extractPoint(line1), extractPoint(line2))

GEOENCODE(lat, lon) == formatLine(lat, lon)
GEODECODE(hash)     == centerTwice(hash)
==============================================================================
