------------------------------- MODULE Indexes -------------------------------
(***************************************************************************)
(* Clients use the commands of one kind with one name, the process may end   *)
(* inside a command, and the searches are asked what they find.              *)
(***************************************************************************)
EXTENDS Spatial, Vectors, AutoComplete

CONSTANTS
  Kinds,              \* the kinds of commands that are looked at
  Members,            \* names of members
  IXTuples(_),        \* IX: indexes of a member, by the number of fields
  MCPoints(_), MCBoxes(_),   \* MC: points and rectangles, by dimension
  Places, Radii,      \* GEO: latitude and longitude; radii
  TokenLists, Sorts,  \* IXM: tokens of a member and sort fields
  BandSize,           \* MH
  VectorSet, VDim,    \* V: vectors, and dimensions of the index
  VTypes,             \* ... and element types
  PageSizes

FieldsOf == [IX1 |-> 1, IX2 |-> 2, IX3 |-> 3, IX4 |-> 4, IX5 |-> 5]
IsIX     == kind \in DOMAIN FieldsOf
Fields   == FieldsOf[kind]

DimOf == [MC1 |-> 1, MC2 |-> 2, MC3 |-> 3, MC4 |-> 4, MC8 |-> 8, MC16 |-> 16]

Subs      == {<<m>> : m \in Members} \cup {SetToSortSeq(Members, <)}
Single(V) == {<<<<m, v>>>> : m \in Members, v \in V}
Groups(V) == Single(V) \cup {[i \in 1 .. 2 |-> <<i, v>>] : v \in V}
Valued(groups) == [i \in DOMAIN groups |-> <<groups[i][1], groups[i][2], <<groups[i][1]>>>>]

IX_  == IsIX /\ ( \/ \E g \in Groups(IXTuples(Fields)) : IX_ADD(Fields, g)
                 \/ \E s \in Subs : IX_REM(Fields, s) )
MC1_ == kind = "MC1" /\ ( \/ \E g \in Groups(MCPoints(1)) : MC1ADD(Valued(g))
                                \/ \E s \in Subs : MC1REM(s) )
MC2_ == kind = "MC2" /\ ( \/ \E g \in Groups(MCPoints(2)) : MC2ADD(Valued(g))
                                \/ \E s \in Subs : MC2REM(s) )
MC3_ == kind = "MC3" /\ ( \/ \E g \in Groups(MCPoints(3)) : MC3ADD(Valued(g))
                                \/ \E s \in Subs : MC3REM(s) )
MC4_ == kind = "MC4" /\ ( \/ \E g \in Groups(MCPoints(4)) : MC4ADD(Valued(g))
                                \/ \E s \in Subs : MC4REM(s) )
MC8_ == kind = "MC8" /\ ( \/ \E g \in Groups(MCPoints(8)) : MC8ADD(Valued(g))
                                \/ \E s \in Subs : MC8REM(s) )
MC16_ == kind = "MC16" /\ ( \/ \E g \in Groups(MCPoints(16)) : MC16ADD(Valued(g))
                                  \/ \E s \in Subs : MC16REM(s) )
GEO_ == kind = "GEO" /\ ( \/ \E g \in Groups(Places) :
                               GEOADD([i \in DOMAIN g |-> <<g[i][1], g[i][2][1], g[i][2][2]>>])
                          \/ \E s \in Subs : GEOREM(s) )
IXM_ == kind = "IXM" /\ ( \/ \E m \in Members, sort \in Sorts, ts \in TokenLists : IXMADD(m, sort, ts)
                          \/ \E s \in Subs : IXMREM(s) )
MH_  == kind = "MH" /\ ( \/ \E g \in Groups(TokenLists) : MHADD(BandSize, g)
                         \/ \E s \in Subs : MHREM(BandSize, s) )
V_   == kind = "V" /\ \E q \in VTypes : \/ \E g \in Groups(VectorSet) : VADD(q, VDim, g)
                                        \/ \E s \in Subs : VREM(q, VDim, s)
AC_  == kind = "AC" /\ \E m \in Members : \/ ACADD_UTF8(m) \/ ACADD_BIN(m)
                                          \/ ACREM_UTF8(m) \/ ACREM_BIN(m)

Init == kind \in Kinds /\ IndexInit(Members)
Next ==
  \/ IX_ \/ MC1_ \/ MC2_ \/ MC3_ \/ MC4_ \/ MC8_ \/ MC16_ \/ GEO_
  \/ IXM_ \/ MH_ \/ V_ \/ AC_ \/ Write \/ Crash
Spec == Init /\ [][Next]_vars

-----------------------------------------------------------------------------
(* What the pairs must be.                                                   *)

IsMC   == kind \in DOMAIN DimOf
Live   == {k \in DOMAIN db : isOK(db, k)}
Of(m)  == {k \in Live : Last(k) = m}
Whole(m)    == torn[m] = <<>>                         \* no command with it was cut off
LastDone(m) == Whole(m) \/ (Len(torn[m]) > 1 /\ Last(torn[m]) # Cut)
Present     == {m \in Members : truth[m] # Gone}

Layout == IF IsIX THEN Fields ELSE IF kind = "GEO" THEN P1Geo ELSE P1
IsZSet == IsIX \/ kind = "GEO" \/ IsMC

(* A member's control pair and its index pairs: all of what the last command *)
(* with it wrote, and nothing of an earlier one.                             *)
ZSetWhole(m) ==
  Whole(m) =>
    IF truth[m] = Gone THEN Of(m) = {}
    ELSE /\ Of(m) = Keys(Layout, m, truth[m][1]) \cup Ctrl(m)
         /\ db[makeKeyCtrl(m)] = encode(Layout, truth[m][1], truth[m][2])
         /\ \A k \in Keys(Layout, m, truth[m][1]) : db[k] = truth[m][2]

DecoderOf(m, data) ==
  CASE kind = "IXM" -> validateTokensStored(data)
    [] kind = "MH"  -> MHDecoder(BandSize, m, data)
    [] kind = "V"   -> IF data = <<>> THEN NotDecoded
                       ELSE VDecoder(CHOOSE q \in QTypes : QCode(q) = data[1], VDim, V_BANDS, V_BITS, m, data)

RSetWhole(m) ==
  LET d    == DecoderOf(m, getPairVal(db, makeKeyCtrl(m)))
      told == {t \o <<d.sort, m>> : t \in d.texts}
      keys == Of(m) \ Ctrl(m)
  IN  /\ kind # "V" => keys \subseteq told
      /\ Idle /\ LastDone(m) => told \subseteq keys

ACWhole(m) ==
  LET keys == {acKey(b, m) : b \in UTF8Tokenizer(AC_TEXTS[m]) \cup {<<>>}}
  IN  Idle /\ LastDone(m) =>
        IF truth[m] = Gone THEN \A k \in keys : ~ isOK(db, k)
        ELSE \E n \in 1 .. AC_MAX : \A k \in keys : getPairVal(db, k) = <<n>>

(* For every command that keeps indexes: once the last command with a member *)
(* is done, also after a crash and a repetition, its control pair and its    *)
(* index pairs tell the same.  In a set of shared_rset.h (one band size) no   *)
(* index pair is ever without a control pair that tells of it, whatever was   *)
(* cut off.                                                                  *)
IndexesAgree ==
  \A m \in Members :
    /\ IsZSet /\ Idle => ZSetWhole(m)
    /\ kind \in {"IXM", "MH", "V"} => RSetWhole(m)
    /\ kind = "AC" => ACWhole(m)

-----------------------------------------------------------------------------
(* What the searches must find.                                              *)

(* The pages of a search, each started where the last one ended: what they   *)
(* have found.                                                               *)
MaxPages == 8
follow(query(_), result(_)) ==
  FoldLeft(LAMBDA s, i : IF s.done THEN s
                         ELSE LET r == query(s.start)
                              IN  [start |-> r.tail, got |-> s.got \cup result(r),
                                   done |-> r.tail = NoTail],
           [start |-> NoTail, got |-> {}, done |-> FALSE], [i \in 1 .. MaxPages |-> i])

Found(query(_))   == follow(query, LAMBDA r : {Last(k) : k \in r.page})
AllOf(set)        == [start |-> NoTail, got |-> set, done |-> TRUE]

(* What the commands that read all members one by one must answer.           *)
All    == SetToSortSeq(Members, <)
Values == [i \in DOMAIN All |-> IF All[i] \in Present THEN truth[All[i]][2] ELSE <<>>]

ExistsExact ==
  \A m \in Members : EXISTS(m) = (m \in Present) /\ MEXISTS(All)[m] = EXISTS(m)

IXExact ==
  /\ \A m \in Members :
       IX_GETINDEXES(Fields, m) = IF m \in Present THEN truth[m][1] ELSE <<>>
  /\ \A s \in Texts(Fields), t \in IXTuples(Fields), n \in PageSizes :
       LET given == [i \in DOMAIN s |-> t[s[i]]]
       IN  follow(LAMBDA start : IX_RANGE(Fields, s, given, n, start), LAMBDA r : r.members)
             = AllOf({m \in Present : \A i \in DOMAIN s : truth[m][1][s[i]] = given[i]})

Coordinates(D, m) == fromMorton(D, truth[m][1][1][1])

MC1Exact ==
  /\ \A box \in MCBoxes(1), n \in PageSizes :
       Found(LAMBDA start : MC1RANGE(box[1], box[2], n, start))
         = AllOf({m \in Present : box[1] <= truth[m][1][1][1] /\ truth[m][1][1][1] <= box[2]})
  /\ MC1MGET(All) = Values
  /\ \A m \in Present :
       LET x    == MC1SCORE(m)[1][1]
           same == {o \in Present : truth[o][1] = truth[m][1]}
       IN  /\ <<x>> = truth[m][1][1] /\ MC1GET(m) = truth[m][2]
           /\ x <= MaxX32 => Found(LAMBDA start : MC1POINT(x, Cardinality(Members), start)) = AllOf(same)

MCRange(D, v1, v2, n, start) ==
  CASE D = 2 -> MC2RANGE(v1, v2, n, start) [] D = 3 -> MC3RANGE(v1, v2, n, start)
    [] D = 4 -> MC4RANGE(v1, v2, n, start) [] D = 8 -> MC8RANGE(v1, v2, n, start)
    [] D = 16 -> MC16RANGE(v1, v2, n, start)
MCRangeNaive(D, v1, v2, n, start) ==
  CASE D = 2 -> MC2RANGENAIVE(v1, v2, n, start) [] D = 3 -> MC3RANGENAIVE(v1, v2, n, start)
    [] D = 4 -> MC4RANGENAIVE(v1, v2, n, start) [] D = 8 -> MC8RANGENAIVE(v1, v2, n, start)
    [] D = 16 -> MC16RANGENAIVE(v1, v2, n, start)
MCScore(D, m) ==
  CASE D = 2 -> MC2SCORE(m) [] D = 3 -> MC3SCORE(m) [] D = 4 -> MC4SCORE(m)
    [] D = 8 -> MC8SCORE(m) [] D = 16 -> MC16SCORE(m)
MCGet(D, m) ==
  CASE D = 2 -> MC2GET(m) [] D = 3 -> MC3GET(m) [] D = 4 -> MC4GET(m)
    [] D = 8 -> MC8GET(m) [] D = 16 -> MC16GET(m)
MCMGet(D, subs) ==
  CASE D = 2 -> MC2MGET(subs) [] D = 3 -> MC3MGET(subs) [] D = 4 -> MC4MGET(subs)
    [] D = 8 -> MC8MGET(subs) [] D = 16 -> MC16MGET(subs)
MCPoint(D, v) ==
  CASE D = 2 -> MC2POINT(v, Cardinality(Members), NoTail) [] D = 3 -> MC3POINT(v, Cardinality(Members), NoTail)
    [] D = 4 -> MC4POINT(v, Cardinality(Members), NoTail) [] D = 8 -> MC8POINT(v, Cardinality(Members), NoTail)
    [] D = 16 -> MC16POINT(v, Cardinality(Members), NoTail)
MCEncode(D, v) ==
  CASE D = 2 -> MC2ENCODE(v) [] D = 3 -> MC3ENCODE(v) [] D = 4 -> MC4ENCODE(v)
    [] D = 8 -> MC8ENCODE(v) [] D = 16 -> MC16ENCODE(v)
MCDecode(D, z) ==
  CASE D = 2 -> MC2DECODE(z) [] D = 3 -> MC3DECODE(z) [] D = 4 -> MC4DECODE(z)
    [] D = 8 -> MC8DECODE(z) [] D = 16 -> MC16DECODE(z)

(* The rectangle starts below the middle of a dimension, not at its edge, and  *)
(* ends above it; and its coordinates are as wide as the unsigned that is      *)
(* shifted to mask them.                                                       *)
ShiftsOut(D, box) ==
  LET half == 2 ^ (Bits(D) - 1)
  IN  Bits(D) = UnsignedBits(D)
        /\ \E d \in 1 .. D : 0 < box[1][d] /\ box[1][d] < half /\ half <= box[2][d]

MCExact(D) ==
  /\ \A box \in MCBoxes(D), n \in PageSizes :
       LET wanted == AllOf({m \in Present : inside(D, Coordinates(D, m), box[1], box[2])})
       IN  /\ ShiftsOut(D, box) \/ Found(LAMBDA start : MCRange(D, box[1], box[2], n, start)) = wanted
           /\ Found(LAMBDA start : MCRangeNaive(D, box[1], box[2], n, start)) = wanted
  /\ \A v \in MCPoints(D) :
       /\ MCDecode(D, MCEncode(D, v)) = v
       /\ {Last(k) : k \in MCPoint(D, v).page} = {m \in Present : Coordinates(D, m) = v}
  /\ \A m \in Present : MCScore(D, m) = Coordinates(D, m) /\ MCGet(D, m) = truth[m][2]
  /\ MCMGet(D, All) = Values

(* MC2RANGE and its like get "all subkeys stored in 'rectangle'", which are     *)
(* those that MC2RANGENAIVE finds on its walk without jumps.                    *)
JumpsExact ==
  IsMC /\ kind # "MC1" /\ Idle /\ (\A m \in Members : Whole(m)) =>
    \A box \in MCBoxes(DimOf[kind]), n \in PageSizes :
      Found(LAMBDA start : MCRange(DimOf[kind], box[1], box[2], n, start))
        = Found(LAMBDA start : MCRangeNaive(DimOf[kind], box[1], box[2], n, start))

(* computeBigMin against its meaning, for the points outside a rectangle.    *)
BigMinExact(D) ==
  D * Bits(D) <= 8 => \A box \in {b \in MCBoxes(D) : ~ ShiftsOut(D, b)} :
    LET lo     == toMorton(D, box[1])
        hi     == toMorton(D, box[2])
        in(z)  == inside(D, fromMorton(D, z), box[1], box[2])
        ins    == {z \in lo .. hi : in(z)}
    IN  \A z \in (lo .. hi) \ ins : computeBigMin(D, z, lo, hi) = Min({y \in ins : y > z})

GEOExact ==
  \A at \in Places, radius \in Radii :
    LET near == {m \in Present : distance2(at, extractPoint(truth[m][2])) < radius ^ 2}
        got  == GEORADIUS(at[1], at[2], radius)
    IN  /\ got \subseteq near
        /\ ~ FourCells(at[1], at[2], radius) /\ selectCellsSize(radius) > 0 => got = near
        /\ \A m \in Present : GEOGET(m) = truth[m][2]
        /\ GEOMGET(All) = Values
        /\ \A m, o \in Members :
             GEODIST(m, o) = IF {m, o} \subseteq Present
                             THEN distance2(extractPoint(truth[m][2]), extractPoint(truth[o][2]))
                             ELSE -1
        /\ LET hash == extractNth(2, GEOENCODE(at[1], at[2]))
               away(size, i) == Size(GEODECODE(SubSeq(hash, 1, size))[i] - 2 * at[i])
           IN  \A size \in 0 .. MAX_SIZE, i \in 1 .. 2 : away(size, i) <= Span(size)

(* Reads of and searches over members and points (GET, MGET, EXISTS, MEXISTS,*)
(* GETINDEXES, SCORE, GEODIST, GEODECODE; IX<n>RANGE, MC<D>RANGE, RANGENAIVE *)
(* and POINT, GEORADIUS): a read tells what the last command with the member *)
(* wrote; the pages of a search, each started at the tail of the one before, *)
(* together hold exactly the members that the clients have put inside, none  *)
(* twice and none forgotten; the search that jumps by bigmin finds what the  *)
(* one that walks finds.  (Commands cut off: see IndexesAgree.  A radius     *)
(* that takes four cells: see RadiusComplete.)                               *)
QueriesExact ==
  Idle /\ (\A m \in Members : Whole(m)) =>
    /\ IsIX \/ IsMC => ExistsExact
    /\ IsIX => IXExact
    /\ kind = "MC1" => MC1Exact
    /\ IsMC /\ kind # "MC1" =>
         MCExact(DimOf[kind]) /\ (commands = 0 => BigMinExact(DimOf[kind]))
    /\ kind = "GEO" => GEOExact

(* GEORADIUS finds every place within the radius, as commands_geo.php says.  *)
RadiusComplete ==
  kind = "GEO" /\ Idle /\ (\A m \in Members : Whole(m)) =>
    \A at \in Places, radius \in Radii :
      selectCellsSize(radius) > 0 =>
        {m \in Present : distance2(at, extractPoint(truth[m][2])) < radius ^ 2}
          \subseteq GEORADIUS(at[1], at[2], radius)

-----------------------------------------------------------------------------
AllTokens == (UNION {Range(ts) : ts \in TokenLists}) \ {Empty}

IXMExact ==
  /\ \A m \in Members :
       LET d == IXMGETINDEXES(m)
       IN  /\ d.ok = (m \in Present)
           /\ d.ok => <<{t[1] : t \in d.texts}, d.sort>> = truth[m]
  /\ \A t \in AllTokens, n \in PageSizes :
       follow(LAMBDA start : IXMSIM1(t, n, start), LAMBDA r : r.members).got
         = {m \in Present : t \in truth[m][1]}
  /\ \A ts \in SUBSET AllTokens, n \in PageSizes :
       Cardinality(ts) = 2 =>
         LET page1 == IXMSIM(SetToSortSeq(ts, <), n, NoTail)
             f     == follow(LAMBDA start : IXMSIM(SetToSortSeq(ts, <), n, start), LAMBDA r : r.members)
             all   == {m \in Present : ts \subseteq truth[m][1]}
         IN  /\ f.got \subseteq all
             /\ page1.iterations < ITERATIONS_LOOPS_MAX /\ n >= Cardinality(Members) => f = AllOf(all)

(* Two tables: what they share is at most what either has, and the quotients *)
(* do not depend on their order.                                             *)
MHLikeness ==
  \A m, o \in Members :
    LET both == {m, o} \subseteq Present
        j    == MHJACCARD(m, o)
        v    == MHOVERLAP(m, o)
    IN  /\ j = MHJACCARD(o, m) /\ v = MHOVERLAP(o, m)
        /\ j = MHMJACCARD(m, All)[o] /\ v = MHMOVERLAP(m, All)[o]
        /\ ~ both => j = Zero /\ v = Zero
        /\ j[1] = v[1] /\ v[1] <= v[2] /\ v[2] <= j[2] /\ j[2] <= MHBITS
        /\ both /\ truth[m] = truth[o] => j[1] = j[2] /\ j[1] > 0

MHExact ==
  /\ MHLikeness
  /\ \A m \in Members :
       MHGETINDEXES(BandSize, m).texts = IF m \in Present THEN mh_bands(truth[m][1], BandSize) ELSE {}
  /\ \A m \in Present :
    LET score(o)  == mh_jaccard(truth[m][1], truth[o][1])
        bands(o)  == mh_bands(truth[o][1], BandSize)
        crowded   == \E b \in bands(m) : Cardinality({o \in Present : b \in bands(o)}) > MH_COUNT
        near      == {o \in Present \ {m} : /\ bands(o) \cap bands(m) # {}
                                           /\ score(o)[1] * MH_SCORE >= score(o)[2]}
        got       == MHSIM(BandSize, m)
    IN  /\ got \subseteq near
        /\ crowded \/ Cardinality(got) = Min({MH_RESULTS, Cardinality(near)})
        /\ crowded \/ \A o \in near \ got, p \in got :
             score(o)[1] * score(p)[2] <= score(p)[1] * score(o)[2]

Stored(q)     == {m \in Present : truth[m][1][1] = QCode(q)}
Dist(q, t, m, o) ==
  IF q = "b" THEN NearBit(VDim, t, truth[m][1], truth[o][1])
  ELSE Near(q, VDim, t, truth[m][1], truth[o][1])
LE(x, y)      == x[1] * y[2] <= y[1] * x[2]

(* What VGETINDEXES, VGET, VGETNORMALIZED and VGETRAW answer for a member.    *)
VReadsExact(q, m) ==
  LET s == toStoredVector(q, VDim, truth[m][1])
      n == VGETNORMALIZED(q, VDim, m)
  IN  /\ VGETINDEXES(q, VDim, m).texts = {bandText(q, s.vdata, b, V_BITS) : b \in 1 .. V_BANDS}
      /\ VGETRAW(q, VDim, m) = VGET(q, VDim, m)
      /\ Len(n) = VDim + 1
      /\ q # "b" => VGET(q, VDim, m) = [i \in 1 .. VDim |-> n[1] * n[i + 1]]
      /\ q = "b" => VGET(q, VDim, m) = Tail(n) /\ bitVectorQuantize(Tail(n)) = s.vdata

VExact ==
  /\ \A q \in VTypes : \A m \in Stored(q) : VReadsExact(q, m)
  /\ \A q \in VTypes : \A dtype \in {dtype \in DTypes \cup BitDTypes : checkDType(dtype, q)}, m \in Stored(q) :
    LET others  == Stored(q) \ {m}
        band(o) == {bandText(q, toStoredVector(q, VDim, truth[o][1]).vdata, b, fixBits(1)) : b \in 1 .. V_BANDS}
        near    == {o \in others : band(o) \cap band(m) # {}}
        flat    == follow(LAMBDA start : VSIMFLAT(q, VDim, dtype, m, start), LAMBDA r : r.found)
        best(got, from) ==
          /\ \A x \in got : x[2] \in from /\ x[1] = Dist(q, dtype, m, x[2])
          /\ Cardinality(got) = Min({V_RESULTS, Cardinality(from)})
          /\ \A o \in from, x \in got : o \notin {y[2] : y \in got} => LE(x[1], Dist(q, dtype, m, o))
    IN  /\ best(VSIM(q, VDim, dtype, m, 0, 1), near)
        /\ \A o \in others : \E x \in flat.got : LE(x[1], Dist(q, dtype, m, o))
        /\ q # "b" => \A o \in Members :
             VMDISTANCE(q, VDim, dtype, m, <<o, o, o>>)[1] = VMDISTANCE(q, VDim, dtype, m, <<o>>)[1]

ACExact ==
  \A m \in Members, n \in PageSizes : \A b \in UTF8Tokenizer(AC_TEXTS[m]) \cup {<<>>} :
    LET r     == IF b = <<>> THEN ACRANGEALL(n, NoTail) ELSE ACRANGE(b, n, NoTail)
        all   == {o \in Present : IsPrefix(b, AC_TEXTS[o])}
        num(o) == db[acKey(<<>>, o)][1]
    IN  r.tail = NoTail =>
          /\ DOMAIN r.found \subseteq all
          /\ Cardinality(DOMAIN r.found) = Min({n, Cardinality(all)})
          /\ \A o \in DOMAIN r.found : r.found[o] = num(o) /\ \A p \in all \ DOMAIN r.found : num(p) <= num(o)

(* Reads and searches by tokens, likeness, distance and beginnings (IXMSIM,  *)
(* MHSIM, MHJACCARD, MHOVERLAP, VGET, VSIM, VSIMFLAT, VMDISTANCE, ACRANGE):  *)
(* what is read or found is the last form of a member, it has all that was   *)
(* asked for, and nothing better was left out: the leapfrog over several     *)
(* indexes is the intersection unless it was stopped for its iterations, the *)
(* heaps keep the best, and a distance from a prepared vector is the         *)
(* distance.                                                                 *)
SearchesExact ==
  Idle /\ (\A m \in Members : LastDone(m)) =>
    /\ kind \in {"IXM", "MH", "V"} => ExistsExact
    /\ kind = "IXM" => IXMExact
    /\ kind = "MH" => MHExact
    /\ kind = "V" => VExact
    /\ kind = "AC" => ACExact

(* What any index is asked for, by order, place, token, likeness or          *)
(* beginning, it finds.                                                      *)
FindsExact == QueriesExact /\ SearchesExact

-----------------------------------------------------------------------------
(* Two or three members, points at the corners and in the middle.            *)
MCKinds     == {"IX1", "IX2", "IX3", "IX4", "GEO", "IXM", "MH", "V", "AC"} \cup DOMAIN DimOf
MCMax(k)    == IF k = "IX4" THEN 1
               ELSE IF k \in {"IX1", "IX3", "MC4", "MC8", "MC16", "V"} THEN 2 ELSE 3
MCCrashes(k) == IF k \in {"IX3", "IX4"} THEN 0 ELSE 1   \* too many pairs to cut between
MCHash(m)   == 10 - m
MCBits(D)   == IF D <= 3 THEN 2 ELSE 1
MCUnsigned(D) == IF D <= 4 THEN MCBits(D) ELSE MCBits(D) + 1   \* 8D8 and 16D8 have bytes
MCTuples(n) == {[i \in 1 .. n + 1 |-> IF i <= n THEN <<i>> ELSE <<Empty>>],
                [i \in 1 .. n + 1 |-> IF i <= n THEN <<1>> ELSE <<3>>]}
Vec(D, a, b, c) == [d \in 1 .. D |-> IF d = 1 THEN a ELSE IF d = 2 THEN b ELSE c]
Top(D)      == 2 ^ MCBits(D) - 1
MCPointsOf(D) == IF D = 1 THEN {0, 2, 9}
                 ELSE IF Top(D) = 1 THEN {Vec(D, 0, 1, 0), Vec(D, 1, 1, 0), Vec(D, 1, 0, 1)}
                 ELSE {Vec(D, 2, 0, 0), Vec(D, 1, 2, 0), Vec(D, 1, 1, 0)}
MCBoxesOf(D)  == IF D = 1 THEN {<<0, 1>>, <<1, 3>>, <<2, 2>>}
                 ELSE {<<Vec(D, 0, 0, 0), Vec(D, Top(D), Top(D), Top(D))>>,
                       <<Vec(D, 1, 0, 0), Vec(D, 1, Top(D), Top(D))>>,
                       <<Vec(D, 0, 1, 0), Vec(D, 1, Top(D), Top(D))>>,
                       <<Vec(D, 0, Top(D) \div 2 + 1, 0), Vec(D, Top(D), Top(D), Top(D))>>,
                       <<Vec(D, 1, 1, 0), Vec(D, 1, 1, 0)>>}
MCPlaces    == {<<8, 8>>, <<7, 8>>, <<8, 7>>}
MCCells     == <<8, 1>>
MCTokens    == {<<1, 2>>, <<2, 3, Empty, 2>>, <<1, 2, 3>>}
MCmhHash(t) == <<IF t = 3 THEN 3 ELSE t, t>>
MCVectors   == {<<2, 4>>, <<-1, 3>>, <<3, 3>>}
MCPlanes    == <<<<<<1, 1>>, <<1, -1>>>>, <<<<-1, 1>>, <<1, 1>>>>>>
MCRandom    == <<<<1, 1>>, <<1, -1>>>>
MCGrain     == [f |-> 1, i |-> 2]
MCACTexts   == <<<<1>>, <<1, 5, 6>>, <<1, 5, 7>>>>
==============================================================================
