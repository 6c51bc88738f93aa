-------------------------------- MODULE RSets --------------------------------
(***************************************************************************)
(* Members with many index texts: shared_rset.h, the search for members that *)
(* have several of them, shared_rset_fts.h, and the commands cmd_mindex2.h   *)
(* and cmd_mh.h.                                                             *)
(*                                                                         *)
(* A member has a control pair "name~~member" from which a decoder makes its *)
(* texts, and for each text, a sequence of tokens, a pair                    *)
(* "name~text~sort~member".                                                  *)
(***************************************************************************)
EXTENDS ZSets

(* shared::rset::makeKeyData for each text                                   *)
rsetKeys(texts, sort, sub) == {t \o <<sort, sub>> : t \in texts}

(* What a decoder makes of a control pair.                                   *)
NotDecoded           == [ok |-> FALSE, texts |-> {}, sort |-> Empty]
Decoded(texts, sort) == [ok |-> TRUE, texts |-> texts, sort |-> sort]

(* impl_::mut::mutate_                                                       *)
mutate(inserting, keys, value) == IF inserting THEN insert(keys, value) ELSE erase(keys)

(* impl_::removeKeys and impl_::insertKeys                                   *)
removeKeys(texts, sort, sub) == mutate(FALSE, rsetKeys(texts, sort, sub), <<>>)
insertKeys(texts, sort, sub) == mutate(TRUE, rsetKeys(texts, sort, sub), <<sub>>)

(* `old' is what the decoder makes of the control pair.  With `auto' the     *)
(* sort field is kept there, and names the index pairs to remove.            *)
rset_add(auto, old, sub, keySort, val, texts) ==
  (IF old.ok THEN <<removeKeys(old.texts, IF auto THEN old.sort ELSE keySort, sub)>> ELSE <<>>)
    \o <<insert(Ctrl(sub), val), insertKeys(texts, keySort, sub)>>

rset_rem(auto, old, sub, keySort) ==
  IF ~ old.ok THEN <<>>
  ELSE <<removeKeys(old.texts, IF auto THEN old.sort ELSE keySort, sub), erase(Ctrl(sub))>>

(* What a decoder is given.                                                  *)
rset_getIndexes(d, sub) == getPairVal(d, makeKeyCtrl(sub))

rset_getData(sub) == getPairVal(db, makeKeyCtrl(sub))

-----------------------------------------------------------------------------
(* FTSIntersector: one cursor for each text, the keys it has before it, and  *)
(* one count of iterations for all of them.  A cursor without keys is at its *)
(* end, or was stopped.                                                      *)

(* What a cursor compares: sort field and member.                            *)
At(rest) == extractNth(1, least(rest))

(* TombstoneIteratorPair::skipInvalidPairs_                                  *)
RECURSIVE skipInvalidPairs(_, _, _)
skipInvalidPairs(prefix, rest, iterations) ==
  IF rest = {} THEN [rest |-> {}, iterations |-> iterations]
  ELSE LET k == least(rest)
       IN  IF ~ IsPrefix(prefix, k) THEN [rest |-> {}, iterations |-> iterations]
           ELSE IF iterations + 1 >= ITERATIONS_LOOPS_MAX
             THEN [rest |-> {}, iterations |-> iterations + 1]
           ELSE IF isOK(db, k) THEN [rest |-> rest, iterations |-> iterations + 1]
           ELSE skipInvalidPairs(prefix, rest \ {k}, iterations + 1)

(* TombstoneIteratorPair::operator++                                         *)
advance(prefix, c) == skipInvalidPairs(prefix, c.rest \ {least(c.rest)}, c.iterations)

(* TombstoneIteratorPair::seek                                               *)
RECURSIVE seek(_, _, _)
seek(prefix, c, target) ==
  IF c.rest = {} \/ ~ Less(At(c.rest), target) THEN c
  ELSE seek(prefix, advance(prefix, c), target)

(* f: the texts, a cursor for each, the iterations.                          *)
Cursor(f, i)        == [rest |-> f.rests[i], iterations |-> f.iterations]
WithCursor(f, i, c) == [f EXCEPT !.rests[i] = c.rest, !.iterations = c.iterations]

push(f, txt, from) ==
  LET c == skipInvalidPairs(<<txt>>, find(db, from), f.iterations)
  IN  [texts |-> Append(f.texts, txt), rests |-> Append(f.rests, c.rest),
       iterations |-> c.iterations]

(* FTSIntersector::operator(): cursor i is the next to seek `max`.           *)
RECURSIVE meet(_, _, _)
meet(f, i, max) ==
  IF i > Len(f.rests) THEN [f |-> f, found |-> max]
  ELSE LET c == seek(<<f.texts[i]>>, Cursor(f, i), max)
           g == WithCursor(f, i, c)
       IN  IF c.rest = {} THEN [f |-> g, found |-> NoTail]
           ELSE IF At(c.rest) # max THEN meet(g, 1, At(c.rest))
           ELSE meet(g, i + 1, max)

stepAll(f) ==
  LET stepped == FoldLeft(LAMBDA g, i : WithCursor(g, i, advance(<<g.texts[i]>>, Cursor(g, i))),
                          f, [i \in DOMAIN f.rests |-> i])
  IN  [stepped EXCEPT !.iterations = @ + Len(f.rests)]

intersect(f) ==
  IF f.rests[1] = {} THEN [f |-> f, found |-> NoTail]
  ELSE LET m == meet(f, 1, At(f.rests[1]))
       IN  IF m.found = NoTail THEN m ELSE [m EXCEPT !.f = stepAll(m.f)]

-----------------------------------------------------------------------------
(* cmd_mindex2.h: the texts are tokens that the client gives.                *)

(* validateTokensUser: the tokens that can be part of a key, each once.      *)
validateTokensUser(given) == {t \in Range(given) : t # Empty}

(* validateTokensStored__withKeySort                                         *)
validateTokensStored(val) ==
  IF Len(val) >= 2 /\ valid(val) /\ IsSorted(Front(val), <=)
  THEN Decoded({<<t>> : t \in Range(Front(val))}, Last(val)) ELSE NotDecoded

(* IXMADDFactory: the tokens in order, and the sort field.                   *)
tokensValue(texts, keySort) == SetToSortSeq(texts, <) \o <<keySort>>

(* The key of the next page is what follows the text.                        *)
range1(txt, count, start) ==
  LET r == sharedAccumulatePairs(db, count, StopPrefix(db, <<txt>>), <<txt>> \o start)
  IN  [members |-> {extractNth(2, k)[1] : k \in r.page},
       tail    |-> IF r.tail = NoTail THEN NoTail ELSE extractNth(1, r.tail)]

RECURSIVE collect(_, _, _)
collect(f, members, count) ==
  LET m == intersect(f)
  IN  IF m.found = NoTail THEN [members |-> members, tail |-> NoTail, iterations |-> m.f.iterations]
      ELSE IF Cardinality(members) >= count
        THEN [members |-> members, tail |-> m.found, iterations |-> m.f.iterations]
      ELSE collect(m.f, members \cup {m.found[2]}, count)

rangeM(texts, count, start) ==
  LET f == FoldLeft(LAMBDA g, t : push(g, t, <<t>> \o start),
                    [texts |-> <<>>, rests |-> <<>>, iterations |-> 0], SetToSortSeq(texts, <))
  IN  IF Cardinality(texts) = 1 THEN range1(CHOOSE t \in texts : TRUE, count, start)
      ELSE IF \E i \in DOMAIN f.rests : f.rests[i] = {}
        THEN [members |-> {}, tail |-> NoTail, iterations |-> f.iterations]
      ELSE collect(f, {}, count)

IXMADD(sub, rawSort, given) ==
  LET texts   == validateTokensUser(given)
      keySort == makeHashKeySort(sub, <<rawSort>>)[1]
      val     == tokensValue(texts, keySort)
  IN  /\ texts # {}
      /\ Command(rset_add(TRUE, validateTokensStored(rset_getIndexes(db, sub)), sub, keySort, val,
                          validateTokensStored(val).texts),
                 [m \in {sub} |-> <<texts, keySort>>])

IXMREM(subs) ==
  Command(Writes(LAMBDA d, sub : rset_rem(TRUE, validateTokensStored(rset_getIndexes(d, sub)), sub, Empty), subs),
          [m \in Range(subs) |-> Gone])

IXMGETINDEXES(sub) == validateTokensStored(rset_getIndexes(db, sub))

IXMSIM1(txt, count, start) == range1(txt, count, start)
IXMSIM(given, count, start) == rangeM(validateTokensUser(given), count, start)

-----------------------------------------------------------------------------
(* cmd_mh.h and minhash_raw.h: the control pair is a table of registers, the *)
(* texts are hashes of its bands.                                            *)

CONSTANTS
  MH_SIZE,          \* registers of a table
  mhHash(_),        \* the register of a token, and its value there
  MH_COUNT,         \* pairs that MHSIM takes of each band (count__)
  MH_RESULTS,       \* results of MHSIM (results__)
  MH_SCORE          \* minScore__ is 1 / MH_SCORE
ASSUME MHAssumption == MH_SIZE \in Nat \ {0}

mh_clear == [i \in 1 .. MH_SIZE |-> 0]

mh_add(table, tok) ==
  LET h == mhHash(tok)
  IN  IF table[h[1]] >= h[2] THEN table ELSE [table EXCEPT ![h[1]] = h[2]]

mh_bandCount(bandSize) == MH_SIZE \div bandSize
mh_band(table, bandSize, i) == SubSeq(table, (i - 1) * bandSize + 1, i * bandSize)

(* A band and its number as one token; no two bands get the same hash.       *)
bandToken(band, i) == <<10 * FoldLeft(LAMBDA t, r : 10 * t + r, 1, band) + i>>

(* MinHash::bands and bandsHexToContainer: a band of zeros has no text.      *)
mh_bands(table, bandSize) ==
  {bandToken(mh_band(table, bandSize, i), i) : i \in
     {i \in 1 .. mh_bandCount(bandSize) : \E r \in Range(mh_band(table, bandSize, i)) : r # 0}}

MHDecoder(bandSize, sub, data) ==
  IF Len(data) # MH_SIZE THEN NotDecoded ELSE Decoded(mh_bands(data, bandSize), hashKeySort(sub))

insertTokens(given) == FoldLeft(mh_add, mh_clear, SelectSeq(given, LAMBDA t : t # Empty))

(* The registers that two tables have in use, and those that are equal.      *)
Used(a)         == {i \in DOMAIN a : a[i] # 0}
matches(a, b)   == Cardinality({i \in Used(a) \cup Used(b) : a[i] = b[i]})

(* MinHash::jaccard and overlap, as numerator and denominator.               *)
mh_jaccard(a, b) == <<matches(a, b), Cardinality(Used(a) \cup Used(b))>>
mh_overlap(a, b) == <<matches(a, b), Min({Cardinality(Used(a)), Cardinality(Used(b))})>>

Zero == <<0, 0>>

(* load_ptr                                                                  *)
mhLoad(sub) ==
  LET data == rset_getData(sub) IN IF Len(data) = MH_SIZE THEN data ELSE <<>>

MHADD(bandSize, groups) ==
  /\ MH_SIZE % bandSize = 0
  /\ Command(Writes(LAMBDA d, g :
                      LET val == insertTokens(g[2])
                      IN  rset_add(FALSE, MHDecoder(bandSize, g[1], rset_getIndexes(d, g[1])), g[1],
                                   hashKeySort(g[1]), val, MHDecoder(bandSize, g[1], val).texts),
                    groups),
             [m \in {groups[i][1] : i \in DOMAIN groups} |->
                LET i == Max({i \in DOMAIN groups : groups[i][1] = m})
                IN  <<insertTokens(groups[i][2]), bandSize>>])

MHREM(bandSize, subs) ==
  /\ MH_SIZE % bandSize = 0
  /\ Command(Writes(LAMBDA d, sub : rset_rem(FALSE, MHDecoder(bandSize, sub, rset_getIndexes(d, sub)),
                                             sub, hashKeySort(sub)), subs),
             [m \in Range(subs) |-> Gone])

MHGETINDEXES(bandSize, sub) == MHDecoder(bandSize, sub, rset_getIndexes(db, sub))

(* MHSIM::scanIndex__                                                        *)
scanIndex(txt) ==
  {extractNth(2, k)[1] :
     k \in sharedAccumulatePairs(db, MH_COUNT, StopPrefix(db, txt), txt).page}

(* The order of heap nodes: score, then member.                              *)
Above(mhA, m, n) ==
  LET a == mh_jaccard(mhA, mhLoad(m))
      b == mh_jaccard(mhA, mhLoad(n))
  IN  \/ a[1] * b[2] > b[1] * a[2]
      \/ a[1] * b[2] = b[1] * a[2] /\ m > n

(* TopKLargest::push                                                         *)
heapPush(mhA, heap, m) ==
  IF Cardinality(heap) < MH_RESULTS THEN heap \cup {m}
  ELSE LET front == CHOOSE n \in heap : \A o \in heap \ {n} : Above(mhA, o, n)
       IN  IF Above(mhA, m, front) THEN (heap \ {front}) \cup {m} ELSE heap

(* For a member (`self`), or for a table of tokens that no member has.       *)
Similar(bandSize, mhA, self) ==
  LET texts   == MHDecoder(bandSize, self, mhA).texts
      found   == (UNION {scanIndex(t) : t \in texts}) \ {self}
      near(m) == LET j == mh_jaccard(mhA, mhLoad(m)) IN j[1] * MH_SCORE >= j[2]
      kept    == {m \in found : mhLoad(m) # <<>> /\ near(m)}
  IN  FoldLeft(LAMBDA heap, m : heapPush(mhA, heap, m), {}, SetToSortSeq(kept, <))

MHSIM(bandSize, sub) ==
  IF mhLoad(sub) = <<>> THEN {} ELSE Similar(bandSize, mhLoad(sub), sub)

MHSIMTokens(bandSize, given) ==
  IF insertTokens(given) = mh_clear THEN {} ELSE Similar(bandSize, insertTokens(given), Empty)

MHJACCARD(subA, subB) ==
  IF mhLoad(subA) = <<>> \/ mhLoad(subB) = <<>> THEN Zero
  ELSE mh_jaccard(mhLoad(subA), mhLoad(subB))

MHMJACCARD(subA, subs) == [i \in DOMAIN subs |-> MHJACCARD(subA, subs[i])]

MHOVERLAP(subA, subB) ==
  IF mhLoad(subA) = <<>> \/ mhLoad(subB) = <<>> THEN Zero
  ELSE mh_overlap(mhLoad(subA), mhLoad(subB))

MHMOVERLAP(subA, subs) == [i \in DOMAIN subs |-> MHOVERLAP(subA, subs[i])]

MHBITS == MH_SIZE
==============================================================================
