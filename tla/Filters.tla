------------------------------ MODULE Filters ------------------------------
(***************************************************************************)
(* Filters and frequency sketches: cmd_bf.h, cmd_cbf.h, cmd_cms.h, cmd_cf.h  *)
(* and cuckoofilter.h.  An item is a number; murmur_hash64a is any function. *)
(***************************************************************************)
EXTENDS ValueStore, Bitwise, FiniteSetsExt

CONSTANTS
  Items,                       \* items that clients add
  ItemLists,                   \* lists of items in one command
  BFShapes,                    \* <<bits, hashes>> that clients send
  BIT_MIN, BIT_MAX, HASH_MAX,  \* limits of cmd_bf.h
  ByteBits,                    \* bits in a byte
  CBFShapes, CMSShapes,        \* <<width, depth>> that clients send
  CellBits,                    \* bits of a counter
  Incs,                        \* increments that clients send
  MAX_SIZE,                    \* PairConf::MAX_VAL_SIZE, in cells
  CFSizes,                     \* widths of a cuckoo filter that clients send
  FPBits, Slots, MaxKicks,     \* bits of a fingerprint, cuckoofilter.h:51, 66
  murmur_hash64a(_, _),        \* hash of an item with a seed
  hashFP(_), mixer(_)          \* hash of a fingerprint, murmur_hash_mixer64_nz

clamp(n, lo, hi) == IF n < lo THEN lo ELSE IF n > hi THEN hi ELSE n
Seeds(n) == [i \in 1 .. n |-> i - 1]
IsPow2(n) == \E i \in 0 .. 8 : n = 2 ^ i

-----------------------------------------------------------------------------
(* Bloom filter.                                                             *)

max_bits(s) == clamp(s[1], BIT_MIN, BIT_MAX)
max_hash(s) == clamp(s[2], 1, HASH_MAX)

(* BitOps::size, in bits: the value has whole bytes.                         *)
BitsSize(n) == ((n \div ByteBits) + 1) * ByteBits

BFSize(s) == BitsSize(max_bits(s) - 1)

Bits(s, x) == {murmur_hash64a(x, i) % max_bits(s) : i \in 0 .. max_hash(s) - 1}

bf_add(s, data, x) ==
  [i \in DOMAIN data |-> IF i - 1 \in Bits(s, x) THEN 1 ELSE data[i]]

(* The possible answers: bits past the end of a shorter value are anything.  *)
bf_exists(s, data, x) ==
  LET in == {n \in Bits(s, x) : n < Len(data)}
  IN  IF \E n \in in : data[n + 1] = 0 THEN {FALSE}
      ELSE IF in = Bits(s, x) THEN {TRUE} ELSE BOOLEAN

Mark(t, s, xs) == [k \in DOMAIN t |-> IF k[1] = s /\ k[2] \in Range(xs) THEN 1 ELSE t[k]]

BFADD(s, xs) ==
  LET n == BFSize(s)
      add(data, x) == bf_add(s, data, x)
  IN  /\ insertHintVFactory(FoldLeft(add, copyPair(n, 0), xs))
      /\ truth' = Mark(TruthOf(n), s, xs)
      /\ answer' = None
      /\ UNCHANGED <<log, clipped>>

BFRESERVE(s) == Reserve(BFSize(s), 0)

(* The size of the value is not compared with the size asked for.            *)
BFEXISTS(s, x) == IF val = <<>> THEN {FALSE} ELSE bf_exists(s, val, x)

BFMEXISTS(s, xs) == [i \in DOMAIN xs |-> BFEXISTS(s, xs[i])]

-----------------------------------------------------------------------------
(* Counting bloom filter (one row) and count-min sketch (a row for each      *)
(* hash).                                                                    *)

CellMax == 2 ^ CellBits - 1

(* shared_incr.h and checkoverflow.h: the increment loses its high bits, the *)
(* sum stays in the range of the cell.                                       *)
incr(sign, a, n) ==
  LET x == n % (CellMax + 1)
  IN  IF sign THEN (IF a > CellMax - x THEN CellMax ELSE a + x)
              ELSE (IF a < x THEN 0 ELSE a - x)

(* struct CBF has one row, struct CMS is a Matrix with a row for each hash.  *)
CBFCell(s, x, i) == (murmur_hash64a(x, i) % s[1]) + 1
CMSCell(s, x, i) == (murmur_hash64a(x, i) % s[1]) + i * s[1] + 1

(* One of the filters: its cells, its size.                                  *)
Cell(s, x, i) == IF kind = "CBF" THEN CBFCell(s, x, i) ELSE CMSCell(s, x, i)
Size(s)       == IF kind = "CBF" THEN s[1] ELSE s[1] * s[2]

(* CBF::add, CMS::add                                                        *)
add(sign, s, data, x, n) ==
  LET hit(d, i) == [d EXCEPT ![Cell(s, x, i)] = incr(sign, @, n)]
  IN  FoldLeft(hit, data, Seeds(s[2]))

(* CBF::add_count, CMS::add_count: the least of the values on the way, which *)
(* is not what count finds afterwards if two hashes meet in a cell.          *)
add_count(sign, s, data, x, n) ==
  LET hit(acc, i) ==
        LET v == incr(sign, acc.data[Cell(s, x, i)], n)
        IN  [data |-> [acc.data EXCEPT ![Cell(s, x, i)] = v],
             min  |-> IF v < acc.min THEN v ELSE acc.min]
  IN  FoldLeft(hit, [data |-> data, min |-> CellMax], Seeds(s[2]))

(* CBF::count, CMS::count                                                    *)
count(s, data, x) == Min({data[Cell(s, x, i)] : i \in 0 .. s[2] - 1})

(* The increment or a sum does not fit in a cell.                            *)
Clips(sign, s, data, x, n) ==
  LET hit(d, i) == [d EXCEPT ![Cell(s, x, i)] = IF sign THEN @ + n ELSE @ - n]
      exact == FoldLeft(hit, data, Seeds(s[2]))
  IN  n > CellMax \/ Range(exact) \cap (0 .. CellMax) # Range(exact)

Count(t, sign, s, x, n) == [t EXCEPT ![<<s, x>>] = IF sign THEN @ + n ELSE @ - n]

InvalidShape(s) == s[1] = 0 \/ s[2] = 0 \/ Size(s) > MAX_SIZE

(* CBFMutate, CMSMutate: items with their increments, at least 1 each.       *)
Mutate(sign, s, ps) ==
  LET n == Size(s)
      one(acc, p) ==
        LET m   == Max({p[2], 1})
            new == add(sign, s, acc.data, p[1], m)
        IN  [data |-> new, t |-> Count(acc.t, sign, s, p[1], m),
             c |-> acc.c \/ Clips(sign, s, acc.data, p[1], m)]
      all == FoldLeft(one, [data |-> copyPair(n, 0), t |-> TruthOf(n), c |-> ClipOf(n)], ps)
  IN  IF InvalidShape(s) THEN Rejects
      ELSE /\ insertHintVFactory(all.data)
           /\ truth' = all.t /\ clipped' = all.c
           /\ answer' = None
           /\ UNCHANGED log

(* CBFMutateCount, CMSMutateCount                                            *)
MutateCount(sign, s, x, m) ==
  LET n    == Size(s)
      data == copyPair(n, 0)
      got  == add_count(sign, s, data, x, m)
  IN  IF InvalidShape(s) \/ m % (CellMax + 1) = 0 THEN Rejects
      ELSE /\ insertHintVFactory(got.data)
           /\ truth' = Count(TruthOf(n), sign, s, x, m)
           /\ clipped' = (ClipOf(n) \/ Clips(sign, s, data, x, m))
           /\ answer' = [is |-> "count", of |-> <<s, x>>, n |-> got.min]
           /\ UNCHANGED log

(* processT__ of the readers: 0 if there is no value of this size.           *)
countOf(s, x) == IF Found(Size(s)) THEN count(s, val, x) ELSE 0

(* The readers, and CMSRESERVE, take a zero for one.                         *)
AtLeast1(s) == <<Max({s[1], 1}), Max({s[2], 1})>>

CBFMutate(sign, s, ps)         == kind = "CBF" /\ Mutate(sign, s, ps)
CBFMutateCount(sign, s, x, m)  == kind = "CBF" /\ MutateCount(sign, s, x, m)
CBFADD(s, ps)                  == CBFMutate(TRUE, s, ps)
CBFREM(s, ps)                  == CBFMutate(FALSE, s, ps)
CBFADDCOUNT(s, x, m)           == CBFMutateCount(TRUE, s, x, m)
CBFREMCOUNT(s, x, m)           == CBFMutateCount(FALSE, s, x, m)
CBFRESERVE(s)                  == kind = "CBF" /\ IF InvalidShape(s) THEN Rejects ELSE Reserve(Size(s), 0)
CBFCOUNT(s, x)                 == countOf(AtLeast1(s), x)
CBFMCOUNT(s, xs)               == [i \in DOMAIN xs |-> countOf(AtLeast1(s), xs[i])]

CMSMutate(sign, s, ps)         == kind = "CMS" /\ Mutate(sign, s, ps)
CMSMutateCount(sign, s, x, m)  == kind = "CMS" /\ MutateCount(sign, s, x, m)
CMSADD(s, ps)                  == CMSMutate(TRUE, s, ps)
CMSREM(s, ps)                  == CMSMutate(FALSE, s, ps)
CMSADDCOUNT(s, x, m)           == CMSMutateCount(TRUE, s, x, m)
CMSREMCOUNT(s, x, m)           == CMSMutateCount(FALSE, s, x, m)
CMSRESERVE(s)                  ==
  /\ kind = "CMS"
  /\ IF InvalidShape(AtLeast1(s)) THEN Rejects ELSE Reserve(Size(AtLeast1(s)), 0)
CMSCOUNT(s, x)                 == countOf(AtLeast1(s), x)
CMSMCOUNT(s, xs)               == [i \in DOMAIN xs |-> countOf(AtLeast1(s), xs[i])]

-----------------------------------------------------------------------------
(* Cuckoo filter of w buckets with Slots fingerprints each; 0 is empty.      *)

createFP(h) == LET fp == h % 2 ^ FPBits IN IF fp = 0 THEN 1 ELSE fp

FP(x)           == createFP(murmur_hash64a(x, 0))
index1(w, x)    == murmur_hash64a(x, 0) % w
hashAltIndex(w, index, fp) == (index ^^ hashFP(fp)) % w
index2(w, x)    == hashAltIndex(w, index1(w, x), FP(x))

ix(index, slot) == index * Slots + slot + 1
Bucket(index)   == {ix(index, s) : s \in 0 .. Slots - 1}

rand(fp, i) == mixer(fp ^^ i) % Slots

(* The first slot that ends the search, 0 if none does.                      *)
FirstSlot(set) == IF set = {} THEN 0 ELSE Min(set)

(* tryInsert__<Initial>: an equal fingerprint that comes before the first    *)
(* empty slot is taken for the item.                                         *)
putSlot(table, at, fp) == [ok |-> at # 0, table |-> IF at = 0 THEN table ELSE [table EXCEPT ![at] = fp]]

tryInsert(initial, table, fp, index) ==
  putSlot(table, FirstSlot({i \in Bucket(index) : table[i] = 0 \/ (initial /\ table[i] = fp)}), fp)

tryFind(table, fp, index) == FirstSlot({i \in Bucket(index) : table[i] = fp})

(* Mutant: the fingerprints that were pushed out are put back first to last. *)
rollbackForward(table, kicks) ==
  LET undo(t, k) == [t EXCEPT ![k.at] = k.fp] IN FoldLeft(undo, table, kicks)

rollback(table, kicks) ==
  LET undo(t, k) == [t EXCEPT ![k.at] = k.fp] IN FoldLeft(undo, table, Reverse(kicks))

(* At most MaxKicks fingerprints move to their other bucket.                *)
kick(w, acc, i, at) ==
  LET old  == acc.table[at]
      next == hashAltIndex(w, acc.index, old)
      try  == tryInsert(FALSE, [acc.table EXCEPT ![at] = acc.fp], old, next)
  IN  [ok |-> try.ok, table |-> try.table, fp |-> old, index |-> next,
       kicks |-> Append(acc.kicks, [at |-> at, fp |-> old])]

kickAll(w, table, fp, index) ==
  FoldLeft(LAMBDA acc, i : IF acc.ok THEN acc ELSE kick(w, acc, i, ix(acc.index, rand(acc.fp, i))),
           [ok |-> FALSE, table |-> table, fp |-> fp, index |-> index, kicks |-> <<>>], Seeds(MaxKicks))

(* The moves are undone on failure.                                          *)
kicked(acc) == [ok |-> acc.ok, table |-> IF acc.ok THEN acc.table ELSE rollback(acc.table, acc.kicks)]

orElse(first, second) == IF first.ok THEN first ELSE second

(* CuckooFilter::insert: the bucket, the other bucket, then kicks.           *)
insert(w, table, x) ==
  orElse(tryInsert(TRUE, table, FP(x), index1(w, x)),
         orElse(tryInsert(TRUE, table, FP(x), index2(w, x)),
                kicked(kickAll(w, table, FP(x), index1(w, x)))))

(* CuckooFilter::remove                                                      *)
remove(w, table, x) ==
  LET p1 == tryFind(table, FP(x), index1(w, x))
      p2 == tryFind(table, FP(x), index2(w, x))
  IN  putSlot(table, IF p1 # 0 THEN p1 ELSE p2, 0)

lookup(w, table, x) ==
  tryFind(table, FP(x), index1(w, x)) # 0 \/ tryFind(table, FP(x), index2(w, x)) # 0

(* Items that no filter of width w can tell apart.                           *)
Alike(w, x) ==
  {y \in Items : FP(y) = FP(x) /\ index1(w, y) \in {index1(w, x), index2(w, x)}}

InvalidWidth(w) == w = 0 \/ w * Slots > MAX_SIZE

(* CFMutate: the answer says of each item whether it went in or out.         *)
CFCount(acc, r, adds, w, x) ==
  [data |-> r.table, oks |-> Append(acc.oks, r.ok),
   t |-> [k \in DOMAIN acc.t |->
            CASE ~ r.ok           -> acc.t[k]
              [] r.ok /\ adds   -> IF k = <<w, x>> THEN 1 ELSE acc.t[k]
              [] r.ok /\ ~ adds -> IF k[1] = w /\ k[2] \in Alike(w, x) THEN 0 ELSE acc.t[k]]]

CFStore(all) ==
  /\ insertHintVFactory(all.data)
  /\ truth' = all.t
  /\ answer' = [is |-> "oks", oks |-> all.oks]
  /\ UNCHANGED <<log, clipped>>

CFMutate(adds, w, xs) ==
  LET one(acc, x) ==
        CFCount(acc, IF adds THEN insert(w, acc.data, x) ELSE remove(w, acc.data, x), adds, w, x)
  IN  IF InvalidWidth(w) THEN Rejects
      ELSE CFStore(FoldLeft(one, [data |-> copyPair(w * Slots, 0), oks |-> <<>>, t |-> TruthOf(w * Slots)], xs))

CFExists(w, xs) ==
  [i \in DOMAIN xs |-> ~ InvalidWidth(w) /\ Found(w * Slots) /\ lookup(w, val, xs[i])]

CFADD(w, x)     == kind = "CF" /\ CFMutate(TRUE, w, <<x>>)
CFMADD(w, xs)   == kind = "CF" /\ CFMutate(TRUE, w, xs)
CFREM(w, x)     == kind = "CF" /\ CFMutate(FALSE, w, <<x>>)
CFMREM(w, xs)   == kind = "CF" /\ CFMutate(FALSE, w, xs)
CFEXISTS(w, x)  == CFExists(w, <<x>>)[1]
CFMEXISTS(w, xs) == CFExists(w, xs)
CFRESERVE(w)    == kind = "CF" /\ IF InvalidWidth(w) THEN Rejects ELSE Reserve(w * Slots, 0)
=============================================================================
