----------------------------- MODULE Containers -----------------------------
(***************************************************************************)
(* Small containers kept in one value: heavy hitters (cmd_hh.h), Misra-Gries *)
(* counters (cmd_mg.h), reservoir samples (cmd_rs.h), ring buffers           *)
(* (cmd_rb.h), lists (cmd_sl.h), bit sets (cmd_bitset.h) and records of      *)
(* fixed fields (cmd_isam.h).  Item 0 is the empty item.                     *)
(***************************************************************************)
EXTENDS ValueStore, FiniteSetsExt, Functions

CONSTANTS
  Things,                    \* items that clients add
  ThingLists,                \* lists of items in one command
  SlotCounts, MAX_SLOTS,     \* numbers of slots that clients send, the limit
  Scores, ScoreMin, ScoreMax,\* scores that clients send, std::numeric_limits<int64_t>
  MGMax,                     \* std::numeric_limits<uint64_t>
  Bytes(_),                  \* bytes a list needs for an item
  SLMax,                     \* bytes a value may have
  ContainerSize,             \* items a list may have
  SEARCH_NAIVE, SEARCH_MINI, \* thresholds of SLMGET
  BitNumbers, BitMax,        \* bits that clients send, BIT_MAX
  BitsInByte,
  Schemas, FieldVals         \* schemas (<<size, name>> of each field), values

isSlotsValid(n) == n >= 1 /\ n <= MAX_SLOTS

EmptyItem == [item |-> 0, score |-> 0]

Pos(set)  == IF set = {} THEN 0 ELSE Max(set)

-----------------------------------------------------------------------------
(* Heavy hitters: the items with the highest (Up) or the lowest scores.      *)

comp(up, a, b) == IF up THEN a > b ELSE a < b
start(up)      == IF up THEN ScoreMax ELSE ScoreMin

(* The slot with the lowest score: the first one that is below all before it *)
(* and below start.                                                          *)
IndexMin(up, hh) ==
  LET cand == {i \in DOMAIN hh : hh[i].item # 0 /\ comp(up, start(up), hh[i].score)}
      best == {i \in cand : \A j \in cand : ~ comp(up, hh[i].score, hh[j].score)}
  IN  IF best = {} THEN 0 ELSE Min(best)

(* RawHeavyHitter::add                                                       *)
hh_add(up, hh, x, score) ==
  LET same  == {i \in DOMAIN hh : hh[i].item = x}
      empty == {i \in DOMAIN hh : hh[i].item = 0}
      low   == IndexMin(up, hh)
      at    == IF same # {} THEN (IF comp(up, score, hh[Min(same)].score) THEN Min(same) ELSE 0)
               ELSE IF empty # {} THEN Max(empty)
               ELSE IF low # 0 /\ comp(up, score, hh[low].score) THEN low ELSE 0
  IN  IF at = 0 THEN [ok |-> FALSE, hh |-> hh]
      ELSE [ok |-> TRUE, hh |-> [hh EXCEPT ![at] = [item |-> x, score |-> score]]]

(* The best score of an item so far; 0 stands for none.                      *)
Best(up, t, s, x, score) ==
  [t EXCEPT ![<<s, x>>] = IF @ = 0 \/ comp(up, score, @) THEN score ELSE @]

(* HHADDFactory, do_hh_incr_decr: pairs of an item and a score.              *)
do_hh_incr_decr(up, slots, ps) ==
  LET one(acc, p) == [hh |-> hh_add(up, acc.hh, p[1], p[2]).hh,
                      ok |-> acc.ok \/ hh_add(up, acc.hh, p[1], p[2]).ok,
                      t  |-> Best(up, acc.t, slots, p[1], p[2])]
      all == FoldLeft(one, [hh |-> copyPair(slots, EmptyItem), ok |-> FALSE, t |-> TruthOf(slots)], ps)
  IN  IF ~ isSlotsValid(slots) THEN Rejects
      ELSE /\ insertHintVFactory(all.hh)
           /\ truth' = all.t
           /\ answer' = [is |-> "ok", ok |-> all.ok]
           /\ UNCHANGED <<log, clipped>>

HHINCR(slots, ps) == kind = "HHINCR" /\ do_hh_incr_decr(TRUE, slots, ps)
HHDECR(slots, ps) == kind = "HHDECR" /\ do_hh_incr_decr(FALSE, slots, ps)
HHRESERVE(slots)  == /\ kind \in {"HHINCR", "HHDECR"}
                     /\ IF isSlotsValid(slots) THEN Reserve(slots, EmptyItem) ELSE Rejects
HHGET(slots)      == IF Found(slots) THEN {val[i] : i \in {j \in DOMAIN val : val[j].item # 0}} ELSE {}

-----------------------------------------------------------------------------
(* Misra-Gries: a counter that falls to 0 leaves its slot empty.             *)

mg_incr(e) == [e EXCEPT !.score = IF @ = MGMax THEN @ ELSE @ + 1]
mg_decr(e) == [e EXCEPT !.score = IF @ = 0 THEN 0 ELSE @ - 1]

(* RawMisraGries::add                                                        *)
mg_add(mg, x) ==
  LET same  == {i \in DOMAIN mg : mg[i].score # 0 /\ mg[i].item = x}
      empty == {i \in DOMAIN mg : mg[i].score = 0}
      at    == IF same # {} THEN Min(same) ELSE Pos(empty)
      new   == IF same # {} THEN mg_incr(mg[at]) ELSE [item |-> x, score |-> 1]
  IN  IF at = 0 THEN [n |-> 0, mg |-> [i \in DOMAIN mg |-> mg_decr(mg[i])]]
      ELSE [n |-> new.score, mg |-> [mg EXCEPT ![at] = new]]

Tally(t, s, x) == [t EXCEPT ![<<s, x>>] = @ + 1]

MGInsert(slots, xs) ==
  LET one(acc, x) == [mg |-> mg_add(acc.mg, x).mg, n |-> mg_add(acc.mg, x).n,
                      ok |-> acc.ok \/ mg_add(acc.mg, x).n # 0, t |-> Tally(acc.t, slots, x)]
      all == FoldLeft(one, [mg |-> copyPair(slots, EmptyItem), n |-> 0, ok |-> FALSE,
                            t |-> TruthOf(slots)], xs)
  IN  IF ~ isSlotsValid(slots) THEN Rejects
      ELSE /\ insertHintVFactory(all.mg)
           /\ truth' = all.t
           /\ answer' = [is |-> "score", ok |-> all.ok, n |-> all.n]
           /\ UNCHANGED <<log, clipped>>

MGADD(slots, xs)   == kind = "MG" /\ MGInsert(slots, xs)
MGADDGET(slots, x) == kind = "MG" /\ MGInsert(slots, <<x>>)
MGRESERVE(slots)   == kind = "MG" /\ IF isSlotsValid(slots) THEN Reserve(slots, EmptyItem) ELSE Rejects
MGGET(slots)       == IF Found(slots) THEN {val[i] : i \in {j \in DOMAIN val : val[j].score # 0}} ELSE {}

-----------------------------------------------------------------------------
(* Reservoir sampling: the number of items seen, then the slots.             *)

(* Mutant: the random slot is taken before the reservoir is full.            *)
rs_addEarly(rs, x) ==
  {IF i < Len(rs) - 1 THEN [rs EXCEPT ![1] = @ + 1, ![i + 2] = x] ELSE [rs EXCEPT ![1] = @ + 1]
     : i \in 0 .. rs[1]}

(* RawReservoirSampling::add, with every number the generator may give.      *)
rs_add(rs, x) ==
  LET size == Len(rs) - 1
      c    == rs[1]
      put(i) == [rs EXCEPT ![1] = c + 1, ![i + 2] = x]
  IN  IF c < size THEN {put(c)}
      ELSE {IF i < size THEN put(i) ELSE [rs EXCEPT ![1] = c + 1] : i \in 0 .. c}

RSADD(slots, xs) ==
  LET n == slots + 1
      one(acc, x) == [rss |-> UNION {rs_add(rs, x) : rs \in acc.rss}, t |-> Tally(acc.t, slots, x)]
      all == FoldLeft(one, [rss |-> {copyPair(n, 0)}, t |-> TruthOf(n)], xs)
  IN  /\ kind = "RS"
      /\ IF ~ isSlotsValid(slots) THEN Rejects
         ELSE /\ \E rs \in all.rss : insertHintVFactory(rs)
              /\ truth' = all.t
              /\ answer' = None
              /\ UNCHANGED <<log, clipped>>

RSRESERVE(slots)  == kind = "RS" /\ IF isSlotsValid(slots) THEN Reserve(slots + 1, 0) ELSE Rejects
RSGET(slots)      == IF Found(slots + 1) THEN SelectSeq(Tail(val), LAMBDA x : x # 0) ELSE <<>>
RSGETCOUNT(slots) == IF Found(slots + 1) THEN val[1] ELSE 0

-----------------------------------------------------------------------------
(* Ring buffer: head (the write index), tail (the read index), the slots.    *)

rb_item(rb, i)  == rb[i + 3]
rb_next(rb, i)  == IF i + 1 = Len(rb) - 2 THEN 0 ELSE i + 1
rb_check(rb)    == rb[1] < Len(rb) - 2 /\ rb[2] < Len(rb) - 2

(* checkSet_: indexes that are out of range empty the buffer.                *)
rb_checkSet(rb) == IF rb_check(rb) THEN rb ELSE [rb EXCEPT ![1] = 0, ![2] = 0, ![3] = 0]

(* Mutant: the oldest item stays in front when a full buffer takes another.  *)
rb_pushKeepsTail(rb0, x) ==
  LET rb == rb_checkSet(rb0) IN [rb EXCEPT ![rb[1] + 3] = x, ![1] = rb_next(rb, @)]

(* RawRingBuffer::push                                                       *)
rb_push(rb0, x) ==
  LET rb   == rb_checkSet(rb0)
      full == rb[1] = rb[2] /\ rb_item(rb, rb[2]) # 0
  IN  [rb EXCEPT ![rb[1] + 3] = x,
                 ![2] = IF full THEN rb_next(rb, @) ELSE @,
                 ![1] = rb_next(rb, @)]

(* RawRingBuffer::pop: item 0 if the buffer is empty.                        *)
rb_pop(rb0) ==
  LET rb == rb_checkSet(rb0)
      x  == rb_item(rb, rb[2])
  IN  IF rb[1] = rb[2] /\ x = 0 THEN [item |-> 0, rb |-> rb]
      ELSE [item |-> x, rb |-> [rb EXCEPT ![rb[2] + 3] = 0, ![2] = rb_next(rb, @)]]

rb_count(rb) ==
  IF ~ rb_check(rb) THEN 0
  ELSE IF rb[1] = rb[2] THEN (IF rb_item(rb, rb[2]) # 0 THEN Len(rb) - 2 ELSE 0)
  ELSE IF rb[1] > rb[2] THEN rb[1] - rb[2] ELSE (Len(rb) - 2 - rb[2]) + rb[1]

(* for_each: count items from the tail on.                                   *)
rb_for_each(rb) ==
  [k \in 1 .. rb_count(rb) |-> rb_item(rb, (rb[2] + k - 1) % (Len(rb) - 2))]

(* The last slots items of a queue that has taken the items xs.              *)
Kept(q, xs, slots) ==
  LET all == q \o xs IN IF Len(all) > slots THEN SubSeq(all, Len(all) - slots + 1, Len(all)) ELSE all

RBADD(slots, xs) ==
  LET n == slots + 2
  IN  /\ kind = "RB"
      /\ IF ~ isSlotsValid(slots) THEN Rejects
         ELSE /\ insertHintVFactory(FoldLeft(rb_push, copyPair(n, 0), xs))
              /\ log' = Kept(LogOf(n), xs, slots)
              /\ answer' = None
              /\ UNCHANGED <<truth, clipped>>

RBPOP(slots) ==
  LET n   == slots + 2
      got == rb_pop(copyPair(n, 0))
  IN  /\ kind = "RB"
      /\ IF ~ isSlotsValid(slots) THEN Rejects
         ELSE /\ insertHintVFactory(got.rb)
              /\ log' = IF LogOf(n) = <<>> THEN <<>> ELSE Tail(LogOf(n))
              /\ answer' = [is |-> "pop", item |-> got.item,
                            due |-> IF LogOf(n) = <<>> THEN 0 ELSE Head(LogOf(n))]
              /\ UNCHANGED <<truth, clipped>>

RBRESERVE(slots) == kind = "RB" /\ IF isSlotsValid(slots) THEN Reserve(slots + 2, 0) ELSE Rejects
RBGET(slots)     == IF Found(slots + 2) THEN rb_for_each(val) ELSE <<>>
RBCOUNT(slots)   == IF Found(slots + 2) THEN rb_count(val) ELSE 0

-----------------------------------------------------------------------------
(* List: <<capacity, items>>; a push that does not fit is dropped.           *)

Sum(xs) == FoldLeft(LAMBDA a, x : a + Bytes(x), 0, xs)

(* RawSList::bytes: the capacity stays, or grows to what is needed (twice    *)
(* that for SLADD).                                                          *)
sl_capacity(need, multiplier) == IF need <= val[1] THEN val[1] ELSE need * multiplier

sl_bytes(xs, multiplier) ==
  IF val = <<>> THEN Sum(xs) ELSE sl_capacity(Sum(val[2]) + Sum(xs), multiplier)

sl_fits(sl, x) == Sum(sl[2]) + Bytes(x) <= sl[1]

(* SLADDFactory::action and RawSList::push.                                  *)
sl_push(sl, x) ==
  IF Len(sl[2]) >= ContainerSize \/ ~ sl_fits(sl, x) THEN sl
  ELSE <<sl[1], Append(sl[2], x)>>

(* processADD: a value that would be too large is not inserted; the answer   *)
(* is 1 all the same.                                                        *)
processADD(xs, multiplier) ==
  LET cap == sl_bytes(xs, multiplier)
      old == IF val = <<>> THEN <<>> ELSE val[2]
      new == FoldLeft(sl_push, <<cap, old>>, xs)
  IN  /\ kind = "SL"
      /\ IF cap > SLMax THEN Rejects
         ELSE /\ insertHintVFactory(new)
              /\ log' = SubSeq(log \o xs, 1, Min({Len(log \o xs), ContainerSize}))
              /\ answer' = None
              /\ UNCHANGED <<truth, clipped>>

SLADD(xs)     == processADD(xs, 2)
SLADDPACK(xs) == processADD(xs, 1)

SLItems    == IF val = <<>> THEN <<>> ELSE val[2]
SLGET(n)   == IF n < Len(SLItems) THEN SLItems[n + 1] ELSE 0
SLGETALL   == SubSeq(SLItems, 1, Min({Len(SLItems), ContainerSize}))
SLCOUNT    == Len(SLItems)

(* SLMGET: a scan for each index, or a table of the items, or a table of the *)
(* indexes, whose entry for an index past the end is a null pointer.         *)
processNaive(ns) == [i \in DOMAIN ns |-> SLGET(ns[i])]
processMini(ns)  ==
  LET icontainer == SLItems
  IN  [i \in DOMAIN ns |-> IF ns[i] < Len(icontainer) THEN icontainer[ns[i] + 1] ELSE 0]
processHuge(ns)  ==
  LET map == [n \in Range(ns) |-> IF n < Len(SLItems) THEN SLItems[n + 1] ELSE "nullptr"]
  IN  [i \in DOMAIN ns |-> map[ns[i]]]

SLMGET(ns) ==
  IF Len(ns) <= 1 \/ Len(SLItems) <= 1 \/ Len(ns) * Len(SLItems) < SEARCH_NAIVE THEN processNaive(ns)
  ELSE IF Len(SLItems) < SEARCH_MINI THEN processMini(ns) ELSE processHuge(ns)

-----------------------------------------------------------------------------
(* Bit set: whole bytes; the value grows to the largest bit that is set.     *)

BytesFor(n) == ((n \div BitsInByte) + 1) * BitsInByte

(* BITSET: pairs of a bit number and a bit; numbers past BIT_MAX are skipped.*)
BITSET(ps) ==
  LET in  == {ps[i][1] : i \in {j \in DOMAIN ps : ps[j][1] < BitMax}}
      n   == Max({Len(val), BytesFor(Max(in \cup {0}))})
      old == [i \in 1 .. n |-> IF i <= Len(val) THEN val[i] ELSE 0]
      set(d, p) == IF p[1] >= BitMax THEN d ELSE [d EXCEPT ![p[1] + 1] = p[2]]
      see(t, p) == IF p[1] >= BitMax THEN t ELSE [t EXCEPT ![<<0, p[1]>>] = p[2]]
  IN  /\ kind = "BITSET"
      /\ IF in = {} THEN Rejects
         ELSE /\ insertHintVFactory(FoldLeft(set, old, ps))
              /\ truth' = FoldLeft(see, truth, ps)
              /\ answer' = None
              /\ UNCHANGED <<log, clipped>>

BITGET(n) == IF Len(val) >= BytesFor(n) THEN val[n + 1] ELSE 0

(* The length of the value is not checked: a bit past its end is anything.   *)
BITMGET(ns) ==
  [i \in DOMAIN ns |-> IF val = <<>> THEN {0}
                       ELSE IF ns[i] < Len(val) THEN {val[ns[i] + 1]} ELSE {0, 1}]

BITCOUNT == Cardinality({i \in DOMAIN val : val[i] = 1})

BITMAX == BitMax

-----------------------------------------------------------------------------
(* Records: a schema gives each field a size and a name; a value is cut or   *)
(* padded to the size of its field.  0 is the padding.                       *)

Off(schema, i)   == FoldLeft(LAMBDA a, f : a + f[1], 0, SubSeq(schema, 1, i - 1))
RowBytes(schema) == Off(schema, Len(schema) + 1)

(* Field::store, Field::load and trim                                        *)
store(row, schema, i, v) ==
  [j \in DOMAIN row |->
     LET k == j - Off(schema, i)
     IN  IF k < 1 \/ k > schema[i][1] THEN row[j] ELSE IF k <= Len(v) THEN v[k] ELSE 0]

trim(s) == LET last == Pos({i \in DOMAIN s : s[i] # 0}) IN SubSeq(s, 1, last)

load(row, schema, i) == trim(SubSeq(row, Off(schema, i) + 1, Off(schema, i) + schema[i][1]))

(* The searchers.  With a repeated name the table of names keeps the last.   *)
LinearSearcher(schema, name) ==
  LET at == {i \in DOMAIN schema : schema[i][2] = name} IN IF at = {} THEN 0 ELSE Min(at)
(* The searcher that is made with the schema: the first field of the name.   *)
createAndSearchByName(schema, name) ==
  SelectInSeq(schema, LAMBDA field : field[2] = name)
HashSearcher(schema, name) == Pos({i \in DOMAIN schema : schema[i][2] = name})

(* Few searches in a small schema are done one after another.                *)
selectFastSearcher(size, searches) ==
  CASE searches < 2 -> FALSE
    [] searches = 2 -> size >= 10
    [] searches = 3 -> size >= 4
    [] OTHER        -> size >= 3

searcher(schema, searches, name) ==
  IF searches = 1 THEN createAndSearchByName(schema, name)
  ELSE IF selectFastSearcher(Len(schema), searches)
  THEN HashSearcher(schema, name) ELSE LinearSearcher(schema, name)

(* ISET_Factory, IDEL_Factory: fields that are not in the schema are skipped.*)
storeAll(schema, row, ps, searches) ==
  LET one(r, p) == LET i == searcher(schema, searches, p[1])
                   IN  IF i = 0 THEN r ELSE store(r, schema, i, p[2])
  IN  FoldLeft(one, row, ps)

(* The values of the fields by name, cut to size.                            *)
Cut(schema, p) ==
  LET i == LinearSearcher(schema, p[1])
  IN  trim(SubSeq(p[2], 1, Min({Len(p[2]), schema[i][1]})))
SetAll(schema, f, ps) ==
  LET one(g, p) == IF p[1] \in DOMAIN g THEN [g EXCEPT ![p[1]] = Cut(schema, p)] ELSE g
  IN  FoldLeft(one, f, ps)
BlankRow(schema) == [n \in {schema[i][2] : i \in DOMAIN schema} |-> <<>>]

(* The record the clients have written; another schema makes it unknown.     *)
RowOf(schema) ==
  IF Found(RowBytes(schema)) /\ log # <<>> /\ log[1] = schema THEN log[2] ELSE BlankRow(schema)

Wrote(schema, ps, whole) ==
  IF whole \/ ~ Found(RowBytes(schema)) \/ (log # <<>> /\ log[1] = schema)
  THEN <<schema, SetAll(schema, RowOf(schema), ps)>> ELSE <<>>

ISETALL(schema, vs) ==
  LET ps == [i \in DOMAIN vs |-> <<schema[i][2], vs[i]>>]
      one(r, i) == store(r, schema, i, vs[i])
  IN  /\ kind = "ISAM"
      /\ IF Len(vs) # Len(schema) THEN Rejects
         ELSE /\ insertHintVFactory(FoldLeft(one, zeros(RowBytes(schema), 0), [i \in DOMAIN vs |-> i]))
              /\ log' = Wrote(schema, ps, TRUE)
              /\ answer' = None
              /\ UNCHANGED <<truth, clipped>>

putFields(schema, ps, searches) ==
  /\ kind = "ISAM"
  /\ insertHintVFactory(storeAll(schema, copyPair(RowBytes(schema), 0), ps, searches))
  /\ log' = Wrote(schema, ps, FALSE)
  /\ answer' = None
  /\ UNCHANGED <<truth, clipped>>

(* One field is looked for once; of more the names and values are counted.   *)
ISET(schema, ps) == putFields(schema, ps, IF Len(ps) = 1 THEN 1 ELSE 2 * Len(ps))

IDEL(schema, names) ==
  putFields(schema, [i \in DOMAIN names |-> <<names[i], <<>>>>], Len(names))

IRESERVE(schema) ==
  LET keeps == mem /\ Found(RowBytes(schema))
  IN  /\ kind = "ISAM"
      /\ val' = IF keeps THEN val ELSE zeros(RowBytes(schema), 0)
      /\ log' = IF keeps THEN log ELSE <<schema, BlankRow(schema)>>
      /\ mem' = TRUE
      /\ answer' = Reserved
      /\ UNCHANGED <<kind, truth, clipped>>

IGET(schema, name) ==
  LET i == createAndSearchByName(schema, name)
  IN  IF ~ Found(RowBytes(schema)) \/ i = 0 THEN <<>> ELSE load(val, schema, i)

IMGET(schema, names) ==
  [k \in DOMAIN names |->
     LET i == searcher(schema, Len(names), names[k])
     IN  IF ~ Found(RowBytes(schema)) \/ i = 0 THEN <<>> ELSE load(val, schema, i)]

IGETKEYS(schema) == [i \in DOMAIN schema |-> schema[i][2]]
IGETVALS(schema) == IF Found(RowBytes(schema)) THEN [i \in DOMAIN schema |-> load(val, schema, i)] ELSE <<>>
IGETALL(schema)  == [i \in DOMAIN IGETVALS(schema) |-> <<schema[i][2], IGETVALS(schema)[i]>>]
=============================================================================
