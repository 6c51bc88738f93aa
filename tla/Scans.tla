-------------------------------- MODULE Scans --------------------------------
(***************************************************************************)
(* The commands on ranges of keys: cmd_immutable_x.h, cmd_accumulators_x.h, *)
(* cmd_mutable_x.h, and the loops they share (shared_accumulateresults.h,   *)
(* shared_stoppredicate.h).                                                 *)
(*                                                                         *)
(* A client pages through a range while others write; another one sweeps a   *)
(* range with a command that changes every pair of it.  A sweep updates in   *)
(* place what is in the memory list, and keeps pointers to the other pairs;  *)
(* an insertion may flush the list, and then the pointers are no good.       *)
(*                                                                         *)
(* Keys are numbers, in the order of the list; a prefix is the set of the    *)
(* keys that start with it, which are neighbours.                            *)
(***************************************************************************)
EXTENDS Integers, Sequences, SequencesExt, FiniteSetsExt

CONSTANTS
  Key,           \* 1 .. n
  Prefix,        \* sets of neighbours
  Value,         \* numbers that pairs store
  Edges,         \* keys where sweeps start and end
  CountMin, CountMax,  \* ITERATIONS_RESULTS_MIN, ITERATIONS_RESULTS_MAX
  LoopsMax,      \* ITERATIONS_LOOPS_MAX
  BatchMax,      \* ITERATIONS_PROCESS_X
  MemRoom,       \* pairs that fit in the memory list
  Now, Expirations,    \* the clock, and expirations that clients send
  MaxWrites      \* bound on the writes of other clients

VARIABLES
  db,        \* key -> pair
  version,   \* chain::mutable_version, modulo 2
  page,      \* the paging client: where it goes on, what it got, what it may expect
  sweep,     \* the command that sweeps a range
  writes     \* writes of other clients

svars == <<db, version, page, sweep, writes>>

NoKey == 0
Passes == 3        \* PASSES_PROCESS_X

ASSUME ScansAssumption ==
  /\ IsFiniteSet(Key) /\ Key = 1 .. Cardinality(Key)
  /\ {} \notin Prefix /\ Prefix \subseteq SUBSET Key
  /\ \A p \in Prefix : \A i, j \in p : i .. j \subseteq p     \* neighbours
  /\ Value # {} /\ Value \subseteq Int /\ Edges \subseteq Key /\ Expirations \subseteq Nat /\ Now \in Nat
  /\ \A n \in {CountMin, CountMax, LoopsMax, BatchMax, MemRoom} : n \in Nat \ {0}
  /\ MaxWrites \in Nat

None == [st |-> "none", val |-> 0, exp |-> 0, mem |-> FALSE]
Pair(v, e) == [st |-> "ok", val |-> v, exp |-> e, mem |-> TRUE]

Present == {k \in Key : db[k].st # "none"}
isOK(k) == db[k].st = "ok"

(* A finite set of numbers in ascending order.                               *)
Listed(S) ==
  [i \in 1 .. Cardinality(S) |-> CHOOSE k \in S : Cardinality({j \in S : j < k}) = i - 1]

(* list.find(key): the pairs from that key on.                               *)
find(key) == {k \in Present : k >= key}

(* How many of them an iteration has passed before it is at k.                *)
passed(ks, k) == Cardinality({j \in ks : j < k})

Reached(halts, k) == \A h \in halts : k < h

-----------------------------------------------------------------------------
(* The keys that a scan stops at.                                            *)

StopPrefixPredicate(prefix) == Key \ prefix
StopRangePredicate(end)     == {k \in Key : k > end}
StopUnboundPredicate        == {}

(* The loop of every scan: first the limit on iterations, then the stop      *)
(* predicate, then the pair, and the limit on results.  A limit leaves the    *)
(* key to go on from; the end of the range leaves none.                       *)
Walk(key, stop, results, loops) ==
  LET ks    == find(key)
      ok(k) == Cardinality({j \in ks : j <= k /\ isOK(j)})
      halts == {k \in ks : \/ passed(ks, k) >= loops \/ k \in stop
                           \/ isOK(k) /\ ok(k) > results}
      ended == halts = {} \/ (passed(ks, Min(halts)) < loops /\ Min(halts) \in stop)
  IN  [took |-> Listed({k \in ks : isOK(k) /\ Reached(halts, k)}),
       tail |-> IF ended THEN NoKey ELSE Min(halts)]

(* Mutant: the limit on results leaves the last key that was delivered.       *)
sharedAccumulatePairsLast(key, stop, results) ==
  LET w == Walk(key, stop, results, LoopsMax)
  IN  IF w.tail # NoKey /\ w.took # <<>> THEN [w EXCEPT !.tail = Last(w.took)] ELSE w

sharedAccumulatePairs(key, stop, results) == Walk(key, stop, results, LoopsMax)

myClamp(n, lo, hi) == IF n < lo THEN lo ELSE IF n > hi THEN hi ELSE n

Error == [items |-> <<>>, tail |-> NoKey]

(* AccumulateOutput                                                          *)
Project(out, k) ==
  CASE out = "keys" -> <<k>> [] out = "vals" -> <<db[k].val>>
    [] out = "both" -> <<k, db[k].val>> [] out = "keys1" -> <<k, 1>>

Output(out, w) ==
  [items |-> FlattenSeq([i \in DOMAIN w.took |-> Project(out, w.took[i])]), tail |-> w.tail]

accumulateResultsX(out, key, count, stop) ==
  Output(out, sharedAccumulatePairs(key, stop, myClamp(count, CountMin, CountMax)))

-----------------------------------------------------------------------------
(* cmd_immutable_x.h                                                         *)

GetPrefix(out, key, count, prefix) ==
  IF prefix = {} THEN Error ELSE accumulateResultsX(out, key, count, StopPrefixPredicate(prefix))

GetRange(out, key, count, end) ==
  IF end = NoKey THEN Error ELSE accumulateResultsX(out, key, count, StopRangePredicate(end))

XNGET(key, count, prefix)     == GetPrefix("both", key, count, prefix)
XRGET(key, count, end)        == GetRange("both", key, count, end)
XUGET(key, count)             == accumulateResultsX("both", key, count, StopUnboundPredicate)
XNGETKEYS(key, count, prefix) == GetPrefix("keys1", key, count, prefix)
XRGETKEYS(key, count, end)    == GetRange("keys1", key, count, end)
XUGETKEYS(key, count)         == accumulateResultsX("keys1", key, count, StopUnboundPredicate)

(* The first pair after firstKey: firstKey itself is passed over.             *)
sharedAccumulateResultsNext(firstKey, stop) ==
  LET w    == Walk(firstKey, stop, CountMax + 1, CountMax)
      rest == SelectSeq(w.took, LAMBDA k : k # firstKey)
  IN  IF rest = <<>> THEN [items |-> <<>>, tail |-> w.tail]
      ELSE [items |-> Project("both", rest[1]), tail |-> NoKey]

XNNEXT(key, prefix) ==
  IF prefix = {} THEN Error ELSE sharedAccumulateResultsNext(key, StopPrefixPredicate(prefix))
XRNEXT(key, end) ==
  IF end = NoKey THEN Error ELSE sharedAccumulateResultsNext(key, StopRangePredicate(end))
XUNEXT(key) == sharedAccumulateResultsNext(key, StopUnboundPredicate)

(* The fields of a hash: the keys that start with its name.  There is no      *)
(* key to go on from.                                                         *)
accumulateResultsH(out, prefix) ==
  [Output(out, sharedAccumulatePairs(Min(prefix), StopPrefixPredicate(prefix), CountMax)) EXCEPT !.tail = NoKey]

HGETALL(prefix)  == IF prefix = {} THEN Error ELSE accumulateResultsH("both", prefix)
HGETKEYS(prefix) == IF prefix = {} THEN Error ELSE accumulateResultsH("keys", prefix)
HGETVALS(prefix) == IF prefix = {} THEN Error ELSE accumulateResultsH("vals", prefix)

countResultsH(prefix) ==
  Len(Walk(Min(prefix), StopPrefixPredicate(prefix), CountMax + 1, CountMax).took)

HLEN(prefix) == IF prefix = {} THEN 0 ELSE countResultsH(prefix)

-----------------------------------------------------------------------------
(* cmd_accumulators_x.h                                                      *)

Huge == Max(Value) + 1000      \* numeric_limits<int64_t>::max(), -Huge is min()

COUNTPredicate(vs) == Len(vs)
SUMPredicate(vs)   == FoldLeft(+, 0, vs)
MINPredicate(vs)   == FoldLeft(LAMBDA a, x : IF x < a THEN x ELSE a, Huge, vs)
MAXPredicate(vs)   == FoldLeft(LAMBDA a, x : IF x > a THEN x ELSE a, -Huge, vs)
LastPredicate(vs)  == IF vs = <<>> THEN 0 ELSE vs[Len(vs)]
FirstPredicate(vs) == IF vs = <<>> THEN 0 ELSE vs[1]

(* Truncated towards zero; Huge stands for the division by zero that an       *)
(* empty page runs into.                                                     *)
AVGPredicate(vs) ==
  LET s == SUMPredicate(vs)
  IN  IF vs = <<>> THEN Huge ELSE IF s < 0 THEN -((-s) \div Len(vs)) ELSE s \div Len(vs)

Accumulated(acc, vs) ==
  CASE acc = "count" -> COUNTPredicate(vs) [] acc = "sum"  -> SUMPredicate(vs)
    [] acc = "min"   -> MINPredicate(vs)   [] acc = "max"  -> MAXPredicate(vs)
    [] acc = "avg"   -> AVGPredicate(vs)   [] acc = "last" -> LastPredicate(vs)

accumulateResults(acc, key, count, stop) ==
  LET w == Walk(key, stop, count, LoopsMax)
  IN  [data |-> Accumulated(acc, [i \in DOMAIN w.took |-> db[w.took[i]].val]), tail |-> w.tail]

(* FirstPredicate::ONCE ends the scan at the first pair.                      *)
AccFirst(key, stop) ==
  LET w == Walk(key, stop, LoopsMax, LoopsMax)
  IN  [data |-> FirstPredicate([i \in DOMAIN w.took |-> db[w.took[i]].val]),
       tail |-> IF w.took = <<>> THEN w.tail ELSE NoKey]

NoData == [data |-> 0, tail |-> NoKey]

AccPrefix(acc, key, count, prefix) ==
  IF prefix = {} THEN NoData ELSE accumulateResults(acc, key, count, StopPrefixPredicate(prefix))
AccRange(acc, key, end) ==
  IF end = NoKey THEN NoData ELSE accumulateResults(acc, key, LoopsMax, StopRangePredicate(end))

COUNT(key, n, prefix)  == AccPrefix("count", key, myClamp(n, CountMin, LoopsMax), prefix)
SUM(key, n, prefix)    == AccPrefix("sum", key, myClamp(n, CountMin, LoopsMax), prefix)
XNCOUNT(key, prefix)   == AccPrefix("count", key, LoopsMax, prefix)
XNSUM(key, prefix)     == AccPrefix("sum", key, LoopsMax, prefix)
XNMIN(key, prefix)     == AccPrefix("min", key, LoopsMax, prefix)
XNMAX(key, prefix)     == AccPrefix("max", key, LoopsMax, prefix)
XNLAST(key, prefix)    == AccPrefix("last", key, LoopsMax, prefix)
XNAVG(key, prefix)     == AccPrefix("avg", key, LoopsMax, prefix)
XRCOUNT(key, end)      == AccRange("count", key, end)
XRSUM(key, end)        == AccRange("sum", key, end)
XRMIN(key, end)        == AccRange("min", key, end)
XRMAX(key, end)        == AccRange("max", key, end)
XRLAST(key, end)       == AccRange("last", key, end)
XRAVG(key, end)        == AccRange("avg", key, end)
XNFIRST(key, prefix) ==
  IF prefix = {} THEN NoData ELSE AccFirst(key, StopPrefixPredicate(prefix))
XRFIRST(key, end) ==
  IF end = NoKey THEN NoData ELSE AccFirst(key, StopRangePredicate(end))
-----------------------------------------------------------------------------
(* cmd_mutable_x.h: what a predicate makes of a pair.                         *)

DeletePredicate(p)      == [p EXCEPT !.st = "dead"]
PersistPredicate(p)     == [p EXCEPT !.exp = 0]
ExpirePredicate(p, e)   == [p EXCEPT !.exp = e]
ExpireAtPredicate(p, t) == IF Now >= t THEN DeletePredicate(p) ELSE ExpirePredicate(p, t - Now)

Apply(op, arg, p) ==
  CASE op = "delete"   -> DeletePredicate(p)
    [] op = "persist"  -> PersistPredicate(p)
    [] op = "expire"   -> ExpirePredicate(p, arg)
    [] op = "expireat" -> ExpireAtPredicate(p, arg)

(* A sweep: the command, and what process_x_ keeps while it runs.  last is a  *)
(* view of the key of a pair, and at the list which that pair is in; want and *)
(* fresh record what the client may expect, and that nothing was read from a  *)
(* pair after a flush had taken it away.                                      *)
Sweep(op, arg, key, range, hash) ==
  [pc |-> "scan", op |-> op, arg |-> arg, key |-> key, range |-> range, hash |-> hash,
   todo |-> <<>>, ver |-> version, passes |-> 0, last |-> NoKey, at |-> "none",
   want |-> {k \in range : key \in range /\ k >= key /\ isOK(k)}, fresh |-> TRUE, cut |-> FALSE]

Refused == [Sweep("delete", 0, 1, {}, FALSE) EXCEPT !.pc = "ended"]

WithPrefix(op, arg, key, prefix) ==
  IF prefix = {} THEN Refused ELSE Sweep(op, arg, key, prefix, FALSE)
WithRange(op, arg, key, end) ==
  IF end = NoKey THEN Refused ELSE Sweep(op, arg, key, 1 .. end, FALSE)
WithHash(op, arg, prefix) ==
  IF prefix = {} THEN Refused ELSE Sweep(op, arg, Min(prefix), prefix, TRUE)

XNDEL(key, prefix)          == WithPrefix("delete", 0, key, prefix)
XRDEL(key, end)             == WithRange("delete", 0, key, end)
HDELALL(prefix)             == WithHash("delete", 0, prefix)
XNPERSIST(key, prefix)      == WithPrefix("persist", 0, key, prefix)
XRPERSIST(key, end)         == WithRange("persist", 0, key, end)
HPERSISTALL(prefix)         == WithHash("persist", 0, prefix)
XNEXPIRE(key, e, prefix)    == WithPrefix("expire", e, key, prefix)
XREXPIRE(key, e, end)       == WithRange("expire", e, key, end)
HEXPIREALL(prefix, e)       == WithHash("expire", e, prefix)
XNEXPIREAT(key, t, prefix)  == WithPrefix("expireat", t, key, prefix)
XREXPIREAT(key, t, end)     == WithRange("expireat", t, key, end)
HEXPIREATALL(prefix, t)     == WithHash("expireat", t, prefix)

(* The first pass: pairs of the memory list are updated in place, the others  *)
(* are remembered.                                                            *)
scanKeysAndProcessInPlace ==
  LET ks    == find(sweep.key)
      halts == {k \in ks : k \notin sweep.range \/ passed(ks, k) >= BatchMax}
      took  == {k \in ks : isOK(k) /\ Reached(halts, k)}
      last  == IF halts = {} \/ Min(halts) \notin sweep.range THEN NoKey ELSE Min(halts)
  IN  /\ sweep.pc = "scan"
      /\ db' = [k \in Key |-> IF k \in took /\ db[k].mem
                               THEN Apply(sweep.op, sweep.arg, db[k]) ELSE db[k]]
      /\ sweep' = [sweep EXCEPT
           !.pc = "process", !.ver = version,
           !.todo = Listed({k \in took : ~ db[k].mem}), !.last = last,
           !.at = CASE last = NoKey                   -> "none"
                    [] last # NoKey /\ db[last].mem   -> "list1"
                    [] last # NoKey /\ ~ db[last].mem -> "older"]
      /\ UNCHANGED <<version, page, writes>>

MustFlushEarly == Cardinality({k \in Key : db[k].mem}) >= MemRoom - 1   \* mutant
MustFlush == Cardinality({k \in Key : db[k].mem}) >= MemRoom
Flushed   == [k \in Key |-> [db[k] EXCEPT !.mem = FALSE]]

insert(k, p) ==
  /\ db' = [IF MustFlush THEN Flushed ELSE db EXCEPT ![k] = [p EXCEPT !.mem = TRUE]]
  /\ version' = IF MustFlush THEN 1 - version ELSE version

(* What a flush does to the pair that last is read from: the memory list is    *)
(* put aside to be saved; the list put aside before it is cleared, and the     *)
(* tables are loaded again.                                                    *)
Aged == CASE sweep.at = "list1"           -> "older"
          [] sweep.at \in {"older", "gone"} -> "gone"
          [] sweep.at = "none"            -> "none"

(* Erasures get keys that the scan copied; the other commands read the pair.   *)
ProcessNextGoesOn ==
  [sweep EXCEPT !.todo = Tail(@), !.at = IF MustFlush THEN Aged ELSE @,
                !.fresh = @ /\ (sweep.op = "delete" \/ sweep.ver = version)]

(* Deletions go on whatever happened; for the others a flush makes the command *)
(* scan again, or give up.                                                     *)

ProcessNext ==
  LET on == ProcessNextGoesOn
  IN  IF ~ MustFlush \/ sweep.op = "delete" THEN on
      ELSE [on EXCEPT !.passes = @ + 1, !.todo = <<>>,
                      !.pc = IF sweep.passes + 1 < Passes THEN "scan" ELSE "giveup"]

process_x ==
  /\ sweep.pc = "process" /\ sweep.todo # <<>>
  /\ insert(Head(sweep.todo), Apply(sweep.op, sweep.arg, db[Head(sweep.todo)]))
  /\ sweep' = ProcessNext
  /\ UNCHANGED <<page, writes>>

Answered(last) ==
  [sweep EXCEPT !.todo = <<>>, !.passes = 0, !.last = NoKey, !.at = "none",
                !.key = IF last = NoKey THEN @ ELSE last,
                !.pc = IF last = NoKey THEN "ended" ELSE "again"]

(* Of a pair that is gone anything may be read, also what lies behind all keys. *)
LastKeys == IF sweep.at = "gone" THEN Key \cup {Cardinality(Key) + 1} ELSE {sweep.last}

(* A command on a hash answers no key to go on from.                           *)
process_x_Done ==
  /\ sweep.pc = "process" /\ sweep.todo = <<>>
  /\ \/ sweep.hash /\ sweep' = [Answered(NoKey) EXCEPT !.cut = (sweep.last # NoKey)]
     \/ /\ ~ sweep.hash
        /\ \E last \in LastKeys :
             sweep' = [Answered(last) EXCEPT !.fresh = @ /\ sweep.at # "gone"]
  /\ UNCHANGED <<db, version, page, writes>>

(* scanForLastKey_: the first live pair of the range, or where the batch ends. *)
scanForLastKey ==
  LET ks    == find(sweep.key)
      halts == {k \in ks : k \notin sweep.range \/ passed(ks, k) >= BatchMax \/ isOK(k)}
  IN  IF halts = {} \/ Min(halts) \notin sweep.range THEN NoKey ELSE Min(halts)

process_x_GiveUp ==
  /\ sweep.pc = "giveup"
  /\ sweep' = IF sweep.hash THEN [Answered(NoKey) EXCEPT !.pc = "failed"]
              ELSE Answered(scanForLastKey)
  /\ UNCHANGED <<db, version, page, writes>>

-----------------------------------------------------------------------------
(* Clients.  Commands do not overlap: others write between two commands.       *)

NoCommand == sweep.pc \in {"none", "again", "ended", "failed", "died"}

(* The client goes on from the key that the command answered.                  *)
SweepAgain ==
  /\ sweep.pc = "again"
  /\ sweep' = [sweep EXCEPT !.pc = "scan"]
  /\ UNCHANGED <<db, version, page, writes>>

Sweeps ==
  UNION {
    {XNDEL(k, p) : k \in Edges, p \in Prefix \cup {{}}}, {XRDEL(k, e) : k \in Edges, e \in Edges \cup {NoKey}},
    {HDELALL(p) : p \in Prefix},
    {XNPERSIST(k, p) : k \in Edges, p \in Prefix}, {XRPERSIST(k, e) : k \in Edges, e \in Edges},
    {HPERSISTALL(p) : p \in Prefix},
    {XNEXPIRE(k, t, p) : k \in Edges, p \in Prefix, t \in Expirations},
    {XREXPIRE(k, t, e) : k \in Edges, e \in Edges, t \in Expirations},
    {HEXPIREALL(p, t) : p \in Prefix, t \in Expirations},
    {XNEXPIREAT(k, t, p) : k \in Edges, p \in Prefix, t \in Expirations},
    {XREXPIREAT(k, t, e) : k \in Edges, e \in Edges, t \in Expirations},
    {HEXPIREATALL(p, t) : p \in Prefix, t \in Expirations}}

SweepBegin ==
  /\ sweep.pc = "none" /\ page.pc = "off"
  /\ sweep' \in Sweeps
  /\ UNCHANGED <<db, version, page, writes>>

(* The process dies; what was inserted is in the log.                          *)
SweepDies ==
  /\ sweep.pc \in {"scan", "process", "giveup"}
  /\ db' = Flushed /\ version' = 0
  /\ sweep' = [Refused EXCEPT !.pc = "died"]
  /\ UNCHANGED <<page, writes>>

PageCommand(p) ==
  CASE p.cmd = "xn"     -> XNGETKEYS(p.key, p.count, p.range)
    [] p.cmd = "xnboth" -> XNGET(p.key, p.count, p.range)
    [] p.cmd = "xr"     -> XRGETKEYS(p.key, p.count, Max(p.range))
    [] p.cmd = "xrboth" -> XRGET(p.key, p.count, Max(p.range))
    [] p.cmd = "xu"     -> XUGETKEYS(p.key, p.count)
    [] p.cmd = "xuboth" -> XUGET(p.key, p.count)

PageBegin ==
  /\ page.pc = "on" /\ page.range = {}
  /\ \E cmd \in {"xn", "xr", "xu", "xnboth", "xrboth", "xuboth"}, range \in Prefix \cup {Key}, n \in {1, 2} :
       /\ cmd \in {"xu", "xuboth"} => range = Key
       /\ cmd \in {"xn", "xr", "xu"} <=> n = 1       \* to keep it small
       /\ page' = [pc |-> "on", cmd |-> cmd, key |-> Min(range), range |-> range, count |-> n,
                   got |-> <<>>,
                   due |-> {k \in range : isOK(k)}]
  /\ UNCHANGED <<db, version, sweep, writes>>

KeysOf(items) == [i \in 1 .. Len(items) \div 2 |-> items[2 * i - 1]]

PageNext ==
  /\ page.pc = "on" /\ page.range # {}
  /\ LET r == PageCommand(page)
     IN  page' = [page EXCEPT !.got = @ \o KeysOf(r.items), !.key = r.tail,
                              !.pc = IF r.tail = NoKey THEN "ended" ELSE "on"]
  /\ UNCHANGED <<db, version, sweep, writes>>

(* XNNEXT, one pair at a time: the next key is the one that was answered.      *)
NextBegin ==
  /\ page.pc = "on" /\ page.range = {}
  /\ \E range \in {p \in Prefix : 1 \in p} :      \* NoKey comes right before it
       page' = [pc |-> "next", cmd |-> "xnnext", key |-> 0, range |-> range, count |-> 1,
                got |-> <<>>, due |-> {k \in range : isOK(k)}]
  /\ UNCHANGED <<db, version, sweep, writes>>

NextNext ==
  /\ page.pc = "next"
  /\ \E r \in {XNNEXT(page.key, page.range)} :
       page' = [page EXCEPT
         !.got = IF r.items = <<>> THEN @ ELSE Append(@, r.items[1]),
         !.key = IF r.items = <<>> THEN r.tail ELSE r.items[1],
         !.pc  = IF r.items = <<>> /\ r.tail = NoKey THEN "ended" ELSE "next"]
  /\ UNCHANGED <<db, version, sweep, writes>>

(* Another client writes or deletes a key.                                     *)
OtherWrites(k) ==
  /\ NoCommand /\ writes < MaxWrites /\ writes' = writes + 1
  /\ \/ \E v \in Value : insert(k, Pair(v, 0)) /\ page' = page
     \/ /\ insert(k, [None EXCEPT !.st = "dead"])
        /\ page' = [page EXCEPT !.due = @ \ {k}]
  /\ sweep' = [sweep EXCEPT !.want = @ \ {k}]

(* Keys are all there or all missing: a missing key is one key less.            *)
APair == Pair(CHOOSE v \in Value : TRUE, 0)
InitialPairs == {APair, [APair EXCEPT !.mem = FALSE], [None EXCEPT !.st = "dead"], None}

ScansInit ==
  /\ db \in {d \in [Key -> InitialPairs] :
               /\ Cardinality({k \in Key : d[k].mem}) <= MemRoom
               /\ Cardinality({k \in Key : d[k] = None}) \in {0, Cardinality(Key)}}
  /\ version = 0 /\ writes = 0
  /\ sweep = [Refused EXCEPT !.pc = "none"]
  /\ page \in [pc : {"on", "off"}, cmd : {""}, key : {NoKey}, range : {{}}, count : {0},
                got : {<<>>}, due : {{}}]

SweepStep == \/ scanKeysAndProcessInPlace \/ process_x \/ process_x_Done
             \/ process_x_GiveUp \/ SweepAgain

ScansNext ==
  \/ SweepBegin \/ SweepStep \/ SweepDies
  \/ PageBegin \/ PageNext \/ NextBegin \/ NextNext
  \/ \E k \in Key : OtherWrites(k)

-----------------------------------------------------------------------------
(* A client that pages with XNGET, XRGET or XUGET while others write gets       *)
(* every key that is there all the time, in order and once, whatever limit      *)
(* ends a page.                                                                 *)
PagesExact ==
  page.cmd # "xnnext" =>
    /\ \A i, j \in DOMAIN page.got : i < j => page.got[i] < page.got[j]
    /\ page.pc = "ended" => page.due \subseteq ToSet(page.got)

(* The same of XNNEXT, whose answer is "value or last key, if there is second   *)
(* page".                                                                      *)
NextExact ==
  (page.cmd = "xnnext" /\ page.pc = "ended") => page.due \subseteq ToSet(page.got)

(* A sweep that changes expirations reads no pair, and answers no key, through a *)
(* pointer that a flush has made stale; and when the client has swept the range  *)
(* every pair of it is changed, though flushes restarted the scan.  A deletion   *)
(* has done so unless the pair of a key that it answered was gone (LastKeyKept).  *)
SweepSound ==
  /\ sweep.op # "delete" => sweep.fresh
  /\ sweep.pc = "ended" /\ ~ sweep.cut /\ sweep.fresh =>
       \A k \in sweep.want : db[k] = Apply(sweep.op, sweep.arg, db[k])

(* XNDEL and XRDEL answer the last key, "if there is second page", so who goes   *)
(* on from what they answer until they answer no key has deleted the range.      *)
LastKeyKept ==
  (sweep.pc = "ended" /\ ~ sweep.hash) =>
    \A k \in sweep.want : db[k] = Apply(sweep.op, sweep.arg, db[k])

(* The inductive invariant behind SweepSound: what the client may still expect *)
(* lies where the sweep has not been, in its batch, or where the next command   *)
(* starts.                                                                      *)

SweepTypes ==
  /\ db \in [Key -> [st : {"none", "dead", "ok"}, val : Int, exp : Int, mem : BOOLEAN]]
  /\ version \in {0, 1}
  /\ sweep \in [pc : {"none", "scan", "process", "giveup", "again", "ended", "failed", "died"},
                 op : {"delete", "persist", "expire", "expireat"}, arg : Int, key : Nat,
                 range : SUBSET Key, hash : BOOLEAN, todo : Seq(Key), ver : {0, 1},
                 passes : Nat, last : Nat, at : {"none", "list1", "older", "gone"}, want : SUBSET Key, fresh : BOOLEAN, cut : BOOLEAN]

RangeInv ==
  /\ \A i, j \in sweep.range : i .. j \subseteq sweep.range
  /\ sweep.want \subseteq sweep.range
  /\ sweep.want # {} /\ sweep.fresh => sweep.key \in sweep.range

Changed(k) == db[k] = Apply(sweep.op, sweep.arg, db[k])

ScanInv ==
  (sweep.pc \in {"scan", "giveup", "again"} /\ sweep.fresh) =>
    \A k \in sweep.want : Changed(k) \/ (isOK(k) /\ k >= sweep.key)

BatchInv ==
  sweep.pc = "process" =>
    /\ sweep.fresh => \A k \in sweep.want :
         \/ Changed(k)
         \/ isOK(k) /\ (k \in ToSet(sweep.todo) \/ (sweep.last # NoKey /\ k >= sweep.last))
    /\ \A k \in ToSet(sweep.todo) : k >= sweep.key
    /\ sweep.last # NoKey => sweep.last \in sweep.range /\ sweep.last >= sweep.key
    /\ sweep.op # "delete" => sweep.ver = version /\ sweep.at # "gone"

SweepInv == SweepTypes /\ RangeInv /\ ScanInv /\ BatchInv /\ SweepSound

(* The inductive invariant behind PagesExact: what the client may still expect *)
(* was delivered, or comes at or after the key it goes on from, which is after *)
(* all that was delivered.  No sweep runs while a client pages.                *)

PageTypes ==
  /\ page = [pc |-> page.pc, cmd |-> page.cmd, key |-> page.key, range |-> page.range,
             count |-> page.count, got |-> page.got, due |-> page.due]
  /\ page.pc \in {"off", "on", "next", "ended"}
  /\ page.pc # "off" => sweep.pc = "none"
  /\ page.pc = "next" => page.cmd = "xnnext"
  /\ page.cmd # "xnnext" =>
       /\ page.got \in Seq(Key) /\ page.due \subseteq page.range /\ page.range \subseteq Key
       /\ page.range = {} => page.got = <<>>
       /\ page.pc = "off" => page.due = {}

GotInv ==
  page.cmd # "xnnext" =>
    /\ \A i, j \in DOMAIN page.got : i < j => page.got[i] < page.got[j]
    /\ \A k \in page.due :
         isOK(k) /\ (k \in ToSet(page.got) \/ (page.pc = "on" /\ k >= page.key))

NextPageInv ==
  (page.pc = "on" /\ page.range # {}) =>
    /\ page.cmd \in {"xn", "xr", "xu", "xnboth", "xrboth", "xuboth"}
    /\ page.cmd \in {"xu", "xuboth"} => page.range = Key
    /\ \A i, j \in page.range : i .. j \subseteq page.range
    /\ page.key \in Key /\ page.count \in Nat
    /\ \E k \in page.range : k <= page.key
    /\ \A k \in ToSet(page.got) : k < page.key

PageInv == PageTypes /\ GotInv /\ NextPageInv

(* HDELALL and its like answer "1 if all keys are removed, 0 if keys remains".    *)
HashAnswerTrue ==
  (sweep.pc = "ended" /\ sweep.hash) =>
    \A k \in sweep.want : db[k] = Apply(sweep.op, sweep.arg, db[k])

(* A sweep that deletes, or whose pairs fit in the memory list, ends.            *)
SweepEnds ==
  (sweep.pc = "scan" /\ (sweep.op = "delete" \/ Cardinality(sweep.range) <= MemRoom))
     ~> (sweep.pc \in {"ended", "died"})

(* XRNEXT and XUNEXT show the next live pair, or say that there is none, or    *)
(* where to go on.                                                            *)
NextAgrees(r, key, end) ==
  LET after == {k \in key + 1 .. end : isOK(k)}
  IN  IF r.items = <<>> THEN r.tail = NoKey => after = {} ELSE r.items[1] = Min(after)

(* The accumulators, page after page, give what one pass over the live pairs of  *)
(* the range would give, and the commands on hashes, XRNEXT and XUNEXT see the   *)
(* same pairs (looked at while no command runs, in every database).           *)
AccumulatorsAgree ==
  (sweep.pc = "none" /\ page.pc = "on" /\ page.range = {}) => \A p \in Prefix :
    LET live    == {k \in p : isOK(k)}
        nums    == {db[k].val : k \in live}
        total   == MapThenSumSet(LAMBDA k : db[k].val, live)
        all(F(_)) ==                               \* all pages of a command
          LET P[k \in Key] == LET r == F(k)
                              IN  <<r.data>> \o (IF r.tail = NoKey THEN <<>> ELSE P[r.tail])
          IN  P[Min(p)]
        sum(q)  == FoldLeft(+, 0, q)
    IN  /\ sum(all(LAMBDA k : XNCOUNT(k, p))) = Cardinality(live)
        /\ sum(all(LAMBDA k : COUNT(k, 1, p))) = Cardinality(live)
        /\ sum(all(LAMBDA k : XRCOUNT(k, Max(p)))) = Cardinality(live)
        /\ sum(all(LAMBDA k : XNSUM(k, p))) = total
        /\ sum(all(LAMBDA k : SUM(k, 1, p))) = total
        /\ sum(all(LAMBDA k : XRSUM(k, Max(p)))) = total
        /\ MINPredicate(all(LAMBDA k : XNMIN(k, p))) = Min(nums \cup {Huge})
        /\ MINPredicate(all(LAMBDA k : XRMIN(k, Max(p)))) = Min(nums \cup {Huge})
        /\ MAXPredicate(all(LAMBDA k : XNMAX(k, p))) = Max(nums \cup {-Huge})
        /\ MAXPredicate(all(LAMBDA k : XRMAX(k, Max(p)))) = Max(nums \cup {-Huge})
        /\ \E a \in ToSet(all(LAMBDA k : XNAVG(k, p))) \cap ToSet(all(LAMBDA k : XRAVG(k, Max(p)))) :
             live # {} => a >= Min(nums) /\ (a <= Max(nums) \/ a = Huge)
        /\ LET f == SelectSeq(all(LAMBDA k : XNFIRST(k, p)), LAMBDA v : v # 0)
               l == SelectSeq(all(LAMBDA k : XNLAST(k, p)), LAMBDA v : v # 0)
           IN  live # {} =>
                 /\ f[1] = db[Min(live)].val /\ l[Len(l)] = db[Max(live)].val
                 /\ XRFIRST(Min(live), Max(p)).data = f[1]
                 /\ XRLAST(Max(live), Max(p)).data = l[Len(l)]
        /\ \A k \in Key :
             /\ NextAgrees(XRNEXT(k, Max(p)), k, Max(p))
             /\ NextAgrees(XUNEXT(k), k, Max(Key))
        /\ Cardinality({k \in Present : k \in p}) <= CountMax =>
             /\ HLEN(p) = Cardinality(live)
             /\ ToSet(HGETKEYS(p).items) = live /\ ToSet(HGETVALS(p).items) = nums
             /\ Len(HGETALL(p).items) = 2 * HLEN(p)
=============================================================================
