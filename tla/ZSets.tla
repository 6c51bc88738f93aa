-------------------------------- MODULE ZSets --------------------------------
(***************************************************************************)
(* The pairs of one name, as the commands that keep indexes see them, and    *)
(* members with indexes: shared_zset.h and the commands over it that need no *)
(* geometry, cmd_index.h and cmd_linearcurve.h.                              *)
(*                                                                         *)
(* A key is the sequence of tokens that the code joins with SEPARATOR behind *)
(* "name~".  '~' is greater than the letters and digits tokens are made of,  *)
(* so the empty token is the greatest one and control keys come last.        *)
(*                                                                         *)
(* A command is a sequence of writes.  No other command runs between them,   *)
(* but the process may end there: TXGuard undoes nothing.                    *)
(*                                                                         *)
(* A member has a control pair "name~~member" with its indexes, and one pair *)
(* for each way it can be searched.  Every change first erases the pairs the *)
(* control pair tells of.                                                    *)
(***************************************************************************)
EXTENDS Integers, Sequences, FiniteSets, SequencesExt, FiniteSetsExt

CONSTANTS
  Empty,                 \* the empty token
  ITERATIONS_LOOPS_MAX,  \* pairs that a search steps over before it gives up
  hashKeySort(_),        \* the token murmur_hash64a gives a member
  MaxCommands(_),        \* bound on the commands, by kind
  MaxCrashes(_)          \* bound on the crashes, by kind

VARIABLES
  kind,      \* the commands that are used with the name
  db,        \* the value under each key, <<>> for a pair that is dead
  todo,      \* the writes left of the command that runs
  doing,     \* for each member: what the command that runs does with it
  truth,     \* ... what the last command did with it
  torn,      \* ... the command with it that was cut off, and what came after other
             \*     than the same command again; Cut where that was cut off too
  commands, crashes

vars == <<kind, db, todo, doing, truth, torn, commands, crashes>>

Idle == todo = <<>>
Cut  == <<"cut">>

-----------------------------------------------------------------------------
(* Keys and their order.                                                     *)

Less(a, b) ==
  \/ IsStrictPrefix(a, b)
  \/ \E i \in 1 .. Min({Len(a), Len(b)}) :
       a[i] < b[i] /\ \A j \in 1 .. i - 1 : a[j] = b[j]

least(S) == CHOOSE k \in S : \A j \in S \ {k} : Less(k, j)

(* List::find: the pairs from this key on.                                   *)
find(d, key) == {k \in DOMAIN d : ~ Less(k, key)}

getPairVal(d, key) == IF key \in DOMAIN d THEN d[key] ELSE <<>>
isOK(d, key)       == getPairVal(d, key) # <<>>

NoTail == <<>>

(* sharedAccumulatePairs_ over the pairs from `from` on: the keys of the     *)
(* page, and the key at which the next one starts.                           *)
sharedAccumulatePairs(d, count, stop, from) ==
  LET all        == find(d, from)
      before(k)  == {j \in all : Less(j, k)}
      tired(k)   == Cardinality(before(k)) >= ITERATIONS_LOOPS_MAX
      full(k)    == isOK(d, k) /\ Cardinality({j \in before(k) : isOK(d, j)}) >= count
      ends       == {k \in all : tired(k) \/ k \in stop \/ full(k)}
  IN  IF ends = {}
      THEN [page |-> {k \in all : isOK(d, k)}, tail |-> NoTail]
      ELSE LET e == least(ends)
           IN  [page |-> {k \in before(e) : isOK(d, k)},
                tail |-> IF tired(e) \/ e \notin stop THEN e ELSE NoTail]

(* StopPrefixPredicate and StopRangePrefixPredicate: the keys they stop at.  *)
StopPrefix(d, prefix)   == {k \in DOMAIN d : ~ IsPrefix(prefix, k)}
StopRangePrefix(d, end) == {k \in DOMAIN d : Less(end, k) /\ ~ IsPrefix(end, k)}

(* StringTokenizer behind getForwardTokenizer: the first n tokens, the empty *)
(* one when there are no more.                                               *)
tokens(n, s) == [i \in 1 .. n |-> IF i <= Len(s) THEN s[i] ELSE Empty]

(* shared::extractnth::extractNth                                            *)
extractNth(n, s) == SubSeq(s, n + 1, Len(s))

(* shared::index_token::valid                                                *)
valid(ts) == \A i \in DOMAIN ts : ts[i] # Empty

-----------------------------------------------------------------------------
(* Writes.  One value for a set of keys: the code writes the keys one by     *)
(* one, in an order that only a crash could show.                            *)

insert(ks, v) == <<ks, v>>
erase(ks)     == <<ks, <<>>>>

Put(d, w) ==
  [k \in DOMAIN d \cup w[1] |-> IF k \in w[1] THEN w[2] ELSE d[k]]

PutAll(d, ws) == FoldLeft(Put, d, ws)

(* The writes of one call after another: the later reads what the earlier    *)
(* has written.                                                              *)
Writes(call(_, _), groups) ==
  FoldLeft(LAMBDA ws, g : ws \o call(PutAll(db, ws), g), <<>>, groups)

(* A command starts: it does what[m] with each member m.                     *)
Command(ws, what) ==
  /\ Idle /\ commands < MaxCommands(kind)
  /\ commands' = commands + 1
  /\ todo' = ws
  /\ doing' = IF ws = <<>> THEN <<>> ELSE what
  /\ truth' = [m \in DOMAIN truth |-> IF m \in DOMAIN what THEN what[m] ELSE truth[m]]
  /\ torn' = [m \in DOMAIN truth |->
                IF m \notin DOMAIN what THEN torn[m]
                ELSE IF torn[m] \in {<<>>, <<what[m]>>} THEN <<>>
                ELSE Append(torn[m], what[m])]
  /\ UNCHANGED <<kind, db, crashes>>

(* The next write.                                                           *)
Write ==
  /\ ~ Idle
  /\ db' = Put(db, Head(todo)) /\ todo' = Tail(todo)
  /\ doing' = IF Len(todo) = 1 THEN <<>> ELSE doing
  /\ UNCHANGED <<kind, truth, torn, commands, crashes>>

(* The process ends inside a command and starts again with what it had       *)
(* written.  The client does not know how far the command came.              *)
Crash ==
  /\ ~ Idle /\ crashes < MaxCrashes(kind)
  /\ crashes' = crashes + 1
  /\ \E done \in SUBSET Head(todo)[1] : db' = Put(db, <<done, Head(todo)[2]>>)
  /\ todo' = <<>> /\ doing' = <<>>
  /\ torn' = [m \in DOMAIN torn |->
                IF m \notin DOMAIN doing THEN torn[m]
                ELSE IF torn[m] = <<>> THEN <<doing[m]>> ELSE Append(torn[m], Cut)]
  /\ UNCHANGED <<kind, truth, commands>>

IndexInit(members) ==
  /\ db = [k \in {} |-> <<>>]
  /\ todo = <<>> /\ doing = <<>>
  /\ truth = [m \in members |-> <<>>] /\ torn = [m \in members |-> <<>>]
  /\ commands = 0 /\ crashes = 0

-----------------------------------------------------------------------------
(* shared::zset::makeKeyCtrl                                                 *)
makeKeyCtrl(sub) == <<Empty, sub>>

(* cmd_exists_shared.h: for the members of every kind with control pairs.    *)
EXISTS(sub)   == isOK(db, makeKeyCtrl(sub))
MEXISTS(subs) == [i \in DOMAIN subs |-> EXISTS(subs[i])]

-----------------------------------------------------------------------------
(* Permutation<N>: N fields and a sort field.  A field is a sequence of      *)
(* tokens, more than one if the client's text has a '~' in it.               *)

Injective(s) == \A i, j \in DOMAIN s : i # j => s[i] # s[j]

Orders(k, n) == {s \in [1 .. k -> 1 .. n] : Injective(s)}

(* The texts of Permutation<N>::for_each: every order of every choice of     *)
(* fields.  One of five fields is written ACEDC for ACEDB.                   *)
Permutation1 == Orders(0, 1) \cup Orders(1, 1)
Permutation2 == UNION {Orders(k, 2) : k \in 0 .. 2}
Permutation3 == UNION {Orders(k, 3) : k \in 0 .. 3}
Permutation4 == UNION {Orders(k, 4) : k \in 0 .. 4}
Permutation5UpTo3 == UNION {Orders(k, 5) : k \in 0 .. 3}
Permutation5Of4   == Orders(4, 5)
Permutation5Of5   == (Orders(5, 5) \ {<<1, 3, 5, 4, 2>>}) \cup {<<1, 3, 5, 4, 3>>}

Texts(n) ==
  CASE n = 1 -> Permutation1
    [] n = 2 -> Permutation2
    [] n = 3 -> Permutation3
    [] n = 4 -> Permutation4
    [] n = 5 -> Permutation5UpTo3 \cup Permutation5Of4 \cup Permutation5Of5

(* The text as a token: "_" is 0, "AB" is 12.                                *)
text(s) == FoldLeft(LAMBDA t, f : 10 * t + f, 0, s)

encodeIndex(indexes)   == FlattenSeq(indexes)
decodeIndex(n, val)    == [i \in 1 .. n |-> <<tokens(n, val)[i]>>]
validIndexes(indexes)  == \A i \in DOMAIN indexes : valid(indexes[i])

(* Permutation<N>::for_each's keys of a member.                              *)
makeKey(n, s, indexes, sub) ==
  <<text(s)>> \o FlattenSeq([i \in 1 .. n |-> IF i <= Len(s) THEN indexes[s[i]] ELSE <<Empty>>])
              \o indexes[n + 1] \o <<sub>>

(* Permutation<N>::makeKeyRange: the fields that are given, as many as the   *)
(* text names.                                                               *)
makeKeyRange(n, s, given) ==
  LET used == {i \in 1 .. Min({Len(s), Len(given)}) : \A j \in 1 .. i : given[j] # <<Empty>>}
  IN  <<text(s)>> \o FlattenSeq(SubSeq(given, 1, Cardinality(used)))

for_each(n, sub, indexes) == {makeKey(n, s, indexes, sub) : s \in Texts(n)}

(* Permutation1NoIndex: one index, which is the whole search key.            *)
makeKeyData(sub, ix)  == ix \o <<sub>>
makeKeyRangeN(ix)     == ix

-----------------------------------------------------------------------------
(* What add, rem and get are instantiated with: a number of fields, or one   *)
(* index that is the whole search key, kept in the control pair as it is     *)
(* (P1) or inside the line that GeoIndexController keeps (P1Geo).            *)

P1    == 0
P1Geo == -1

Count(p) == IF p > 0 THEN p + 1 ELSE 1

Keys(p, sub, indexes) ==
  IF p > 0 THEN for_each(p, sub, indexes) ELSE {makeKeyData(sub, indexes[1])}

(* impl_::encodeIndex and impl_::decodeIndex; a line is latitude, longitude  *)
(* and hash.                                                                 *)
encode(p, indexes, value) == IF p = P1Geo THEN value ELSE encodeIndex(indexes)
decode(p, val) ==
  IF p = P1Geo THEN <<SubSeq(val, 3, Len(val))>> ELSE decodeIndex(Count(p), val)

Ctrl(sub) == {makeKeyCtrl(sub)}

removePreviousIndexes(p, d, sub, indexes) ==
  LET ctrl == getPairVal(d, makeKeyCtrl(sub))
      old  == decode(p, ctrl)
  IN  IF ctrl = <<>> THEN <<>>
      ELSE IF ~ validIndexes(old) THEN <<erase(Ctrl(sub))>>
      ELSE IF old = indexes THEN <<>>
      ELSE <<erase(Keys(p, sub, old))>>

(* Mutant: the control pair is written before the pairs it tells of.         *)
addControlFirst(p, d, sub, indexes, value) ==
  <<insert(Ctrl(sub), encode(p, indexes, value))>>
    \o removePreviousIndexes(p, d, sub, indexes)
    \o <<insert(Keys(p, sub, indexes), value)>>

add(p, d, sub, indexes, value) ==
  removePreviousIndexes(p, d, sub, indexes)
    \o <<insert(Keys(p, sub, indexes), value),
         insert(Ctrl(sub), encode(p, indexes, value))>>

rem(p, d, sub) ==
  LET ctrl == getPairVal(d, makeKeyCtrl(sub))
      old  == decode(p, ctrl)
  IN  IF ctrl = <<>> THEN <<>>
      ELSE IF ~ validIndexes(old) THEN <<erase(Ctrl(sub))>>
      ELSE <<erase(Keys(p, sub, old)), erase(Ctrl(sub))>>

get(p, sub) ==
  LET ctrl == getPairVal(db, makeKeyCtrl(sub))
      ixs  == decode(p, ctrl)
  IN  IF ctrl = <<>> THEN <<>>
      ELSE IF p = P1Geo THEN ctrl
      ELSE IF validIndexes(ixs) THEN getPairVal(db, makeKeyData(sub, ixs[1]))
      ELSE <<>>

getIndexes(p, sub) ==
  LET ctrl == getPairVal(db, makeKeyCtrl(sub))
      ixs  == decode(p, ctrl)
  IN  IF ctrl # <<>> /\ validIndexes(ixs) THEN ixs ELSE <<>>

Gone == <<>>

(* shared::zset::cmdProcessRem                                               *)
cmdProcessRem(p, subs) ==
  Command(Writes(LAMBDA d, sub : rem(p, d, sub), subs), [m \in Range(subs) |-> Gone])

(* What the clients have put last: groups of a member, its indexes and its   *)
(* value.                                                                    *)
LastOf(groups) ==
  [m \in {groups[i][1] : i \in DOMAIN groups} |->
     LET g == groups[CHOOSE i \in DOMAIN groups :
                       groups[i][1] = m /\ \A j \in i + 1 .. Len(groups) : groups[j][1] # m]
     IN  <<g[2], g[3]>>]

AddAll(p, groups) ==
  Command(Writes(LAMBDA d, g : add(p, d, g[1], g[2], g[3]), groups), LastOf(groups))

-----------------------------------------------------------------------------
(* cmd_index.h: N fields, and a sort field that is a hash of the member if   *)
(* the client gives none.                                                    *)

makeHashKeySort(sub, raw) == IF raw = <<Empty>> THEN <<hashKeySort(sub)>> ELSE raw

(* groups of a member and its n + 1 texts.                                   *)
IX_ADD(n, groups) ==
  /\ \A i \in DOMAIN groups : validIndexes(groups[i][2])
  /\ AddAll(n, [i \in DOMAIN groups |->
       LET g == groups[i]
       IN  <<g[1], [g[2] EXCEPT ![n + 1] = makeHashKeySort(g[1], @)], <<g[1]>>>>])

IX_REM(n, subs) == cmdProcessRem(n, subs)

IX_GETINDEXES(n, sub) == getIndexes(n, sub)

(* The members of the page and where the next one starts.                    *)
IX_RANGE(n, s, given, count, start) ==
  LET prefix == makeKeyRange(n, s, given)
      r      == sharedAccumulatePairs(db, count, StopPrefix(db, prefix),
                                      IF start = NoTail THEN prefix ELSE start)
  IN  [members |-> {extractNth(n + 2, k)[1] : k \in r.page}, tail |-> r.tail]

-----------------------------------------------------------------------------
(* cmd_linearcurve.h: one coordinate, stored with 64 bits and searched with  *)
(* 32; a number that does not fit is read as 0.                              *)

CONSTANTS MaxX32, MaxX64
ASSUME WidthsAssumption == MaxX32 \in Nat /\ MaxX64 \in Nat /\ MaxX32 < MaxX64

from_string(max, x) == IF x > max THEN 0 ELSE x

toHex(x) == <<from_string(MaxX64, x)>>

MC1GET(sub)   == get(P1, sub)
MC1MGET(subs) == [i \in DOMAIN subs |-> get(P1, subs[i])]
MC1SCORE(sub) == getIndexes(P1, sub)

MC1ADD(groups) ==
  AddAll(P1, [i \in DOMAIN groups |-> <<groups[i][1], <<toHex(groups[i][2])>>, groups[i][3]>>])

MC1REM(subs) == cmdProcessRem(P1, subs)

(* The start key takes the place of the prefix, for find and for stop.       *)
linearSearchPoint(x, count, start) ==
  LET prefix == IF start = NoTail THEN makeKeyRangeN(<<x>>) ELSE start
  IN  sharedAccumulatePairs(db, count, StopPrefix(db, prefix), prefix)

linearSearch(min, max, count, start) ==
  sharedAccumulatePairs(db, count, StopRangePrefix(db, makeKeyRangeN(<<max>>)),
                        IF start = NoTail THEN makeKeyRangeN(<<min>>) ELSE start)

MC1POINT(x, count, start) == linearSearchPoint(from_string(MaxX32, x), count, start)

MC1RANGE(min, max, count, start) ==
  linearSearch(from_string(MaxX32, min), from_string(MaxX32, max), count, start)
=============================================================================
