----------------------------- MODULE SkipLists -----------------------------
(***************************************************************************)
(* The other memory lists of hm4/: SkipList, LinkList, VectorList and the  *)
(* unrolled SkipList and LinkList, whose nodes hold a PairVector.  Every   *)
(* operator carries the initials of its class (sl_, ll_, vl_, us_, ul_,    *)
(* pv_) and the name of the method.                                        *)
(*                                                                         *)
(* A linked list is [next, data]: next maps HEAD and every allocated node  *)
(* to its lanes, as many as the node is high; the code does not store that *)
(* height, and reading above it reads memory nobody wrote.  The links of   *)
(* a LinkList are those of a list with one lane.  A pair is a record       *)
(* [key, created, bytes]; HKey is the hash of the key's first characters,  *)
(* monotone in the key, and one in PaddedHKeys has an empty last byte.     *)
(* mem counts the allocations that still succeed.                          *)
(***************************************************************************)
EXTENDS Integers, Sequences, FiniteSets, TLC, BinarySearch, FiniteSetsExt

CONSTANTS MAX_HEIGHT,           \* lanes of a skip list
          UnrollingCapacity,    \* pairs in a node of an unrolled list
          PaddedHKeys           \* the HKeys of keys that are shorter

NIL == 0

HEAD == -1

HKey(key) == key \div 2

\* HPair::cmp: the hashes decide if they differ, or if their last byte is empty;
\* what is behind them is compared otherwise.  So of a key with such a hash no
\* more is told than the hash: it stands for the first key that has it.
Told(key) == IF HKey(key) \in PaddedHKeys THEN 2 * HKey(key) ELSE key

\* A node is reached when it does not sort before the key.  The code compares
\* the hashes first, which only saves the call.
NotBefore(nodeKey, key) == nodeKey >= Told(key)

Same(nodeKey, key) == Told(nodeKey) = Told(key)

isValidForReplace(pair, old) == pair.created >= old.created

tryUpdateInPlace(pair, old) == old.bytes >= pair.bytes

FreshNode(s) == Min((1..(Cardinality(DOMAIN s.data) + 1)) \ DOMAIN s.data)

EmptyList(lanes) == [next |-> (HEAD :> [h \in 1..lanes |-> NIL]), data |-> << >>]

ForgetNode(f, x) == [y \in DOMAIN f \ {x} |-> f[y]]

AddNode(f, x, v) == [y \in DOMAIN f \cup {x} |-> IF y = x THEN v ELSE f[y]]

Answer(s, status) == [s |-> s, status |-> status]

---------------------------------------------------------------------------
(***************************************************************************)
(* PairVector: a sorted array of at most UnrollingCapacity pairs.          *)
(***************************************************************************)

pv_locate(v, key) ==
    binarySearch([i \in 1..Len(v) |-> Compare(Told(v[i].key), Told(key))], 1, Len(v) + 1, 0)

pv_full(v) == Len(v) = UnrollingCapacity

pv_back(v) == v[Len(v)]

shiftR_(v, it, pair) == SubSeq(v, 1, it - 1) \o <<pair>> \o SubSeq(v, it, Len(v))

shiftL_(v, it) == SubSeq(v, 1, it - 1) \o SubSeq(v, it + 1, Len(v))

\* split: the upper half moves to the empty vector other.
pv_split(v) ==
    LET len == Len(v) \div 2 IN
    [data |-> SubSeq(v, 1, len), other |-> SubSeq(v, len + 1, Len(v))]

pv_merge(v, other) == v \o other

\* insertF: [v, status]; an array that is full already throws bad_alloc.
pv_insertF(v, pair, mem) ==
    LET loc == pv_locate(v, pair.key)
        R(w, status) == [v |-> w, status |-> status]
    IN  CASE loc.found /\ ~isValidForReplace(pair, v[loc.it]) ->
                R(v, "SKIP_INSERTED")
          [] loc.found /\ isValidForReplace(pair, v[loc.it])
                       /\ tryUpdateInPlace(pair, v[loc.it]) ->
                R([v EXCEPT ![loc.it] = pair], "UPDATED_IN_PLACE")
          [] loc.found /\ isValidForReplace(pair, v[loc.it])
                       /\ ~tryUpdateInPlace(pair, v[loc.it]) ->
                IF mem = 0 THEN R(v, "ERROR_NO_MEMORY")
                ELSE R([v EXCEPT ![loc.it] = pair], "REPLACED")
          [] ~loc.found /\ pv_full(v) -> R(v, "BAD_ALLOC")
          [] ~loc.found /\ ~pv_full(v) /\ mem = 0 -> R(v, "ERROR_NO_MEMORY")
          [] OTHER -> R(shiftR_(v, loc.it, pair), "INSERTED")

pv_erase(v, key) ==
    LET loc == pv_locate(v, key) IN
    [v |-> IF loc.found THEN shiftL_(v, loc.it) ELSE v, found |-> loc.found]

---------------------------------------------------------------------------
(***************************************************************************)
(* SkipList.  jt is the node whose lanes the code points jtable at.        *)
(***************************************************************************)

\* getRandomHeight_: some height from one to MAX_HEIGHT.
getRandomHeight_ == 1..MAX_HEIGHT

RECURSIVE sl_lane(_, _, _, _)
sl_lane(s, h, jt, key) ==
    LET x == s.next[jt][h] IN
    IF x = NIL \/ NotBefore(s.data[x].key, key)
    THEN [jt |-> jt, node |-> x]
    ELSE sl_lane(s, h, x, key)

\* locate_: from the highest lane down; prev[h] is where lane h is cut.
RECURSIVE sl_locateFrom(_, _, _, _, _)
sl_locateFrom(s, h, key, shortcut, nl) ==
    LET w     == sl_lane(s, h, nl.jt, key)
        equal == w.node # NIL /\ Same(s.data[w.node].key, key)
        nl1   == [nl EXCEPT !.jt = w.jt,
                            !.node = IF equal THEN w.node ELSE @]
        nl2   == [nl1 EXCEPT !.prev[h] = w.jt]
    IN  CASE equal /\ shortcut -> nl1
          [] ~(equal /\ shortcut) /\ h = 1 -> nl2
          [] OTHER -> sl_locateFrom(s, h - 1, key, shortcut, nl2)

sl_locate_(s, key, shortcut) ==
    sl_locateFrom(s, MAX_HEIGHT, key, shortcut,
                  [jt |-> HEAD, node |-> NIL, prev |-> [h \in 1..MAX_HEIGHT |-> NIL]])

RECURSIVE sl_findFrom(_, _, _, _)
sl_findFrom(s, h, jt, key) ==
    LET w == sl_lane(s, h, jt, key) IN
    IF h = 1 \/ (w.node # NIL /\ Same(s.data[w.node].key, key)) THEN w.node
    ELSE sl_findFrom(s, h - 1, w.jt, key)

sl_find(s, key) == sl_findFrom(s, MAX_HEIGHT, HEAD, key)

sl_getPair___(s, key) ==
    LET x == sl_find(s, key) IN
    IF x # NIL /\ Same(s.data[x].key, key) THEN {s.data[x]} ELSE {}

\* exchange newnode with what prev[i] points at, on the lanes below height.
ConnectNode(s, x, prev, height, v) ==
    LET lanes == [h \in 1..height |-> s.next[prev[h]][h]]
        cut   == [y \in DOMAIN s.next |->
                    [h \in DOMAIN s.next[y] |->
                        IF h <= height /\ prev[h] = y THEN x ELSE s.next[y][h]]]
    IN  [next |-> AddNode(cut, x, lanes), data |-> AddNode(s.data, x, v)]

\* The node leaves the lanes it is on, up to the first one it is not on.
DisconnectNode(s, x, prev) ==
    LET On(h)  == s.next[prev[h]][h] = x
        height == Max({0} \cup {k \in 1..Len(prev) : \A h \in 1..k : On(h)})
        cut    == [y \in DOMAIN s.next |->
                    [h \in DOMAIN s.next[y] |->
                        IF h <= height /\ prev[h] = y
                        THEN s.next[x][h] ELSE s.next[y][h]]]
    IN  [next |-> ForgetNode(cut, x), data |-> ForgetNode(s.data, x)]

\* The pair of a node that holds the key already.
UpdatePair(s, x, pair, mem) ==
    CASE ~isValidForReplace(pair, s.data[x]) -> Answer(s, "SKIP_INSERTED")
      [] isValidForReplace(pair, s.data[x]) /\ tryUpdateInPlace(pair, s.data[x]) ->
            Answer([s EXCEPT !.data[x] = pair], "UPDATED_IN_PLACE")
      [] isValidForReplace(pair, s.data[x]) /\ ~tryUpdateInPlace(pair, s.data[x])
                                            /\ mem = 0 ->
            Answer(s, "ERROR_NO_MEMORY")
      [] OTHER -> Answer([s EXCEPT !.data[x] = pair], "REPLACED")

sl_insertF(s, pair, height, mem) ==
    LET nl == sl_locate_(s, pair.key, TRUE) IN
    CASE nl.node # NIL -> UpdatePair(s, nl.node, pair, mem)
      [] nl.node = NIL /\ mem < 2 -> Answer(s, "ERROR_NO_MEMORY")
      [] OTHER -> Answer(ConnectNode(s, FreshNode(s), nl.prev, height, pair),
                         "INSERTED")

sl_erase___(s, key) ==
    LET nl == sl_locate_(s, key, FALSE) IN
    IF nl.node = NIL THEN Answer(s, "SKIP_DELETED")
    ELSE Answer(DisconnectNode(s, nl.node, nl.prev), "DELETED")

RECURSIVE NodesFrom(_, _, _)
NodesFrom(s, x, h) ==
    IF x = NIL THEN << >> ELSE <<x>> \o NodesFrom(s, s.next[x][h], h)

\* begin() and ++: lane 0 of the code.
sl_iterate(s, x) ==
    LET nodes == NodesFrom(s, x, 1) IN [i \in 1..Len(nodes) |-> s.data[nodes[i]]]

\* clear: the nodes freed, in order, then the heads set to null.
sl_clear(s) == [s |-> EmptyList(MAX_HEIGHT), freed |-> NodesFrom(s, s.next[HEAD][1], 1)]

---------------------------------------------------------------------------
(***************************************************************************)
(* LinkList.                                                               *)
(***************************************************************************)

ll_locate_(s, key) ==
    LET w == sl_lane(s, 1, HEAD, key) IN
    [prev |-> <<w.jt>>,
     node |-> IF w.node # NIL /\ Same(s.data[w.node].key, key) THEN w.node ELSE NIL]

ll_insertF(s, pair, mem) ==
    LET nl == ll_locate_(s, pair.key) IN
    CASE nl.node # NIL -> UpdatePair(s, nl.node, pair, mem)
      [] nl.node = NIL /\ mem < 2 -> Answer(s, "ERROR_NO_MEMORY")
      [] OTHER -> Answer(ConnectNode(s, FreshNode(s), nl.prev, 1, pair), "INSERTED")

ll_erase___(s, key) ==
    LET nl == ll_locate_(s, key) IN
    IF nl.node = NIL THEN Answer(s, "SKIP_DELETED")
    ELSE Answer(DisconnectNode(s, nl.node, nl.prev), "DELETED")

ll_find(s, key) == sl_lane(s, 1, HEAD, key).node

ll_getPair___(s, key) ==
    LET x == ll_find(s, key) IN
    IF x # NIL /\ Same(s.data[x].key, key) THEN {s.data[x]} ELSE {}

ll_iterate(s, x) == sl_iterate(s, x)

ll_clear(s) == [s |-> EmptyList(1), freed |-> NodesFrom(s, s.next[HEAD][1], 1)]

---------------------------------------------------------------------------
(***************************************************************************)
(* VectorList: a sorted std::vector of pairs.                              *)
(***************************************************************************)

vl_search(v, key) ==
    binarySearch([i \in 1..Len(v) |-> Compare(v[i].key, key)], 1, Len(v) + 1, 5)

vl_find(v, key) == vl_search(v, key).it

vl_getPair___(v, key) ==
    LET r == vl_search(v, key) IN IF r.found THEN {v[r.it]} ELSE {}

vl_insertF(v, pair, mem) ==
    LET r == vl_search(v, pair.key)
        old == v[r.it]
    IN  CASE r.found /\ ~isValidForReplace(pair, old) -> Answer(v, "SKIP_INSERTED")
          [] r.found /\ isValidForReplace(pair, old) /\ tryUpdateInPlace(pair, old) ->
                Answer([v EXCEPT ![r.it] = pair], "UPDATED_IN_PLACE")
          [] r.found /\ isValidForReplace(pair, old) /\ ~tryUpdateInPlace(pair, old) ->
                IF mem = 0 THEN Answer(v, "ERROR_NO_MEMORY")
                ELSE Answer([v EXCEPT ![r.it] = pair], "REPLACED")
          [] ~r.found /\ mem = 0 -> Answer(v, "ERROR_NO_MEMORY")
          [] OTHER -> Answer(shiftR_(v, r.it, pair), "INSERTED")

vl_erase___(v, key) ==
    LET r == vl_search(v, key) IN
    IF r.found THEN Answer(shiftL_(v, r.it), "DELETED")
    ELSE Answer(v, "SKIP_DELETED")

vl_clear(v) == [s |-> << >>, freed |-> v]

---------------------------------------------------------------------------
(***************************************************************************)
(* UnrolledSkipList: a node sorts by the last pair of its vector.          *)
(***************************************************************************)

NodeKey(s, x) == pv_back(s.data[x]).key

RECURSIVE us_lane(_, _, _, _, _)
us_lane(s, h, jt, key, last) ==
    LET x == s.next[jt][h] IN
    CASE x = NIL -> [jt |-> jt, node |-> NIL]
      [] x # NIL /\ last /\ h = 1 /\ s.next[x][1] = NIL ->
            [jt |-> jt, node |-> x]     \* the last node takes what is greater
      [] x # NIL /\ ~(last /\ h = 1 /\ s.next[x][1] = NIL)
                 /\ NotBefore(NodeKey(s, x), key) ->
            [jt |-> jt, node |-> x]
      [] OTHER -> us_lane(s, h, x, key, last)

RECURSIVE us_locateFrom(_, _, _, _, _)
us_locateFrom(s, h, key, shortcut, nl) ==
    LET w   == us_lane(s, h, nl.jt, key, TRUE)
        hit == /\ shortcut /\ w.node # NIL /\ Same(NodeKey(s, w.node), key)
               /\ ~(h = 1 /\ s.next[w.node][1] = NIL)
        nl1 == [nl EXCEPT !.jt = w.jt,
                          !.node = IF w.node # NIL THEN w.node ELSE @]
        nl2 == [nl1 EXCEPT !.prev[h] = w.jt]
    IN  CASE hit -> [nl1 EXCEPT !.found = TRUE]
          [] ~hit /\ h = 1 -> nl2
          [] OTHER -> us_locateFrom(s, h - 1, key, shortcut, nl2)

us_locate_(s, key, shortcut) ==
    us_locateFrom(s, MAX_HEIGHT, key, shortcut,
                  [jt |-> HEAD, node |-> NIL, found |-> FALSE,
                   prev |-> [h \in 1..MAX_HEIGHT |-> NIL]])

\* data.insertF on the vector of node x.
InsertInNode(s, x, pair, mem) ==
    LET r == pv_insertF(s.data[x], pair, mem) IN
    Answer([s EXCEPT !.data[x] = r.v], r.status)

\* A node of its own for the first pair, connected only if the pair is stored.
us_newNode(s, pair, prev, height, mem) ==
    IF mem < 2 THEN Answer(s, "ERROR_NO_MEMORY")
    ELSE Answer(ConnectNode(s, FreshNode(s), prev, height, <<pair>>), "INSERTED")

\* The new node is connected in front, takes everything over and gives the
\* upper half back; then the pair goes where the split says.
us_splitNode(s, node, pair, prev, height, mem) ==
    LET x     == FreshNode(s)
        s1    == ConnectNode(s, x, prev, height, << >>)
        half  == pv_split(pv_merge(s1.data[x], s1.data[node]))
        s2    == [s1 EXCEPT !.data[x] = half.data, !.data[node] = half.other]
    IN  CASE mem = 0 -> Answer(s, "ERROR_NO_MEMORY")
          [] mem > 0 /\ NotBefore(NodeKey(s2, x), pair.key) ->
                InsertInNode(s2, x, pair, mem - 1)
          [] OTHER -> InsertInNode(s2, node, pair, mem - 1)

us_insertF(s, pair, height, mem) ==
    LET nl == us_locate_(s, pair.key, TRUE) IN
    CASE nl.found -> InsertInNode(s, nl.node, pair, mem)
      [] ~nl.found /\ nl.node = NIL -> us_newNode(s, pair, nl.prev, height, mem)
      [] ~nl.found /\ nl.node # NIL /\ pv_full(s.data[nl.node]) ->
            us_splitNode(s, nl.node, pair, nl.prev, height, mem)
      [] OTHER -> InsertInNode(s, nl.node, pair, mem)

us_erase___(s, key) ==
    LET nl == us_locate_(s, key, FALSE)
        r  == pv_erase(s.data[nl.node], key)
        s1 == [s EXCEPT !.data[nl.node] = r.v]
    IN  CASE nl.node = NIL -> Answer(s, "SKIP_DELETED")
          [] nl.node # NIL /\ ~r.found -> Answer(s, "SKIP_DELETED")
          [] nl.node # NIL /\ r.found /\ Len(r.v) > 0 -> Answer(s1, "DELETED")
          [] OTHER -> Answer(DisconnectNode(s1, nl.node, nl.prev), "DELETED")

\* fix_iterator_: an iterator past the vector of its node moves to the next.
us_fix_iterator_(s, x, it) ==
    CASE it <= Len(s.data[x]) -> <<x, it>>
      [] it > Len(s.data[x]) /\ s.next[x][1] = NIL -> <<NIL, 1>>
      [] OTHER -> <<s.next[x][1], 1>>

\* find_: <<node, position>>, <<NIL, 1>> for end().
RECURSIVE us_findFrom(_, _, _, _, _)
us_findFrom(s, h, jt, key, exact) ==
    LET w     == us_lane(s, h, jt, key, FALSE)
        x     == w.node
        loc   == pv_locate(s.data[x], key)
    IN  CASE x # NIL /\ Same(NodeKey(s, x), key) -> <<x, Len(s.data[x])>>
          [] ~(x # NIL /\ Same(NodeKey(s, x), key)) /\ h > 1 ->
                us_findFrom(s, h - 1, w.jt, key, exact)
          [] x = NIL /\ h = 1 -> <<NIL, 1>>
          [] OTHER ->
                IF exact
                THEN (IF loc.found THEN <<x, loc.it>> ELSE <<NIL, 1>>)
                ELSE us_fix_iterator_(s, x, loc.it)

us_find(s, key) == us_findFrom(s, MAX_HEIGHT, HEAD, key, FALSE)

us_getPair___(s, key) ==
    LET it == us_findFrom(s, MAX_HEIGHT, HEAD, key, TRUE) IN
    IF it[1] = NIL THEN {} ELSE {s.data[it[1]][it[2]]}

us_begin(s) == <<s.next[HEAD][1], 1>>

us_next(s, it) ==
    IF it[2] < Len(s.data[it[1]]) THEN <<it[1], it[2] + 1>>
    ELSE <<s.next[it[1]][1], 1>>

RECURSIVE us_iterate(_, _)
us_iterate(s, it) ==
    IF it[1] = NIL THEN << >>
    ELSE <<s.data[it[1]][it[2]]>> \o us_iterate(s, us_next(s, it))

us_clear(s) == [s |-> EmptyList(MAX_HEIGHT), freed |-> NodesFrom(s, s.next[HEAD][1], 1)]

---------------------------------------------------------------------------
(***************************************************************************)
(* UnrolledLinkList.                                                       *)
(***************************************************************************)

ul_locate_(s, key) ==
    LET w == us_lane(s, 1, HEAD, key, TRUE) IN
    [prev  |-> <<w.jt>>, node |-> w.node,
     found |-> /\ w.node # NIL /\ s.next[w.node][1] # NIL
               /\ Same(NodeKey(s, w.node), key)]

\* The new node goes behind the full one and takes its upper half.
ul_splitNode(s, node, pair, mem) ==
    LET x    == FreshNode(s)
        s1   == ConnectNode(s, x, <<node>>, 1, << >>)
        half == pv_split(s.data[node])
        s2   == [s1 EXCEPT !.data[node] = half.data, !.data[x] = half.other]
    IN  CASE mem = 0 -> Answer(s, "ERROR_NO_MEMORY")
          [] mem > 0 /\ NotBefore(NodeKey(s2, node), pair.key) ->
                InsertInNode(s2, node, pair, mem - 1)
          [] OTHER -> InsertInNode(s2, x, pair, mem - 1)

ul_insertF(s, pair, mem) ==
    LET nl == ul_locate_(s, pair.key) IN
    CASE nl.found -> InsertInNode(s, nl.node, pair, mem)
      [] ~nl.found /\ nl.node = NIL -> us_newNode(s, pair, nl.prev, 1, mem)
      [] ~nl.found /\ nl.node # NIL /\ pv_full(s.data[nl.node]) ->
            ul_splitNode(s, nl.node, pair, mem)
      [] OTHER -> InsertInNode(s, nl.node, pair, mem)

ul_erase___(s, key) ==
    LET nl == ul_locate_(s, key)
        r  == pv_erase(s.data[nl.node], key)
        s1 == [s EXCEPT !.data[nl.node] = r.v]
    IN  CASE nl.node = NIL -> Answer(s, "SKIP_DELETED")
          [] nl.node # NIL /\ ~r.found -> Answer(s, "SKIP_DELETED")
          [] nl.node # NIL /\ r.found /\ Len(r.v) > 0 -> Answer(s1, "DELETED")
          [] OTHER -> Answer(DisconnectNode(s1, nl.node, nl.prev), "DELETED")

\* Past the vector of a node the code pairs the next node with the first
\* pair of the old one; a search never gets here, for it only enters a node
\* whose last pair is not before the key.
ul_fix_iterator_(s, x, it) ==
    CASE it <= Len(s.data[x]) -> [node |-> x, pair |-> s.data[x][it]]
      [] it > Len(s.data[x]) /\ s.next[x][1] = NIL -> [node |-> NIL]
      [] OTHER -> [node |-> s.next[x][1], pair |-> s.data[x][1]]

\* find_: the node and the position in it, or end().
ul_search(s, key) ==
    LET x == us_lane(s, 1, HEAD, key, FALSE).node IN
    CASE x = NIL -> <<NIL, 1>>
      [] x # NIL /\ Same(NodeKey(s, x), key) -> <<x, Len(s.data[x])>>
      [] OTHER -> <<x, pv_locate(s.data[x], key).it>>

ul_find(s, key) ==
    LET it == ul_search(s, key) IN
    IF it[1] = NIL THEN [node |-> NIL] ELSE ul_fix_iterator_(s, it[1], it[2])

ul_getPair___(s, key) ==
    LET it == ul_search(s, key) IN
    IF it[1] # NIL /\ Same(s.data[it[1]][it[2]].key, key)
    THEN {s.data[it[1]][it[2]]} ELSE {}

ul_iterate(s, it) == us_iterate(s, it)

ul_clear(s) == [s |-> EmptyList(1), freed |-> NodesFrom(s, s.next[HEAD][1], 1)]

=============================================================================
