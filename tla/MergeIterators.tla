--------------------------- MODULE MergeIterators ---------------------------
(***************************************************************************)
(* Reading several lists as one (hm4/multi/): DualIterator over a memory   *)
(* list and the tables, CollectionIterator over all tables, and the lists  *)
(* that hand them out.                                                     *)
(*                                                                         *)
(* A list is the sequence of its pairs in the order of the keys, a pair is *)
(* [key, created, ts]; an iterator over one list is the rest of the list,  *)
(* and its end is the empty sequence.  Keys are numbers, 0 is no key.      *)
(***************************************************************************)
EXTENDS Integers, Sequences, SequencesExt, FiniteSetsExt

NoKey == 0

Sign(a, b) == IF a < b THEN -1 ELSE IF a > b THEN 1 ELSE 0

cmpTime(p, q) == Sign(p.created, q.created)

\* cmpWithTime(pair, false): by key, and the newer pair first.
cmpWithTime(p, q) == IF p.key # q.key THEN Sign(p.key, q.key) ELSE - cmpTime(p, q)

ListFind(list, key) == SelectSeq(list, LAMBDA p : p.key >= key)

getIterator(list, key) == IF key = NoKey THEN list ELSE ListFind(list, key)

\* comp of two IteratorPairs: what is at its end comes last.
comp(a, b) ==
    CASE a = << >> /\ b = << >> -> 0
      [] a = << >> /\ b # << >> -> 1
      [] a # << >> /\ b = << >> -> -1
      [] OTHER -> cmpWithTime(Head(a), Head(b))

---------------------------------------------------------------------------
(***************************************************************************)
(* DualIterator: which of the two is to move on, and the pair shown.       *)
(***************************************************************************)

updateDereference_(first, second) ==
    LET S(f, s, p) == [first |-> first, second |-> second, hit |-> <<f, s>>, pair |-> p]
        r  == Sign(Head(first).key, Head(second).key)
        rt == - cmpTime(Head(first), Head(second))
    IN  CASE first # << >> /\ second # << >> ->
                (CASE r < 0 -> S(TRUE, FALSE, {Head(first)})
                   [] r > 0 -> S(FALSE, TRUE, {Head(second)})
                   [] r = 0 /\ rt <= 0 -> S(TRUE, TRUE, {Head(first)})
                   [] OTHER -> S(TRUE, TRUE, {Head(second)}))
          [] first # << >> /\ second = << >> -> S(TRUE, FALSE, {Head(first)})
          [] first = << >> /\ second # << >> -> S(FALSE, TRUE, {Head(second)})
          [] OTHER -> S(FALSE, FALSE, {})

DualIterator(list1, list2, key) ==
    updateDereference_(getIterator(list1, key), getIterator(list2, key))

DualIncrement(it) ==
    updateDereference_(IF it.hit[1] THEN Tail(it.first) ELSE it.first,
                       IF it.hit[2] THEN Tail(it.second) ELSE it.second)

RECURSIVE DualRest(_)
DualRest(it) ==
    IF it.pair = {} THEN << >>
    ELSE <<CHOOSE p \in it.pair : TRUE>> \o DualRest(DualIncrement(it))

---------------------------------------------------------------------------
(***************************************************************************)
(* CollectionIterator: the iterators that are not at their end, as a heap  *)
(* whose front has the least key and, of that key, the newest pair.        *)
(***************************************************************************)

heap_comp(a, b) == comp(a, b) > 0

CollectionIterator(tables, key) ==
    SelectSeq([i \in DOMAIN tables |-> getIterator(tables[i], key)],
              LAMBDA itp : itp # << >>)

\* std::pop_heap: the place of an iterator no other one comes before.
HeapFront(itp) ==
    CHOOSE i \in DOMAIN itp : \A j \in DOMAIN itp : ~heap_comp(itp[i], itp[j])

CollectionPair(itp) == Head(itp[HeapFront(itp)])

\* Mutant: moves one pair on, which may be an older one of the same key.
incrementOnce(itp) ==
    LET front == HeapFront(itp)
        rest  == Tail(itp[front])
    IN  IF rest # << >> THEN [itp EXCEPT ![front] = rest] ELSE RemoveAt(itp, front)

\* increment_: on past every older pair of the key that was shown.
RECURSIVE increment_(_)
increment_(itp) ==
    LET front == HeapFront(itp)
        key   == Head(itp[front]).key
        rest  == Tail(itp[front])
        neo   == IF rest # << >> THEN [itp EXCEPT ![front] = rest]
                 ELSE RemoveAt(itp, front)
    IN  IF itp = << >> THEN << >>
        ELSE IF neo = << >> \/ key # CollectionPair(neo).key THEN neo
        ELSE increment_(neo)

RECURSIVE CollectionRest(_)
CollectionRest(itp) ==
    IF itp = << >> THEN << >>
    ELSE <<CollectionPair(itp)>> \o CollectionRest(increment_(itp))

---------------------------------------------------------------------------
(***************************************************************************)
(* CollectionList over the tables, DualList over the memory list and them. *)
(* A best pair is a set of at most one pair.                               *)
(***************************************************************************)

ListGet(list, key) == {p \in ToSet(list) : p.key = key}

\* ilist.h, getNewestPair_: of two equally old pairs the second.
getNewestPair_(a, b) ==
    IF a # {} /\ b # {}
    THEN IF \E p \in a, q \in b : cmpTime(p, q) > 0 THEN a ELSE b
    ELSE a \cup b

\* A table is passed over when the pair at hand is newer than its createdMax(),
\* which gives the time of its oldest pair.
TableGet(table, key, best) ==
    LET createdMax == Min({p.created : p \in ToSet(table)}) IN
    CASE best = {} -> ListGet(table, key)
      [] best # {} /\ (\E p \in best : p.created > createdMax) -> best
      [] OTHER -> getNewestPair_(ListGet(table, key), best)

collection_getPair___(tables, key, best) ==
    FoldLeft(LAMBDA b, table : TableGet(table, key, b), best, tables)

collection_size(tables) == FoldLeft(LAMBDA n, table : n + Len(table), 0, tables)

\* A disk list counts as never empty, so a collection of them is empty only
\* when it holds none.
collection_empty(tables) == Len(tables) = 0

dual_getPair___(list1, tables, key) ==
    collection_getPair___(tables, key, ListGet(list1, key))

dual_size(list1, tables) == Len(list1) + collection_size(tables)

dual_iterate(list1, tables, key) ==
    DualRest(DualIterator(list1, CollectionRest(CollectionIterator(tables, key)), key))

list_insertF(list, pair) ==
    SelectSeq(list, LAMBDA p : p.key < pair.key) \o <<pair>>
        \o SelectSeq(list, LAMBDA p : p.key > pair.key)

list_erase(list, key) == SelectSeq(list, LAMBDA p : p.key # key)

\* erase___ by the kind of erasing the list was made with.
dual_erase___(list1, tables, key, created, EraseType) ==
    LET insertTS == list_insertF(list1, [key |-> key, created |-> created, ts |-> TRUE])
    IN  CASE EraseType = "NORMAL" -> list_erase(list1, key)
          [] EraseType = "TOMBSTONE" -> insertTS
          [] OTHER -> IF collection_empty(tables) THEN list_erase(list1, key)
                      ELSE insertTS

\* db_merge: two tables through a DualList, more through a CollectionList;
\* tombstones are kept or left out.
mergeTables(tables, keep) ==
    SelectSeq(IF Len(tables) = 2
              THEN DualRest(DualIterator(tables[1], tables[2], NoKey))
              ELSE CollectionRest(CollectionIterator(tables, NoKey)),
              LAMBDA p : keep \/ ~p.ts)

---------------------------------------------------------------------------
(***************************************************************************)
(* db_compact_tombstones: which table is older than all others, so that    *)
(* its tombstones hide nothing.  A table is its range of times, Endless is *)
(* the greatest time.                                                      *)
(***************************************************************************)

Endless == 2 ^ 16

NoRange == [start |-> Endless, finish |-> Endless]

\* Range::compare of two ranges: 0 when they overlap.
RangeCompare(r, other) ==
    CASE r.finish < other.start -> -1 [] r.start > other.finish -> 1 [] OTHER -> 0

\* Range::compare with all times from start on.
EndlessCompare(r, start) == IF r.finish < start THEN -1 ELSE 0

\* EndlessRange::expand.
expand(start, r) == Min({start, r.start})

\* getInfo: createdMax() of a table gives createdMin().
getInfo(table) ==
    LET createdMin == Min({p.created : p \in ToSet(table)}) IN
    [start |-> createdMin, finish |-> createdMin]

\* TombstoneCalculator::insert_; payload 0 is no table.
insert_(tc, r, payload) ==
    LET i == RangeCompare(r, tc.current) IN
    CASE EndlessCompare(r, tc.forbidden) = 0 ->
            [tc EXCEPT !.forbidden = expand(@, r)]
      [] EndlessCompare(r, tc.forbidden) # 0 /\ i = 0 ->
            [forbidden |-> expand(expand(tc.forbidden, r), tc.current),
             current |-> NoRange, payload |-> 0]
      [] EndlessCompare(r, tc.forbidden) # 0 /\ i > 0 ->
            [tc EXCEPT !.forbidden = expand(@, r)]
      [] OTHER ->
            [forbidden |-> expand(tc.forbidden, tc.current),
             current |-> r, payload |-> payload]

\* analyze: the tables in the order of their names, which is any order.
analyze(tables, order) ==
    FoldLeft(LAMBDA tc, i : insert_(tc, getInfo(tables[i]), i),
             [forbidden |-> Endless, current |-> NoRange, payload |-> 0], order).payload

=============================================================================
