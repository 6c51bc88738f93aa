------------------------------- MODULE Lists -------------------------------
(***************************************************************************)
(* The lists of hm4/ in use: pairs are written, replaced, erased and read  *)
(* in a list of one kind, pairs are spread over a memory list and tables,  *)
(* a table is written pair by pair.  ref is what a client knows from the   *)
(* answers it got, and every list is held against it.                      *)
(***************************************************************************)
EXTENDS Integers, Sequences, FiniteSets, SequencesExt, FiniteSetsExt

CONSTANTS
    Kinds,              \* the lists that are looked at
    Keys(_),            \* kind -> keys of its pairs
    Versions(_),        \* key -> pairs [created, bytes] that are written for it
    Plans,              \* orders in which large trees are filled
    MaxErases,          \* erases from a large tree
    Texts,              \* keys of an unsorted list, sequences of characters
    MaxUnsorted,        \* pairs in an unsorted list
    MaxTime,            \* writes to a list and its tables
    EraseTypes,         \* how a DualList erases
    TableKeys,          \* keys of small tables, in order
    LongKeys,           \* keys of a table that needs a tree of two levels, in order
    LongStart,          \* how many of them are written to begin with
    Probes,             \* keys that tables are searched for
    Replays,            \* keys of longer unsorted lists, in the order of a log
    Capacities,         \* nodes that the buffer of the hash index builder holds
    MAX_HEIGHT, UnrollingCapacity, PaddedHKeys, InsertionMax, CutoffDeep,
    CharBase, HPairN, ALIGN, PairHead, MinimumDistance, OpenAddresses, MinHashNodes,
    SMALL_PRIMES, murmur_hash64a(_)

VARIABLES
    kind,       \* the list that this behaviour is about
    st,         \* its state
    ref,        \* what a client expects to find
    right,      \* the last answer was the right one
    now         \* the clock

vars == <<kind, st, ref, right, now>>

AVL == INSTANCE AVLTree
SL  == INSTANCE SkipLists
US  == INSTANCE UnsortedLists
MI  == INSTANCE MergeIterators
DS  == INSTANCE DiskSearch

ASSUME ListsAssumption ==
    /\ DS!SearchAssumption
    /\ {MAX_HEIGHT, UnrollingCapacity, InsertionMax, CutoffDeep} \subseteq Nat \ {0}
    /\ {MaxErases, MaxUnsorted, MaxTime} \subseteq Nat
    /\ LongStart \in 0 .. Len(LongKeys)
    \* the sort compares characters as the signed char of the build
    /\ \A text \in Texts : \A i \in DOMAIN text : text[i] \in 0 .. 127
    /\ \A log \in Replays : ToSet(log) \subseteq Texts

Trees == {"avl", "deep"}
Linked == {"skip", "uskip", "ulink", "link"}
MapKinds == Trees \cup Linked \cup {"vector"}

---------------------------------------------------------------------------
(* A list on its own: what the answers say is what is in it.              *)

\* Keys without NULs: an HKey with an empty last byte is that of one key.  The
\* linked lists take two keys with such an HKey for one.
ASSUME DistinctHKeys ==
    \A kind_ \in Kinds \cap Linked : \A k, l \in Keys(kind_) :
        (k # l /\ SL!HKey(k) = SL!HKey(l)) => SL!HKey(k) \notin PaddedHKeys

Pair(k, v) == [key |-> k, created |-> v.created, bytes |-> v.bytes]

Known(k) == ref[k] # {}

\* The client believes the answer; it is wrong when a pair is refused that is
\* not older than the one there, or for want of memory that was not wanting.
BelieveInsert(k, v, status, mem) ==
    /\ ref' = IF status \in {"INSERTED", "REPLACED", "UPDATED_IN_PLACE"}
              THEN [ref EXCEPT ![k] = {v}] ELSE ref
    /\ right' = LET older == \E old \in ref[k] : old.created > v.created IN
                CASE status = "SKIP_INSERTED" -> older
                  [] status = "INSERTED" -> ~Known(k)
                  [] status \in {"REPLACED", "UPDATED_IN_PLACE"} -> Known(k) /\ ~older
                  [] status = "ERROR_NO_MEMORY" -> mem < 2
                  [] OTHER -> FALSE

BelieveErase(k, status) ==
    /\ ref' = IF status = "DELETED" THEN [ref EXCEPT ![k] = {}] ELSE ref
    /\ right' = ((status = "DELETED") = Known(k))

AVLInsert ==
    /\ kind = "avl"
    /\ \E k \in Keys(kind) : \E v \in Versions(k), mem \in {0, 2} :
         LET r == AVL!insertF(st, k, v, mem > 0) IN
         st' = r.t /\ BelieveInsert(k, v, r.status, mem)
    /\ UNCHANGED <<kind, now>>

AVLErase ==
    /\ kind \in Trees
    /\ kind = "deep" => now < MaxErases
    /\ \E k \in Keys(kind) :
         LET r == AVL!erase___(st, k) IN st' = r.t /\ BelieveErase(k, r.status)
    /\ now' = IF kind = "deep" THEN now + 1 ELSE now
    /\ UNCHANGED kind

SkipInsert ==
    /\ kind \in {"skip", "uskip"}
    /\ \E k \in Keys(kind), h \in SL!getRandomHeight_ :
         \E v \in Versions(k), mem \in 0 .. 2 :
            LET r == IF kind = "skip" THEN SL!sl_insertF(st, Pair(k, v), h, mem)
                     ELSE SL!us_insertF(st, Pair(k, v), h, mem)
            IN  st' = r.s /\ BelieveInsert(k, v, r.status, mem)
    /\ UNCHANGED <<kind, now>>

LinkInsert ==
    /\ kind \in {"link", "ulink", "vector"}
    /\ \E k \in Keys(kind) : \E v \in Versions(k), mem \in 0 .. 2 :
         LET r == CASE kind = "link"   -> SL!ll_insertF(st, Pair(k, v), mem)
                    [] kind = "ulink"  -> SL!ul_insertF(st, Pair(k, v), mem)
                    [] kind = "vector" -> SL!vl_insertF(st, Pair(k, v), mem)
         IN  st' = r.s /\ BelieveInsert(k, v, r.status, mem)
    /\ UNCHANGED <<kind, now>>

ListErase ==
    /\ kind \in Linked \cup {"vector"}
    /\ \E k \in Keys(kind) :
         LET r == CASE kind = "skip"   -> SL!sl_erase___(st, k)
                    [] kind = "uskip"  -> SL!us_erase___(st, k)
                    [] kind = "ulink"  -> SL!ul_erase___(st, k)
                    [] kind = "link"   -> SL!ll_erase___(st, k)
                    [] kind = "vector" -> SL!vl_erase___(st, k)
         IN  st' = r.s /\ BelieveErase(k, r.status)
    /\ UNCHANGED <<kind, now>>

\* clear(): right if every node was freed, and freed once.
Clear ==
    /\ kind \in MapKinds \ {"deep"}
    /\ LET r == CASE kind = "avl"    -> AVL!clear(st)
                  [] kind = "skip"   -> SL!sl_clear(st)
                  [] kind = "uskip"  -> SL!us_clear(st)
                  [] kind = "ulink"  -> SL!ul_clear(st)
                  [] kind = "link"   -> SL!ll_clear(st)
                  [] kind = "vector" -> SL!vl_clear(st)
           held == CASE kind = "avl" -> DOMAIN st.n
                     [] kind = "vector" -> ToSet(st)
                     [] OTHER -> DOMAIN st.data
       IN  /\ st' = IF kind = "avl" THEN r.t ELSE r.s
           /\ right' = (IsInjective(r.freed) /\ ToSet(r.freed) = held)
    /\ ref' = [k \in DOMAIN ref |-> {}]
    /\ UNCHANGED <<kind, now>>

---------------------------------------------------------------------------
(* An unsorted list, filled from a binary log whose times may go back.     *)

LogTime(i) == (5 * i) % 7

\* The pair of a key that a log leaves: of the newest ones, the last.
NewestOf(v, text) ==
    {v[i] : i \in {j \in DOMAIN v :
        /\ v[j].key = text
        /\ \A l \in DOMAIN v : v[l].key = text =>
              v[l].created < v[j].created \/ (v[l].created = v[j].created /\ l <= j)}}

UnsortedInsert ==
    /\ kind = "unsorted" /\ now < MaxUnsorted
    /\ \E text \in Texts, mem \in 0 .. 1 :
         LET pair == [key |-> text, created |-> LogTime(now + 1)] IN
         /\ st' = US!ut_insertF(st, pair, mem)
         /\ ref' = IF mem = 0 THEN ref
                   ELSE [ref EXCEPT ![text] =
                            IF \E p \in @ : p.created > pair.created THEN @ ELSE {pair}]
    /\ now' = now + 1
    /\ UNCHANGED <<kind, right>>

UnsortedFlush ==
    /\ kind = "unsorted" /\ st.needSort
    /\ st' = US!prepareFlush(st)
    /\ UNCHANGED <<kind, ref, right, now>>

UnsortedClear ==
    /\ kind = "unsorted" /\ ~st.needSort
    /\ st' = US!ut_clear(st)
    /\ ref' = [text \in Texts |-> {}]
    /\ UNCHANGED <<kind, right, now>>

---------------------------------------------------------------------------
(* A DualList over a memory list and the tables flushed from it.           *)

MergePut ==
    /\ kind = "merge" /\ now < MaxTime
    /\ \E k \in Keys(kind) :
         LET pair == [key |-> k, created |-> now + 1, ts |-> FALSE] IN
         /\ st' = [st EXCEPT !.list1 = MI!list_insertF(@, pair)]
         /\ ref' = [ref EXCEPT ![k] = {pair}]
    /\ now' = now + 1
    /\ UNCHANGED <<kind, right>>

MergeErase ==
    /\ kind = "merge" /\ now < MaxTime
    /\ \E k \in Keys(kind) :
         LET list == MI!dual_erase___(st.list1, st.tables, k, now + 1, st.type) IN
         /\ st' = [st EXCEPT !.list1 = list]
         /\ ref' = [ref EXCEPT ![k] = MI!ListGet(list, k)]
    /\ now' = now + 1
    /\ UNCHANGED <<kind, right>>

\* A list that erases for good has no tables.
MergeFlush ==
    /\ kind = "merge" /\ st.type # "NORMAL" /\ st.list1 # << >>
    /\ st' = [st EXCEPT !.list1 = << >>, !.tables = <<st.list1>> \o @]
    /\ UNCHANGED <<kind, ref, right, now>>

\* db_merge: tables that are neighbours in time become one; tombstones go when
\* the oldest table is among them.  A table without pairs is not opened.
MergeTables ==
    /\ kind = "merge"
    /\ \E i, j \in 1 .. Len(st.tables), keep \in BOOLEAN :
         LET some == SubSeq(st.tables, i, j)
             one  == MI!mergeTables(some, keep)
             Gone(p) == p.ts /\ ~keep /\ \E table \in ToSet(some) : p \in ToSet(table)
         IN  /\ i < j /\ (keep \/ j = Len(st.tables))
             /\ st' = [st EXCEPT !.tables = SubSeq(@, 1, i - 1)
                                                \o (IF one = << >> THEN << >> ELSE <<one>>)
                                                \o SubSeq(@, j + 1, Len(@))]
             /\ ref' = [k \in DOMAIN ref |-> {p \in ref[k] : ~Gone(p)}]
    /\ UNCHANGED <<kind, right, now>>

\* The table db_compact_tombstones names, whatever the tables are called, goes
\* through db_merge alone, without its tombstones.
CompactTombstones ==
    /\ kind = "merge"
    /\ \E order \in SetToSeqs(DOMAIN st.tables) :
         LET i   == MI!analyze(st.tables, order)
             one == MI!mergeTables(<<st.tables[i]>>, FALSE)
         IN  /\ i # 0
             /\ st' = [st EXCEPT !.tables = SubSeq(@, 1, i - 1)
                                                \o (IF one = << >> THEN << >> ELSE <<one>>)
                                                \o SubSeq(@, i + 1, Len(@))]
             /\ ref' = [k \in DOMAIN ref |->
                           {p \in ref[k] : ~(p.ts /\ p \in ToSet(st.tables[i]))}]
    /\ UNCHANGED <<kind, right, now>>

---------------------------------------------------------------------------
(* A table that is being written, from a list in the order of the keys.    *)

TablePush ==
    /\ kind = "table"
    /\ \E i \in now + 1 .. Len(TableKeys), ts, expired \in BOOLEAN :
         LET pair == [key |-> TableKeys[i], created |-> (i * 5) % 9,
                      ts |-> ts, expired |-> expired] IN
         /\ ts => i = 3
         /\ expired => i = 5
         /\ st' = [st EXCEPT !.b = DS!copy(@, pair, st.keep)]
         /\ ref' = IF st.keep \/ ~(ts \/ expired) THEN Append(ref, pair) ELSE ref
         /\ now' = i
    /\ UNCHANGED <<kind, right>>

LongPair(i) == [key |-> LongKeys[i], created |-> i, ts |-> FALSE, expired |-> FALSE]

LongPush ==
    /\ kind = "long" /\ now < Len(LongKeys)
    /\ st' = [st EXCEPT !.b = DS!copy(@, LongPair(now + 1), TRUE)]
    /\ ref' = Append(ref, LongPair(now + 1))
    /\ now' = now + 1
    /\ UNCHANGED <<kind, right>>

---------------------------------------------------------------------------

InitialState(k) ==
    CASE k = "avl"  -> {AVL!EmptyTree}
      [] k = "deep" ->
            {FoldLeft(LAMBDA t, key : AVL!insertF(t, key, [created |-> 1, bytes |-> 1], TRUE).t,
                      AVL!EmptyTree, plan) : plan \in Plans}
      [] k \in {"skip", "uskip"} -> {SL!EmptyList(MAX_HEIGHT)}
      [] k \in {"link", "ulink"} -> {SL!EmptyList(1)}
      [] k = "vector" -> {<< >>}
      [] k = "unsorted" ->
            {US!EmptyUnsorted} \cup
            {[v |-> [i \in DOMAIN log |-> [key |-> log[i], created |-> LogTime(i)]],
              needSort |-> TRUE] : log \in Replays}
      [] k = "merge" -> [list1 : {<< >>}, tables : {<< >>}, type : EraseTypes]
      [] k = "table" ->
            {[b |-> DS!FileBuilder(aligned), keep |-> keep] : aligned, keep \in BOOLEAN}
      [] k = "long" ->
            {[b |-> FoldLeft(LAMBDA b, i : DS!copy(b, LongPair(i), TRUE),
                             DS!FileBuilder(TRUE), [i \in 1 .. LongStart |-> i]),
              keep |-> TRUE]}

InitialRef(k, s) ==
    CASE k = "deep" -> [key \in Keys(k) |-> {[created |-> 1, bytes |-> 1]}]
      [] k = "unsorted" -> [text \in Texts |-> NewestOf(s.v, text)]
      [] k = "table" -> << >>
      [] k = "long" -> [i \in 1 .. LongStart |-> LongPair(i)]
      [] OTHER -> [key \in Keys(k) |-> {}]

Init ==
    /\ kind \in Kinds
    /\ st \in InitialState(kind)
    /\ ref = InitialRef(kind, st)
    /\ right = TRUE
    /\ now = CASE kind = "unsorted" -> Len(st.v)
               [] kind = "long" -> Len(ref)
               [] OTHER -> 0

Next ==
    \/ AVLInsert \/ AVLErase \/ SkipInsert \/ LinkInsert \/ ListErase \/ Clear
    \/ UnsortedInsert \/ UnsortedFlush \/ UnsortedClear
    \/ MergePut \/ MergeErase \/ MergeFlush \/ MergeTables
    \/ CompactTombstones
    \/ TablePush \/ LongPush

Spec == Init /\ [][Next]_vars

---------------------------------------------------------------------------
(* What is read.                                                           *)

InOrder(keys) == SelectSeq([k \in 1 .. Max({0} \cup keys) |-> k], LAMBDA k : k \in keys)

\* The pairs a client expects, from key on, in the order of the keys.
ExpectedFrom(key) ==
    LET keys == InOrder({k \in DOMAIN ref : k >= key /\ Known(k)}) IN
    [i \in DOMAIN keys |-> LET v == CHOOSE v \in ref[keys[i]] : TRUE IN Pair(keys[i], v)]

TreePairs(seq) == [i \in DOMAIN seq |-> Pair(seq[i].key, seq[i].pair)]

Fuel == Cardinality(DOMAIN ref) + 1

TreeAgrees ==
    /\ AVL!testIntegrity(st, st.root, AVL!NIL)
    /\ LET depth[x \in DOMAIN st.n] ==
             IF st.n[x].p = AVL!NIL THEN 1 ELSE 1 + depth[st.n[x].p]
       IN  AVL!height(st) = Max({0} \cup {depth[x] : x \in DOMAIN st.n})
    /\ Cardinality(DOMAIN st.n) = Len(ExpectedFrom(0))
    /\ TreePairs(AVL!Backward(st, AVL!NIL, Fuel)) = Reverse(ExpectedFrom(0))
    /\ \A k \in DOMAIN ref :
         /\ TreePairs(AVL!Forward(st, AVL!find(st, k), Fuel)) = ExpectedFrom(k)
         /\ AVL!getPair___(st, k) = IF Known(k) THEN CHOOSE v \in ref[k] : TRUE
                                    ELSE AVL!NoPair

\* Every lane of a linked list is in order, and what is allocated is on lane 1.
LanesSound ==
    /\ ToSet(SL!NodesFrom(st, st.next[SL!HEAD][1], 1)) = DOMAIN st.data
    /\ \A h \in DOMAIN st.next[SL!HEAD] :
         LET nodes == SL!NodesFrom(st, st.next[SL!HEAD][h], h) IN
         /\ \A i \in DOMAIN nodes : nodes[i] \in DOMAIN st.data
         /\ {x \in DOMAIN st.data : h \in DOMAIN st.next[x]} = ToSet(nodes)

UnrolledSound ==
    \A x \in DOMAIN st.data : Len(st.data[x]) \in 1 .. UnrollingCapacity

ListReads(k) ==
    CASE kind = "skip"   -> <<SL!sl_iterate(st, SL!sl_find(st, k)), SL!sl_getPair___(st, k)>>
      [] kind = "link"   -> <<SL!ll_iterate(st, SL!ll_find(st, k)), SL!ll_getPair___(st, k)>>
      [] kind = "uskip"  -> <<SL!us_iterate(st, SL!us_find(st, k)), SL!us_getPair___(st, k)>>
      [] kind = "ulink"  ->
            LET it == SL!ul_find(st, k)
                ps == IF it.node = SL!NIL THEN << >> ELSE SL!ul_iterate(st, <<it.node, 1>>)
            IN  <<SelectSeq(ps, LAMBDA p : p.key >= it.pair.key), SL!ul_getPair___(st, k)>>
      [] kind = "vector" -> <<SubSeq(st, SL!vl_find(st, k), Len(st)), SL!vl_getPair___(st, k)>>

ListAgrees ==
    /\ kind \in Linked => LanesSound
    /\ kind \in {"uskip", "ulink"} => UnrolledSound
    /\ \A k \in DOMAIN ref :
         ListReads(k) = <<ExpectedFrom(k), {Pair(k, v) : v \in ref[k]}>>

\* A list that is ready to be flushed: sorted, and of every key the newest pair.
UnsortedAgrees ==
    ~st.needSort =>
        /\ \A i \in 1 .. Len(st.v) - 1 : US!Less(st.v[i].key, st.v[i + 1].key)
        /\ ToSet(st.v) = UNION {ref[text] : text \in Texts}

\* Every memory list holds what its answers said: after any order of inserts,
\* replacements in place or with a new node, refused and failed inserts, erases
\* and clear(), iterating forwards and backwards, find and getPair give exactly
\* the pairs the client was told are there, the links and balances are those of
\* a correct tree or list, nothing is lost or freed twice, and an unsorted list
\* is in order with the newest pair of each key when it is flushed.
ListsAgree ==
    /\ right
    /\ kind \in Trees => TreeAgrees
    /\ kind \in Linked \cup {"vector"} => ListAgrees
    /\ kind = "unsorted" => UnsortedAgrees

\* Reading a memory list and its tables as one gives every key once, in order,
\* with its newest pair, from the beginning and from any key; a lookup that
\* passes tables over by their time gives the same pair; and a merge of
\* neighbouring tables changes nothing of this.
IterationMerged ==
    kind = "merge" =>
        /\ \A key \in {MI!NoKey} \cup Keys(kind) :
             LET keys == InOrder({k \in Keys(kind) : k >= key /\ Known(k)}) IN
             MI!dual_iterate(st.list1, st.tables, key)
                = [i \in DOMAIN keys |-> CHOOSE p \in ref[keys[i]] : TRUE]
        /\ \A k \in Keys(kind) : MI!dual_getPair___(st.list1, st.tables, k) = ref[k]
        /\ MI!dual_size(st.list1, st.tables)
                >= Len(MI!dual_iterate(st.list1, st.tables, MI!NoKey))

---------------------------------------------------------------------------
(* Searches in a table, whatever index files lie beside it.                *)

TreeLevels == IF kind = "long" THEN {2} ELSE {1, 2}

\* The files of an index, whole or damaged: positions past the table, keys
\* of the tree cut off behind the first.
LineFile(damaged) ==
    [i \in DOMAIN st.b.line |->
        [st.b.line[i] EXCEPT !.pos = IF damaged THEN @ + Len(ref) ELSE @]]

HashFile(capacity, damaged) ==
    LET nodes == DS!HashIndexBuilder(ref, capacity) IN
    [i \in DOMAIN nodes |->
        [nodes[i] EXCEPT !.pos = IF damaged THEN @ + Len(ref) ELSE @]]

KeysFile(tree, damaged) ==
    [off \in {o \in DOMAIN tree.keys : damaged => o = 0} |-> tree.keys[off]]

\* The directories in which a table may be found, with its tree if levels > 0.
Directory(line, capacity, levels, damaged) ==
    LET tree == DS!BTreeIndexBuilder(ref, st.b.meta.aligned, levels)
        has  == levels > 0 /\ tree.tree # << >>
    IN  [b    |-> st.b,
         line |-> IF line THEN {LineFile(damaged)} ELSE {},
         hash |-> IF capacity > 0 THEN {HashFile(capacity, damaged)} ELSE {},
         tree |-> IF has THEN {tree.tree} ELSE {},
         keys |-> IF has THEN {KeysFile(tree, damaged)} ELSE {}]

\* The lists they are opened as: a file the list makes no use of is not in it.
OpenedLists ==
    {LET list == DS!open_(Directory(line, capacity, levels, damaged), "NORMAL") IN
     <<list, IF list.tree = {} THEN 0 ELSE levels>> :
        line \in BOOLEAN, damaged \in BOOLEAN, capacity \in {0} \cup Capacities,
        levels \in {0} \cup TreeLevels}

LowerBound(q) == SelectSeq(ref, LAMBDA p : DS!compare(p.key, q) >= 0)

Searched(list, q, levels) ==
    /\ DS!getPair___(list, q, levels) = {p \in ToSet(ref) : p.key = q}
    /\ DS!find(list, q, levels) = {LowerBound(q)}

\* The hot line cannot tell the key from one that has its HKey: there is no line
\* for the HKey of NULs alone, a key shorter than HPair::N is taken for the first
\* with its HKey, a first one that is shorter than HPair::N hides one of just that
\* length, and one that is not longer is left out of account for longer ones.
SharesHKey(q) ==
    LET same  == SelectSeq(ref, LAMBDA p : DS!CreateHKey(p.key) = DS!CreateHKey(q))
        first == Head(same).key
    IN  /\ same # << >>
        /\ \/ DS!CreateHKey(q) = 0
           \/ Len(q) < HPairN /\ first # q
           \/ Len(q) = HPairN /\ Len(first) < HPairN
           \/ Len(q) > HPairN /\ Len(first) <= HPairN

\* Whatever index files a table has, whole or damaged in a way the search can
\* notice, getPair finds a key if and only if it is there and find gives its
\* lower bound, iteration gives all pairs, and the metadata is true; but not
\* through the hot line for a key that shares its HKey in one of the ways of
\* SharesHKey: with a key of HPair::N characters that it starts with, or, by
\* the NULs an HKey is padded with, with a key that ends within it.
SearchExact ==
    (kind \in {"table", "long"} /\ ref # << >>) =>
        /\ \A opened \in OpenedLists :
             LET list == opened[1] IN
             /\ list.ok
             /\ \A q \in Probes :
                    (list.F = "HOTLINE" /\ SharesHKey(q)) \/ Searched(list, q, opened[2])
        /\ \A mode \in {"MINIMAL", "FORWARD"} :
             LET list == DS!open_(Directory(FALSE, 0, 0, FALSE), mode) IN
             (mode = "FORWARD" => st.b.meta.aligned) =>
                DS!ForwardRest(list, DS!fdGetFirst(list)) = ref
        /\ DS!ForwardRest(DS!openForRepair_(Directory(FALSE, 0, 0, FALSE), st.b.meta.aligned),
                          0) = ref
        /\ st.b.meta.count = Len(ref)
        /\ st.b.meta.minCreated = Min({p.created : p \in ToSet(ref)})
        /\ st.b.meta.tombstones = Cardinality({p \in ToSet(ref) : p.ts})

\* "we know ALL keys are with same prefix and their size is at least HPair::N,
\* this means, we can skip comparing first HPair::N characters": a search
\* through the hot line finds the key that was asked for and no other.
HotLineExact ==
    (kind = "table" /\ ref # << >>) =>
        LET list == DS!open_(Directory(TRUE, 0, 0, FALSE), "NORMAL") IN
        \A q \in Probes : Searched(list, q, 0)


-----------------------------------------------------------------------------
(* Small lists, trees that rotate twice, tables with every kind of key.     *)
MCKinds    == {"avl", "deep", "skip", "uskip", "link", "ulink", "vector", "unsorted",
               "merge", "table", "long"}
MCKeys(k)  == CASE k = "deep" -> 1 .. 12
                [] k = "avl"  -> 1 .. 7
                [] k = "ulink" -> 1 .. 5
                [] k = "vector" -> 1 .. 6
                [] k = "merge" -> 1 .. 2
                [] OTHER -> 1 .. 4
V(c, b)    == [created |-> c, bytes |-> b]
MCVersions(k) == IF k = 3 THEN {V(1, 1), V(2, 2), V(3, 1)} ELSE {V(1, 1)}

\* Trees with as few nodes as their height allows, and a mixed one.
LeftHigh   == <<8, 5, 11, 3, 7, 10, 12, 2, 4, 6, 9, 1>>
RightHigh  == [i \in 1 .. 12 |-> 13 - LeftHigh[i]]
ZigZag     == <<8, 3, 10, 1, 6, 9, 12, 2, 5, 7, 11, 4>>
ZagZig     == [i \in 1 .. 12 |-> 13 - ZigZag[i]]
MCPlans    == {LeftHigh, RightHigh, ZigZag, ZagZig}

MCTexts    == {<<1>>, <<1, 2>>, <<2>>, <<2, 1, 1>>}

\* Logs long enough for a part that is left to shell sort.
MCReplays  == {[i \in 1 .. 10 |-> IF i % 2 = 1 THEN f[(i + 1) \div 2] ELSE g[i \div 2]] :
                 f \in [1 .. 5 -> {<<1>>, <<1, 2>>}], g \in [1 .. 5 -> {<<2>>, <<2, 1, 1>>}]}

MCTableKeys == <<<<0>>, <<1>>, <<1, 0>>, <<1, 2>>, <<1, 2, 1>>, <<2, 1, 2, 1>>>>
MCLong     == {<<a>> : a \in 1 .. 3} \cup {<<a, b, c>> : a, b, c \in 1 .. 3}
                \cup {<<1, 3, 2, 2>>, <<3, 1>>}
MCLongKeys == [i \in 1 .. Cardinality(MCLong) |->
                 CHOOSE k \in MCLong :
                    Cardinality({j \in MCLong : DS!compare(j, k) < 0}) = i - 1]
MCProbes   == ToSet(MCTableKeys) \cup {<<2>>, <<2, 1>>, <<1, 2, 3>>, <<1, 0, 2>>, <<2, 0>>,
                                       <<2, 1, 2>>, <<3, 3, 3, 3>>}

\* Keys collide in their cell and in their hash.
MCHash(key) == 1 + ((FoldLeft(LAMBDA h, c : 2 * h + c, 0, key)) % 6)
=============================================================================
