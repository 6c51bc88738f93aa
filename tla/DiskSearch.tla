----------------------------- MODULE DiskSearch -----------------------------
(***************************************************************************)
(* One disk table: the files that are written (filebuilder,                *)
(* hashindexbuilder and btreeindexbuilder of hm4/disk) and how DiskList    *)
(* opens and searches them (hm4/disk/disklist.cc).                         *)
(*                                                                         *)
(* A key is a sequence of characters from 0 to CharBase - 1: 0 is NUL, and *)
(* all are below 128, so that signed and unsigned comparisons agree.  A    *)
(* pair is [key, created, ts, expired].  Positions in a table and offsets  *)
(* in a file count from 0.  The data file and the file of the tree's keys  *)
(* map an offset to what is stored there.                                  *)
(***************************************************************************)
EXTENDS Integers, Sequences, SequencesExt, FiniteSetsExt, TLC, BinarySearch

CONSTANTS
    CharBase,             \* characters, with NUL, which also pads an HKey
    HPairN,               \* HPair::N, characters in an HKey
    ALIGN,                \* PairConf::ALIGN and NodeData::ALIGN
    PairHead,             \* bytes of a pair besides its key
    MinimumDistance,      \* where the binary search turns linear
    OpenAddresses,        \* HASHTABLE_OPEN_ADDRESSES
    MinHashNodes,         \* a smaller hash index is ignored
    SMALL_PRIMES,         \* of oprime.h
    murmur_hash64a(_)     \* hash of a key; zero marks an empty cell

\* What is assumed of them; the module that gives them values assumes it.
SearchAssumption ==
    /\ {CharBase, HPairN, ALIGN, PairHead, OpenAddresses, MinHashNodes} \subseteq Nat \ {0}
    /\ MinimumDistance \in Nat
    /\ SMALL_PRIMES \subseteq Nat \ {0}

\* cmplcp.h: the first difference from start on, and how much was equal; with
\* nothing left of one of the two there is no difference.
cmpLCP(a, b, start) ==
    LET x    == SubSeq(a, start + 1, Len(a))
        y    == SubSeq(b, start + 1, Len(b))
        size == Min({Len(x), Len(y)})
        diff == {i \in 1 .. size : x[i] # y[i]}
    IN  CASE size = 0 -> [cmp |-> 0, prefix |-> 0]
          [] size > 0 /\ diff # {} ->
                [cmp |-> Compare(x[Min(diff)], y[Min(diff)]), prefix |-> Min(diff) - 1]
          [] OTHER -> [cmp |-> Compare(Len(x), Len(y)), prefix |-> size]

\* string_view::compare
compare(a, b) ==
    IF a = b THEN 0 ELSE IF a = << >> THEN -1 ELSE IF b = << >> THEN 1
    ELSE cmpLCP(a, b, 0).cmp

my_align(size) == ((size + ALIGN - 1) \div ALIGN) * ALIGN

bytes(pair) == PairHead + Len(pair.key)

\* StringHash::create: the first N characters, padded with NULs; <<1>> and
\* <<1, 0>> have one HKey, and the HKey of NULs alone is zero.
CreateHKey(key) ==
    FoldLeft(LAMBDA h, i : h * CharBase + (IF i <= Len(key) THEN key[i] ELSE 0),
             0, [i \in 1 .. HPairN |-> i])

---------------------------------------------------------------------------
(***************************************************************************)
(* FileBuilder: the meta, indx, line and data files grow pair by pair.     *)
(***************************************************************************)

NoTime == -1

\* What the constructors of the four builders set up.
FileBuilder(aligned) ==
    [meta |-> [aligned |-> aligned, minCreated |-> NoTime, maxCreated |-> NoTime,
               tombstones |-> 0, count |-> 0],
     indx |-> << >>, index |-> 0,
     line |-> << >>, pos |-> 0, hkey_ |-> 0,
     data |-> << >>, end |-> 0]

FileMetaBuilder(b, pair) ==
    [b EXCEPT !.meta.minCreated = IF @ = NoTime \/ pair.created < @ THEN pair.created ELSE @,
              !.meta.maxCreated = IF @ = NoTime \/ pair.created > @ THEN pair.created ELSE @,
              !.meta.tombstones = IF pair.ts THEN @ + 1 ELSE @,
              !.meta.count      = @ + 1]

FileIndxBuilder(b, pair) ==
    [b EXCEPT !.indx = Append(@, b.index),
              !.index = @ + (IF b.meta.aligned THEN my_align(bytes(pair)) ELSE bytes(pair))]

\* Mutant: the position after the pair instead of its own.
FileLineBuilderAfter(b, pair) ==
    LET hkey == CreateHKey(pair.key)
        b1   == [b EXCEPT !.pos = @ + 1]
    IN  IF hkey = b.hkey_ THEN b1
        ELSE [b1 EXCEPT !.hkey_ = hkey,
                        !.line = Append(@, [key |-> hkey, pos |-> b1.pos])]

FileLineBuilder(b, pair) ==
    LET hkey == CreateHKey(pair.key)
        b1   == [b EXCEPT !.pos = @ + 1]
    IN  IF hkey = b.hkey_ THEN b1
        ELSE [b1 EXCEPT !.hkey_ = hkey,
                        !.line = Append(@, [key |-> hkey, pos |-> b.pos])]

\* Pair::fwrite writes the gap behind an aligned pair too.
FileDataBuilder(b, pair) ==
    [b EXCEPT !.data = (b.end :> pair) @@ @,
              !.end = @ + (IF b.meta.aligned THEN my_align(bytes(pair)) ELSE bytes(pair))]

push_back(b, pair) ==
    FileDataBuilder(FileLineBuilder(FileIndxBuilder(FileMetaBuilder(b, pair), pair), pair), pair)

isOK(pair) == ~pair.ts /\ ~pair.expired

\* copy: with REMOVE, of the last of the compactions, neither a tombstone nor a
\* pair that has expired is written.
copy(b, pair, keep) == IF keep \/ isOK(pair) THEN push_back(b, pair) ELSE b

TablePairs(b) == [i \in 1 .. Len(b.indx) |-> b.data[b.indx[i]]]

---------------------------------------------------------------------------
(***************************************************************************)
(* HashIndexBuilder.                                                       *)
(***************************************************************************)

isOPrime(value) == \A p \in SMALL_PRIMES : value % p # 0

RECURSIVE nextOdd(_)
nextOdd(start) == IF isOPrime(start) THEN start ELSE nextOdd(start + 2)

next(start) == IF start <= 3 THEN 3 ELSE nextOdd(IF start % 2 = 0 THEN start + 1 ELSE start)

\* EXPAND_FACTOR is four thirds.
selectNodeCount__(listSize) == next((listSize * 4) \div 3)

NoNode == [hash |-> 0, pos |-> 0]

cell(hash, count) == hash % count

\* insert__: the first empty one of the open addresses, or nowhere.
insert__(node, nodes) ==
    LET count == Len(nodes)
        At(i) == cell(node.hash + i, count) + 1
        open  == {i \in 0 .. OpenAddresses - 1 : nodes[At(i)].hash = 0}
    IN  IF open = {} THEN nodes ELSE [nodes EXCEPT ![At(Min(open))] = node]

HashNodes(pairs) ==
    [i \in 1 .. Len(pairs) |-> [hash |-> murmur_hash64a(pairs[i].key), pos |-> i - 1]]

EmptyNodes(pairs) == [i \in 1 .. selectNodeCount__(Len(pairs)) |-> NoNode]

HashIndexStandardBuilder(pairs) ==
    FoldLeft(LAMBDA nodes, node : insert__(node, nodes), EmptyNodes(pairs), HashNodes(pairs))

\* flush: std::sort by the cell, which leaves equal ones in some order.
flush(vector, nodes) ==
    LET count == Len(nodes)
        Before(a, b) == \/ cell(a.hash, count) < cell(b.hash, count)
                        \/ cell(a.hash, count) = cell(b.hash, count) /\ a.pos > b.pos
    IN  FoldLeft(LAMBDA ns, node : insert__(node, ns), nodes, SortSeq(vector, Before))

\* The buffer of capacity nodes is flushed when it is full and at the end.
HashIndexMultiPassBuilder(pairs, capacity) ==
    LET Step(s, node) ==
            LET vector == Append(s.vector, node) IN
            IF Len(vector) = capacity
            THEN [vector |-> << >>, nodes |-> flush(vector, s.nodes)]
            ELSE [s EXCEPT !.vector = vector]
        s == FoldLeft(Step, [vector |-> << >>, nodes |-> EmptyNodes(pairs)], HashNodes(pairs))
    IN  flush(s.vector, s.nodes)

\* selectImplementation__: by the buffer there is.
HashIndexBuilder(pairs, capacity) ==
    IF capacity >= selectNodeCount__(Len(pairs)) THEN HashIndexStandardBuilder(pairs)
    ELSE HashIndexMultiPassBuilder(pairs, capacity)

---------------------------------------------------------------------------
(***************************************************************************)
(* BTreeIndexBuilder: nodes with VALUES keys, level by level.              *)
(***************************************************************************)

VALUES(levels) == 2 ^ levels - 1

\* bfslookup.h: the positions 0 .. VALUES - 1 as a binary tree, by levels.
RECURSIVE bfs_reorder_(_, _, _, _)
bfs_reorder_(begin, end, target, current) ==
    LET mid == begin + ((end - begin) \div 2) IN
    CASE begin >= end -> << >>
      [] begin < end /\ current = target -> <<mid>>
      [] OTHER -> bfs_reorder_(begin, mid, target, current + 1)
                    \o bfs_reorder_(mid + 1, end, target, current + 1)

LL(levels) ==
    FlattenSeq([l \in 1 .. levels |-> bfs_reorder_(0, VALUES(levels), l - 1, 0)])

RECURSIVE calcDepth__(_, _)
calcDepth__(count, V) ==
    IF count = 0 THEN 0
    ELSE IF count > V THEN 1 + calcDepth__((count - V) \div (V + 1), V) ELSE 1

\* reorder_: the nodes of one level, each the positions of its keys in the
\* order of LL.  A node that is not full is a logic_error; NoNodes stands for it.
NoNodes == <<"half full">>

RECURSIVE reorder_(_, _, _, _, _)
reorder_(begin, end, target, current, levels) ==
    LET V        == VALUES(levels)
        distance == (end - begin) \div (V + 1)
        Child(i) == reorder_(begin + distance * i + (IF i = 0 THEN 0 ELSE 1),
                             IF i = V THEN end ELSE begin + distance * (i + 1),
                             target, current + 1, levels)
    IN  CASE begin >= end -> << >>
          [] begin < end /\ current < target -> FlattenSeq([i \in 1 .. V + 1 |-> Child(i - 1)])
          [] begin < end /\ current >= target /\ end - begin <= V -> NoNodes
          [] OTHER -> <<[j \in 1 .. V |-> begin + distance * (LL(levels)[j] + 1)]>>

NodeDataSize == 10

\* The key, with its position before it and a terminator and a gap behind it.
push_back_key(t, pairs, index, aligned) ==
    LET key  == pairs[index + 1].key
        size == NodeDataSize + Len(key) + 1
    IN  [t EXCEPT !.keys = (t.current_ :> [key |-> key, dataid |-> index]) @@ @,
                  !.current_ = @ + (IF aligned THEN my_align(size) ELSE size)]

WriteNode(t, pairs, node, aligned) ==
    LET Put(s, index) == [push_back_key(s, pairs, index, aligned)
                            EXCEPT !.node = Append(s.node, s.current_)]
        s == FoldLeft(Put, [t EXCEPT !.node = << >>], node)
    IN  [s EXCEPT !.tree = Append(@, s.node)]

\* build: no tree for a list that fits in a node; nodes of full levels only.
BTreeIndexBuilder(pairs, aligned, levels) ==
    LET total_levels == calcDepth__(Len(pairs), VALUES(levels)) - 1
        nodes == FlattenSeq([l \in 1 .. total_levels |->
                                reorder_(0, Len(pairs), l - 1, 0, levels)])
        none  == [tree |-> << >>, keys |-> << >>, current_ |-> 0, node |-> << >>]
    IN  FoldLeft(LAMBDA t, node : WriteNode(t, pairs, node, aligned), none, nodes)

---------------------------------------------------------------------------
(***************************************************************************)
(* DiskList.  A directory is [b, line, hash, tree, keys]: the finished     *)
(* builder and, for each file of an index, its contents ({} if there is no *)
(* such file).  An opened list has the same fields.                        *)
(***************************************************************************)

ClosedList(dir) ==
    [ok |-> FALSE, b |-> dir.b, aligned |-> TRUE, line |-> {}, hash |-> {},
     tree |-> {}, keys |-> {}, T |-> "BINARY", F |-> "BINARY"]

checkMetadata(meta) == meta.count > 0

openForRepair_(dir, aligned) == [ClosedList(dir) EXCEPT !.ok = TRUE, !.aligned = aligned]

\* openForward_ leaves aligned_ at its default.
openForward_(dir) == [ClosedList(dir) EXCEPT !.ok = checkMetadata(dir.b.meta)]

openMinimal_(dir) ==
    [ClosedList(dir) EXCEPT
        !.ok = checkMetadata(dir.b.meta) /\ Len(dir.b.indx) = dir.b.meta.count,
        !.aligned = dir.b.meta.aligned]

openNormal_(dir) ==
    LET min == openMinimal_(dir) IN
    IF ~min.ok THEN min
    ELSE [min EXCEPT !.line = {l \in dir.line : Len(l) > 0},
                     !.hash = {h \in dir.hash : Len(h) >= MinHashNodes},
                     !.tree = dir.tree,
                     !.keys = IF dir.tree # {} THEN dir.keys ELSE {}]

calcSearchMode_(list) ==
    LET line == list.line # {}
        hash == list.hash # {}
        tree == list.tree # {} /\ list.keys # {}
        F    == IF tree THEN "BTREE" ELSE IF line THEN "HOTLINE" ELSE "BINARY"
    IN  [list EXCEPT !.T = IF hash THEN "HASHINDEX" ELSE F, !.F = F]

open_(dir, mode) ==
    calcSearchMode_(CASE mode = "NORMAL"  -> openNormal_(dir)
                      [] mode = "MINIMAL" -> openMinimal_(dir)
                      [] mode = "FORWARD" -> openForward_(dir))

sizeOf(list) == list.b.meta.count

NullPtr == -1

\* BlobGuard::safeAccessMemory, of the data file.
safeAccessMemory(list, off, size) == size # 0 /\ off + size <= list.b.end

\* fdSafeAccess: an offset whose pair is not inside of the data file is null.
fdSafeAccess(list, off) ==
    IF off \in DOMAIN list.b.data /\ safeAccessMemory(list, off, bytes(list.b.data[off]))
    THEN off ELSE NullPtr

fdGetFirst(list) == fdSafeAccess(list, 0)

alignedSize__(list, off) ==
    LET size == bytes(list.b.data[off]) IN IF list.aligned THEN my_align(size) ELSE size

fdGetNext(list, off) == fdSafeAccess(list, off + alignedSize__(list, off))

fdGetAt(list, index) == fdSafeAccess(list, list.b.indx[index + 1])

PairAt(list, index) == list.b.data[fdGetAt(list, index)]

\* The forward iterator, from an offset to the end.
RECURSIVE ForwardRest(_, _)
ForwardRest(list, off) ==
    IF off = NullPtr THEN << >>
    ELSE <<list.b.data[off]>> \o ForwardRest(list, fdGetNext(list, off))

\* Pair::equalsX: what is behind the first start characters.
equalsX(pair, key, start) ==
    /\ Len(pair.key) = Len(key)
    /\ SubSeq(pair.key, start + 1, Len(pair.key)) = SubSeq(key, start + 1, Len(key))

\* PairLCPCompare: [comp, short, l, r], the equal prefix known on either side,
\* and whether the pair's key has not even that.
PairLCPCompare(pair, key, lcp) ==
    LET pr == Min({lcp.l, lcp.r})
        Narrowed(c) == [comp  |-> c.cmp,
                        short |-> pr > Len(pair.key),
                        l     |-> IF c.cmp >= 0 THEN pr + c.prefix ELSE lcp.l,
                        r     |-> IF c.cmp <= 0 THEN pr + c.prefix ELSE lcp.r]
    IN  Narrowed(cmpLCP(pair.key, key, pr))

Found(it) == [found |-> TRUE, it |-> it]

NotFound(it) == [found |-> FALSE, it |-> it]

\* substr() throws out of a noexcept function.
Terminated == NotFound(NullPtr)

RECURSIVE linearSearchLCP(_, _, _, _, _)
linearSearchLCP(list, key, first, last, lcp) ==
    LET Looked(c) == CASE c.short -> Terminated
                       [] ~c.short /\ c.comp = 0 -> Found(first)
                       [] ~c.short /\ c.comp > 0 -> NotFound(first)
                       [] OTHER -> linearSearchLCP(list, key, first + 1, last, c)
    IN  IF first = last THEN NotFound(first)
        ELSE Looked(PairLCPCompare(PairAt(list, first), key, lcp))

RECURSIVE binarySearchLCP(_, _, _, _, _)
binarySearchLCP(list, key, start, end, lcp) ==
    LET mid == start + ((end - start) \div 2)
        Half(c) == CASE c.short -> Terminated
                     [] ~c.short /\ c.comp < 0 -> binarySearchLCP(list, key, mid + 1, end, c)
                     [] ~c.short /\ c.comp > 0 -> binarySearchLCP(list, key, start, mid, c)
                     [] OTHER -> Found(mid)
    IN  IF start + MinimumDistance >= end THEN linearSearchLCP(list, key, start, end, lcp)
        ELSE Half(PairLCPCompare(PairAt(list, mid), key, lcp))

\* All pairs from first on are taken to share the first start characters with
\* the key.
searchBinary(list, key, first, last, start) ==
    binarySearchLCP(list, key, first, last, [l |-> start, r |-> start])

searchBinaryAll(list, key) == searchBinary(list, key, 0, sizeOf(list), 0)

\* A key shorter than an HKey is found where its HKey is, uncompared; the rests
\* of longer ones are compared.
searchHotLine(list, key) ==
    LET nodes == CHOOSE l \in list.line : TRUE
        count == Len(nodes)
        hkey  == CreateHKey(key)
        size  == sizeOf(list)
        Partition(found, pos, last) ==
            CASE pos >= size -> searchBinary(list, key, 0, size, 0)
              [] pos < size /\ ~found -> NotFound(pos)
              [] pos < size /\ found /\ Len(key) < HPairN -> Found(pos)
              [] pos < size /\ found /\ Len(key) = HPairN ->
                    [found |-> equalsX(PairAt(list, pos), key, HPairN), it |-> pos]
              [] OTHER -> searchBinary(list, key, pos, last, HPairN)
        Node(r) == IF r.it > count THEN NotFound(size)
                   ELSE Partition(r.found, nodes[r.it].pos,
                                  IF r.it = count THEN size ELSE nodes[r.it + 1].pos)
    IN  Node(binarySearch([i \in 1 .. count |-> Compare(nodes[i].key, hkey)],
                          1, count + 1, MinimumDistance))

---------------------------------------------------------------------------
(***************************************************************************)
(* BTreeSearchHelper; start and end narrow the range that is left.         *)
(***************************************************************************)

\* accessNodeValue_: {} is the BTreeAccessError.
accessNodeValue_(list, off) ==
    LET keys == CHOOSE k \in list.keys : TRUE IN
    IF off \in DOMAIN keys THEN {keys[off]} ELSE {}

\* levelOrderBinarySearch_: [is, index, start, end].
RECURSIVE levelOrderBinarySearch_(_, _, _, _, _, _)
levelOrderBinarySearch_(list, key, node, node_pos, range, levels) ==
    LET i == LL(levels)[node_pos + 1]
        R(is, index, start, end) == [is |-> is, index |-> index, start |-> start, end |-> end]
        Go(pos, r) == IF pos < VALUES(levels)
                      THEN levelOrderBinarySearch_(list, key, node, pos, r, levels)
                      ELSE r
        Side(c, x) ==
            CASE c < 0 -> Go(2 * node_pos + 2, R("node", i + 1, x.dataid + 1, range.end))
              [] c > 0 -> Go(2 * node_pos + 1, R("node", i, range.start, x.dataid))
              [] c = 0 -> R("result", x.dataid, range.start, range.end)
        Value(v) == IF v = {} THEN R("error", 0, 0, 0)
                    ELSE LET x == CHOOSE d \in v : TRUE IN Side(compare(x.key, key), x)
    IN  Value(accessNodeValue_(list, node[node_pos + 1]))

RECURSIVE btreeSearch_(_, _, _, _, _)
btreeSearch_(list, key, pos, range, levels) ==
    LET nodes    == CHOOSE t \in list.tree : TRUE
        branches == VALUES(levels) + 1
        Child(x) ==
            CASE x.is = "error"  -> searchBinaryAll(list, key)
              [] x.is = "result" -> Found(x.index)
              [] x.is = "node"   ->
                    btreeSearch_(list, key, pos * branches + x.index + 1, x, levels)
    IN  IF pos >= Len(nodes) THEN searchBinary(list, key, range.start, range.end, 0)
        ELSE Child(levelOrderBinarySearch_(list, key, nodes[pos + 1], 0, range, levels))

searchBTree(list, key, levels) ==
    btreeSearch_(list, key, 0, [start |-> 0, end |-> sizeOf(list)], levels)

---------------------------------------------------------------------------

\* ra_find_<PREFIX> and the fallback of the hash index.
FindPrefix(list, key, levels) ==
    CASE list.F = "HOTLINE" -> searchHotLine(list, key)
      [] list.F = "BTREE"   -> searchBTree(list, key, levels)
      [] OTHER -> searchBinaryAll(list, key)

\* A cell that points past the table, or no cell left: the other search.
RECURSIVE ProbeCells(_, _, _, _)
ProbeCells(list, key, i, levels) ==
    LET nodes == CHOOSE h \in list.hash : TRUE
        hc    == murmur_hash64a(key)
        node  == nodes[cell(hc + i, Len(nodes)) + 1]
    IN  CASE i = OpenAddresses \/ (node.hash # 0 /\ node.hash = hc
                                     /\ node.pos >= sizeOf(list)) ->
                FindPrefix(list, key, levels)
          [] i < OpenAddresses /\ node.hash = 0 -> NotFound(sizeOf(list))
          [] i < OpenAddresses /\ node.hash = hc /\ node.pos < sizeOf(list)
                               /\ PairAt(list, node.pos).key = key -> Found(node.pos)
          [] OTHER -> ProbeCells(list, key, i + 1, levels)

searchHashIndex(list, key, levels) == ProbeCells(list, key, 0, levels)

ra_find_(list, key, mode, levels) ==
    IF mode = "EXACT" /\ list.T = "HASHINDEX" THEN searchHashIndex(list, key, levels)
    ELSE FindPrefix(list, key, levels)

\* find: a forward iterator from the position on; {} if there is no answer.
find(list, key, levels) ==
    LET it == ra_find_(list, key, "PREFIX", levels).it IN
    CASE it = Terminated.it -> {}
      [] it # Terminated.it /\ it >= sizeOf(list) -> {<< >>}
      [] OTHER -> {ForwardRest(list, fdGetAt(list, it))}

getPair___(list, key, levels) ==
    LET r == ra_find_(list, key, "EXACT", levels) IN
    IF r.found THEN {PairAt(list, r.it)} ELSE {}

=============================================================================
