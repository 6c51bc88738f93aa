--------------------------- MODULE SmallContainers ---------------------------
(***************************************************************************)
(* The containers that the program keeps its working data in: StaticVector,  *)
(* whose elements are inside the object; SmallVector, which moves to the     *)
(* heap when it grows; and EasyHashtable, a table of linear probing.         *)
(*                                                                         *)
(* A cell of memory is Raw until an element is constructed in it and after   *)
(* the element is destroyed.  Elements of a trivial type are neither: they   *)
(* are assigned and forgotten, and what was there can still be read.         *)
(***************************************************************************)
EXTENDS Integers, Sequences, FiniteSets, SequencesExt, FiniteSetsExt

CONSTANTS
  ElementTypes,       \* "trivial"; "nothrow" and "throwing" tell of the copy constructor
  Elements,           \* values of elements
  Capacity,           \* of a StaticVector
  BufferSize,         \* of a SmallVector
  MaxLength,          \* bound on the length of a vector
  HeapBlocks,         \* bound on the blocks of the heap
  TableKeys, TableVals,
  TableKinds,         \* <<storage, has an index>> of the tables of the model
  TableSize, MaxItems,
  TokenBits,          \* values of a byte of the index
  tableHash(_)

ASSUME ContainersAssumption ==
  /\ {Capacity, BufferSize, MaxLength, HeapBlocks, MaxItems} \subseteq Nat \ {0}
  /\ TableSize \in Nat /\ 2 * MaxItems <= TableSize
  /\ \A k \in TableKeys : tableHash(k) \in Nat

VARIABLES
  box,     \* the containers
  plain    \* what they stand for: sequences, or a function from keys

boxVars == <<box, plain>>

Vectors == 1 .. 2
Raw     == 0
Moved   == -1         \* an element that was moved from
GrowFactor == 2

-----------------------------------------------------------------------------
(* Cells of memory.  A block is a sequence of cells, an empty one is free;   *)
(* block v \in Vectors is the buffer inside the vector v.  broken tells that   *)
(* an element was constructed over another one or outside of its block, or   *)
(* that a cell was destroyed or read that had none.                          *)

IsTrivial(s) == s.type = "trivial"
Cells(s, b, n) == SubSeq(s.mem[b], 1, n)
HasRaw(cells)  == \E i \in DOMAIN cells : cells[i] = Raw

Construct(s, b, at, xs) ==
  LET cells == at + 1 .. at + Len(xs)
      wrong == \/ at + Len(xs) > Len(s.mem[b])
               \/ ~ IsTrivial(s) /\ \E i \in cells \cap DOMAIN s.mem[b] : s.mem[b][i] # Raw
               \/ HasRaw(xs)
  IN  [s EXCEPT !.mem[b] = [i \in DOMAIN @ |-> IF i \in cells THEN xs[i - at] ELSE @[i]],
                !.broken = @ \/ wrong]

Destroy(s, b, from, to) ==
  IF IsTrivial(s) THEN s
  ELSE [s EXCEPT !.mem[b] = [i \in DOMAIN @ |-> IF i \in from .. to THEN Raw ELSE @[i]],
                 !.broken = @ \/ HasRaw(SubSeq(s.mem[b], from, to))]

(* std::uninitialized_move: what was moved from is still there.              *)
MovedFrom(s, b, n) ==
  IF IsTrivial(s) THEN s ELSE [s EXCEPT !.mem[b] = [i \in DOMAIN @ |-> IF i <= n THEN Moved ELSE @[i]]]

SizeOf(s, v)   == s.vec[v].size
BlockOf(s, v)  == s.vec[v].data
Contents(s, v) == Cells(s, BlockOf(s, v), SizeOf(s, v))

destroy_(s, v) == Destroy(s, BlockOf(s, v), 1, SizeOf(s, v))
clear(s, v)    == [destroy_(s, v) EXCEPT !.vec[v].size = 0]

pop_back(s, v) ==
  [Destroy(s, BlockOf(s, v), SizeOf(s, v), SizeOf(s, v)) EXCEPT !.vec[v].size = @ - 1]

-----------------------------------------------------------------------------
(* StaticVector *)

sv_full(s, v) == SizeOf(s, v) = Capacity

sv_emplace_back(s, v, x) ==
  IF s.thrown \/ sv_full(s, v) THEN [s EXCEPT !.thrown = TRUE]
  ELSE [Construct(s, BlockOf(s, v), SizeOf(s, v), <<x>>) EXCEPT !.vec[v].size = @ + 1]

sv_append(s, v, xs) == FoldLeft(LAMBDA t, x : sv_emplace_back(t, v, x), s, xs)

sv_construct_(s, v, count, x) == sv_append(clear(s, v), v, [i \in 1 .. count |-> x])

sv_helper_copy_(s, v, xs) == sv_append(clear(s, v), v, xs)

(* copy_<1>, move_<1>                                                        *)
sv_copy_(s, v, xs) ==
  IF s.type = "throwing" THEN sv_helper_copy_(s, v, xs)
  ELSE Construct([destroy_(s, v) EXCEPT !.vec[v].size = Len(xs)], BlockOf(s, v), 0, xs)

sv_move_(s, v, w) ==
  LET xs == Contents(s, w)
  IN  IF IsTrivial(s) THEN sv_copy_(s, v, xs)
      ELSE MovedFrom(Construct([destroy_(s, v) EXCEPT !.vec[v].size = Len(xs)], BlockOf(s, v), 0, xs),
                     BlockOf(s, w), Len(xs))

-----------------------------------------------------------------------------
(* SmallVector *)

useInternalBuffer_(s, v) == BlockOf(s, v) = v

Deallocated(s, b, n) ==
  LET t == Destroy(s, b, 1, n)
  IN  IF b \in Vectors THEN t ELSE [t EXCEPT !.mem[b] = <<>>, !.broken = @ \/ s.mem[b] = <<>>]

reallocate_(s, v, capacity) ==
  LET p   == Min({b \in DOMAIN s.mem \ Vectors : s.mem[b] = <<>>})
      old == BlockOf(s, v)
      n   == SizeOf(s, v)
      t   == [s EXCEPT !.mem[p] = [i \in 1 .. capacity |-> Raw],
                       !.vec[v].data = p, !.vec[v].capacity = capacity]
  IN  Deallocated(MovedFrom(Construct(t, p, 0, Cells(s, old, n)), old, n), old, n)

reserve(s, v, capacity) == IF capacity > s.vec[v].capacity THEN reallocate_(s, v, capacity) ELSE s

sm_emplace_back(s, v, x) ==
  LET t == IF SizeOf(s, v) = s.vec[v].capacity THEN reallocate_(s, v, s.vec[v].capacity * GrowFactor) ELSE s
  IN  [Construct(t, BlockOf(t, v), SizeOf(t, v), <<x>>) EXCEPT !.vec[v].size = @ + 1]

sm_construct_(s, v, count, x) ==
  FoldLeft(LAMBDA t, y : sm_emplace_back(t, v, y), reserve(clear(s, v), v, count), [i \in 1 .. count |-> x])

(* copy_<1>, move_<1>: the elements are destroyed, but the size is only      *)
(* changed after reserve.                                                    *)
sm_copy_(s, v, xs) ==
  LET t == reserve(destroy_(s, v), v, Len(xs))
  IN  Construct([t EXCEPT !.vec[v].size = Len(xs)], BlockOf(t, v), 0, xs)

sm_move_(s, v, w) ==
  LET xs == Contents(s, w) IN MovedFrom(sm_copy_(s, v, xs), BlockOf(s, w), Len(xs))

reset_(s, v) == [s EXCEPT !.vec[v] = [data |-> v, size |-> 0, capacity |-> BufferSize]]

(* move_operation__<1>                                                       *)
move_operation__(s, v, w) ==
  CASE useInternalBuffer_(s, w) -> sm_move_(s, v, w)
    [] ~ useInternalBuffer_(s, w) /\ ~ useInternalBuffer_(s, v) ->
         [s EXCEPT !.vec = [@ EXCEPT ![v] = s.vec[w], ![w] = s.vec[v]]]
    [] ~ useInternalBuffer_(s, w) /\ useInternalBuffer_(s, v) ->
         reset_([Deallocated(s, BlockOf(s, v), SizeOf(s, v)) EXCEPT !.vec[v] = s.vec[w]], w)

(* The vector is destroyed and a new one is made in its place.               *)
Renewed(s, v) == reset_(Deallocated(s, BlockOf(s, v), SizeOf(s, v)), v)

equals(s, v, w) ==
  /\ SizeOf(s, v) = SizeOf(s, w)
  /\ \A i \in 1 .. SizeOf(s, v) : Contents(s, v)[i] = Contents(s, w)[i]

-----------------------------------------------------------------------------
(* Two vectors of one type, and what may be done with them: a vector of size 0 *)
(* is not popped, one is not assigned to itself by a move, and what is copied  *)
(* fits where copy_ does not look.                                            *)

NewVectors(type, capacity) ==
  [type |-> type, thrown |-> FALSE, broken |-> FALSE,
   vec  |-> [v \in Vectors |-> [data |-> v, size |-> 0, capacity |-> capacity]],
   mem  |-> [b \in 1 .. 2 + HeapBlocks |-> IF b \in Vectors THEN [i \in 1 .. capacity |-> Raw] ELSE <<>>]]

NoElements == [v \in Vectors |-> <<>>]
Prefix(xs, n) == SubSeq(xs, 1, Min({n, Len(xs)}))

(* What is left of a vector of the type when its elements were moved away.   *)
Left(xs) == IF IsTrivial(box) THEN xs ELSE [i \in DOMAIN xs |-> Moved]

Fresh == [box EXCEPT !.thrown = FALSE]

Does(new, values) == box' = new /\ plain' = values

PushBack(v, x) ==
  Does(sv_emplace_back(Fresh, v, x), [plain EXCEPT ![v] = Prefix(Append(@, x), Capacity)])

StaticVectorNext ==
  \E v \in Vectors :
    \/ \E x \in Elements : PushBack(v, x)
    \/ SizeOf(box, v) > 0 /\ Does(pop_back(Fresh, v), [plain EXCEPT ![v] = Front(@)])
    \/ Does(clear(Fresh, v), [plain EXCEPT ![v] = <<>>])
    \/ \E n \in 0 .. Capacity + 1, x \in Elements :
         Does(sv_construct_(Fresh, v, n, x), [plain EXCEPT ![v] = [i \in 1 .. Min({n, Capacity}) |-> x]])
    \/ \E n \in 0 .. Capacity + 1 : \E xs \in [1 .. n -> Elements] :
         /\ n <= Capacity \/ box.type = "throwing"   \* only then copy_ sees that it is full
         /\ Does(sv_copy_(Fresh, v, xs), [plain EXCEPT ![v] = Prefix(xs, Capacity)])
    \/ \E w \in Vectors \ {v} :
         \/ Does(sv_copy_(Fresh, v, Contents(box, w)), [plain EXCEPT ![v] = plain[w]])
         \/ Does(sv_move_(Fresh, v, w), [plain EXCEPT ![v] = plain[w], ![w] = Left(@)])

(* The program has vectors of numbers and of iterators, which are trivial,   *)
(* and of disk lists, which can only be moved and are never popped.          *)
SmallVectorNext ==
  \E v \in Vectors :
    \/ \E x \in Elements : /\ SizeOf(box, v) < MaxLength
                           /\ Does(sm_emplace_back(Fresh, v, x), [plain EXCEPT ![v] = Append(@, x)])
    \/ SizeOf(box, v) > 0 /\ Does(pop_back(Fresh, v), [plain EXCEPT ![v] = Front(@)])
    \/ Does(clear(Fresh, v), [plain EXCEPT ![v] = <<>>])
    \/ Does(Renewed(Fresh, v), [plain EXCEPT ![v] = <<>>])
    \/ \E n \in 0 .. MaxLength + 1 : Does(reserve(Fresh, v, n), plain)
    \/ \E w \in Vectors \ {v} :
         Does(move_operation__(Fresh, v, w),
              [plain EXCEPT ![v] = plain[w],
                            ![w] = CASE useInternalBuffer_(box, w) -> Left(@)
                                     [] ~ useInternalBuffer_(box, w) /\ useInternalBuffer_(box, v) -> <<>>
                                     [] OTHER -> plain[v]])
    \/ /\ IsTrivial(box)
       /\ \/ \E n \in 0 .. MaxLength, x \in Elements :
               Does(sm_construct_(Fresh, v, n, x), [plain EXCEPT ![v] = [i \in 1 .. n |-> x]])
          \/ \E n \in 0 .. MaxLength : \E xs \in [1 .. n -> Elements] :
               Does(sm_copy_(Fresh, v, xs), [plain EXCEPT ![v] = xs])
          \/ \E w \in Vectors \ {v} :
               Does(sm_copy_(Fresh, v, Contents(box, w)), [plain EXCEPT ![v] = plain[w]])

-----------------------------------------------------------------------------
(* EasyHashtable.  ArrayStorage has an item in every cell, the sentinel in   *)
(* empty ones; CompactStorage has items one after another and links to them. *)

TableCells == 0 .. TableSize - 1
NoLink     == -1
EMPTY_ITEM == [key |-> "", val |-> 0]

NewTable(storage, indexed) ==
  [storage |-> storage, indexed |-> indexed, thrown |-> FALSE,
   index   |-> [id \in TableCells |-> 0],
   link    |-> [id \in TableCells |-> IF storage = "array" THEN id + 1 ELSE NoLink],
   data    |-> IF storage = "array" THEN [i \in 1 .. TableSize |-> EMPTY_ITEM] ELSE <<>>]

ItemAt(t, id)  == t.data[t.link[id]]
IsFree(t, id)  == IF t.storage = "array" THEN ItemAt(t, id) = EMPTY_ITEM ELSE t.link[id] = NoLink
getToken(hash) == 2 * ((hash % TokenBits) \div 2) + 1

(* The cells of a key in the order of probing, and the first that ends it.   *)
Probes(key) == [i \in 1 .. TableSize |-> (tableHash(key) + i - 1) % TableSize]

ht_check(t, id, key) ==
  CASE ~ t.indexed /\ IsFree(t, id) -> "EMPTY"
    [] ~ t.indexed /\ ~ IsFree(t, id) -> "FOUND"
    [] t.indexed /\ t.index[id] = getToken(tableHash(key)) -> "FOUND"
    [] t.indexed /\ t.index[id] = 0 -> "EMPTY"
    [] OTHER -> "NEXT"

Ends(t, id, key) ==
  \/ ht_check(t, id, key) = "EMPTY"
  \/ ht_check(t, id, key) = "FOUND" /\ ItemAt(t, id).key = key

ht_locate_(t, key) ==
  LET ends == {i \in 1 .. TableSize : Ends(t, Probes(key)[i], key)}
  IN  IF ends = {} THEN [type |-> "ERROR", id |-> 0]
      ELSE LET id == Probes(key)[Min(ends)] IN [type |-> ht_check(t, id, key), id |-> id]

ht_find(t, key) ==
  LET at == ht_locate_(t, key) IN IF at.type = "FOUND" THEN ItemAt(t, at.id).val ELSE 0

(* A CompactStorage that is full throws before the index is written.         *)
ht_emplace(t, id, item) ==
  CASE t.storage = "array" \/ ~ IsFree(t, id) -> [t EXCEPT !.data[t.link[id]] = item]
    [] t.storage = "compact" /\ IsFree(t, id) /\ Len(t.data) < MaxItems ->
         [t EXCEPT !.data = Append(@, item), !.link[id] = Len(t.data) + 1]
    [] OTHER -> [t EXCEPT !.thrown = TRUE]

ht_insert(t, key, val) ==
  LET at == ht_locate_(t, key)
      e  == ht_emplace(t, at.id, [key |-> key, val |-> val])
  IN  IF at.type = "ERROR" THEN t
      ELSE IF t.indexed /\ ~ e.thrown THEN [e EXCEPT !.index[at.id] = getToken(tableHash(key))] ELSE e

Known  == {key \in TableKeys : plain[key] # 0}
Limit  == IF box.storage = "array" THEN TableSize ELSE MaxItems

TableNext ==
  \E key \in TableKeys, val \in TableVals :
    /\ box' = ht_insert([box EXCEPT !.thrown = FALSE], key, val)
    /\ plain' = IF key \in Known \/ Cardinality(Known) < Limit THEN [plain EXCEPT ![key] = val] ELSE plain

-----------------------------------------------------------------------------
(* A vector holds what was put into it and equals a vector that holds the    *)
(* same; every element is destroyed once, and only what was constructed is;  *)
(* a block of the heap belongs to one vector or is free.                     *)
VectorsFaithful ==
  /\ ~ box.broken
  /\ \A v \in Vectors : /\ Contents(box, v) = plain[v]
                        /\ Len(box.mem[BlockOf(box, v)]) = box.vec[v].capacity
                        /\ \A w \in Vectors : equals(box, v, w) <=> plain[v] = plain[w]
  /\ \A b \in DOMAIN box.mem \ Vectors :
       Cardinality({v \in Vectors : BlockOf(box, v) = b}) = IF box.mem[b] = <<>> THEN 0 ELSE 1
  /\ ~ IsTrivial(box) =>
       \A b \in DOMAIN box.mem, i \in 1 .. MaxLength * GrowFactor :
         i \in DOMAIN box.mem[b] =>
           (box.mem[b][i] # Raw <=> \E v \in Vectors : BlockOf(box, v) = b /\ i <= SizeOf(box, v))

(* A table finds what was last put in for a key, and nothing for other keys. *)
TableFaithful == \A key \in TableKeys : ht_find(box, key) = plain[key]
==============================================================================
