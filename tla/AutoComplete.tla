---------------------------- MODULE AutoComplete ----------------------------
(***************************************************************************)
(* Texts found by their beginnings: cmd_ac.h and utf8tokenizer.h.            *)
(*                                                                         *)
(* A text has a pair "name~beginning~text" for each of its beginnings, the   *)
(* empty one included, all with the number of times it was added.            *)
(*                                                                         *)
(* A byte is a digit.  A text is a sequence of whole characters: behind one  *)
(* that is cut off, UTF8Tokenizer's iterator never meets its end.            *)
(***************************************************************************)
EXTENDS ZSets

CONSTANTS
  AC_TEXTS,        \* the bytes of each text
  AC_BYTES,        \* bytes of the longest text
  AC_LEADS,        \* bytes that start a character of two
  AC_MAX           \* the largest number (uint64_t)

charLen(b) == IF b \in AC_LEADS THEN 2 ELSE 1

(* Where the characters of a text end.                                       *)
RECURSIVE charEnds(_, _)
charEnds(bytes, p) ==
  IF p >= Len(bytes) THEN {} ELSE
  LET end == p + charLen(bytes[p + 1]) IN {end} \cup charEnds(bytes, end)

ASSUME ACAssumption ==
  /\ Empty = 10 ^ AC_BYTES - 1
  /\ \A m \in DOMAIN AC_TEXTS : Len(AC_TEXTS[m]) \in charEnds(AC_TEXTS[m], 0)

(* The beginnings that the tokenizers give.                                  *)
UTF8Tokenizer(bytes)  == {SubSeq(bytes, 1, e) : e \in charEnds(bytes, 0)}
ASCIITokenizer(bytes) == {SubSeq(bytes, 1, e) : e \in 1 .. Len(bytes)}

(* A beginning as a token: '~', which follows it, is the greatest byte.      *)
beginning(bytes) ==
  FoldLeft(LAMBDA t, i : 10 * t + (IF i <= Len(bytes) THEN bytes[i] ELSE 9), 0,
           [i \in 1 .. AC_BYTES |-> i])

acKey(bytes, m) == <<beginning(bytes), m>>

(* getValueN: one more than before, or the largest number.                   *)
getValueN(m) ==
  LET s == getPairVal(db, acKey(<<>>, m))
      n == IF s = <<>> THEN 0 ELSE s[1]
  IN  Min({n + 1, AC_MAX})

do_processACADD(beginnings, m) ==
  Command(<<insert({acKey(<<>>, m)}, <<getValueN(m)>>),
            insert({acKey(b, m) : b \in beginnings}, <<getValueN(m)>>)>>,
          [k \in {m} |-> <<"in">>])

do_processACREM(beginnings, m) ==
  Command(<<erase({acKey(<<>>, m)}), erase({acKey(b, m) : b \in beginnings})>>,
          [k \in {m} |-> <<>>])

ACADD_UTF8(m) == do_processACADD(UTF8Tokenizer(AC_TEXTS[m]), m)
ACADD_BIN(m)  == do_processACADD(ASCIITokenizer(AC_TEXTS[m]), m)
ACREM_UTF8(m) == do_processACREM(UTF8Tokenizer(AC_TEXTS[m]), m)
ACREM_BIN(m)  == do_processACREM(ASCIITokenizer(AC_TEXTS[m]), m)

(* AC::populateHeap_: the keys of the largest numbers so far.  Which of the  *)
(* smallest leaves is up to std::pop_heap.                                   *)
populateHeap(heap, k, count) ==
  LET front == CHOOSE f \in heap : \A j \in heap : db[f][1] <= db[j][1]
  IN  IF Cardinality(heap) < count THEN heap \cup {k}
      ELSE IF db[k][1] > db[front][1] THEN (heap \ {front}) \cup {k}
      ELSE heap

(* ... of all pairs with the prefix; a tail only for too many iterations.    *)
AC(bytes, count, start) ==
  LET prefix == <<beginning(bytes)>>
      r      == sharedAccumulatePairs(db, Cardinality(DOMAIN db) + 1,
                  StopPrefix(db, prefix), IF start = NoTail THEN prefix ELSE start)
      heap   == FoldLeft(LAMBDA h, k : populateHeap(h, k, count), {}, SetToSortSeq(r.page, Less))
  IN  [found |-> [m \in {k[2] : k \in heap} |-> db[<<beginning(bytes), m>>][1]], tail |-> r.tail]

ACRANGE(bytes, count, start) == AC(bytes, count, start)
ACRANGEALL(count, start)     == AC(<<>>, count, start)
==============================================================================
