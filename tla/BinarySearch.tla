---------------------------- MODULE BinarySearch ----------------------------
(***************************************************************************)
(* include/binarysearch.h: the search every sorted structure of the store  *)
(* uses.  cmp[i] is what comp(array[i], key) answers: below zero when the  *)
(* element is smaller than the key.  Positions are those of the array,     *)
(* last is one past its end; the answer is [found, it].                    *)
(***************************************************************************)
EXTENDS Integers

RECURSIVE linearSearch(_, _, _)
linearSearch(cmp, first, last) ==
    CASE first = last -> [found |-> FALSE, it |-> first]
      [] first # last /\ cmp[first] = 0 -> [found |-> TRUE, it |-> first]
      [] first # last /\ cmp[first] > 0 -> [found |-> FALSE, it |-> first]
      [] OTHER -> linearSearch(cmp, first + 1, last)

RECURSIVE binarySearch(_, _, _, _)
binarySearch(cmp, start, end, minimum_distance) ==
    LET mid == start + ((end - start) \div 2) IN
    CASE start + minimum_distance >= end -> linearSearch(cmp, start, end)
      [] start + minimum_distance < end /\ cmp[mid] < 0 ->
            binarySearch(cmp, mid + 1, end, minimum_distance)
      [] start + minimum_distance < end /\ cmp[mid] > 0 ->
            binarySearch(cmp, start, mid, minimum_distance)
      [] OTHER -> [found |-> TRUE, it |-> mid]

\* comparator::comp of two numbers.
Compare(a, b) == IF a < b THEN -1 ELSE IF a > b THEN 1 ELSE 0

=============================================================================
