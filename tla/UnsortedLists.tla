--------------------------- MODULE UnsortedLists ---------------------------
(***************************************************************************)
(* UnsortedList, the list a binary log may be replayed into                *)
(* (hm4/unsortedlist.h), and the three way radix quicksort it is sorted    *)
(* with before it is flushed (include/threewayquicksort.h).                *)
(*                                                                         *)
(* A pair is [key, created], a key a sequence of characters.  A character  *)
(* is the value of a char, which the build takes as signed: charAt gives   *)
(* -1 for the end of the key, and the sort is only right for characters    *)
(* from 0 to 127 (see the assumption of the instance).                     *)
(***************************************************************************)
EXTENDS Integers, Sequences, SequencesExt

CONSTANTS InsertionMax,     \* the longest range that is sorted by insertion
          CutoffDeep        \* MIN_CUTOFF_DEEP of the recursion

charAt(s, digit) == IF digit < Len(s) THEN s[digit + 1] ELSE -1

\* string_view::compare: the first difference decides, then the length.
Less(a, b) ==
    \E n \in 0..Len(a) :
        /\ n < Len(b)
        /\ SubSeq(a, 1, n) = SubSeq(b, 1, n)
        /\ n = Len(a) \/ (n < Len(a) /\ a[n + 1] < b[n + 1])

\* From digit on, what is before is known to be equal.
compareLT(a, b, digit) ==
    Less(SubSeq(a.key, digit + 1, Len(a.key)), SubSeq(b.key, digit + 1, Len(b.key)))

iter_swap(v, i, j) == [v EXCEPT ![i] = v[j], ![j] = v[i]]

SwapIfGreater(v, i, j, digit) ==
    IF compareLT(v[j], v[i], digit) THEN iter_swap(v, i, j) ELSE v

super2_Sort(v, it, digit) == SwapIfGreater(v, it, it + 1, digit)

super3_Sort(v, it, digit) ==
    LET v1 == SwapIfGreater(v, it, it + 1, digit)
        v2 == SwapIfGreater(v1, it + 1, it + 2, digit)
    IN  SwapIfGreater(v2, it, it + 1, digit)

RECURSIVE InsertDown(_, _, _, _)
InsertDown(v, j, first, digit) ==
    IF j > first /\ compareLT(v[j], v[j - 1], digit)
    THEN InsertDown(iter_swap(v, j, j - 1), j - 1, first, digit)
    ELSE v

insertion_Sort(v, first, last, digit) ==
    FoldLeftDomain(LAMBDA w, i : InsertDown(w, first + i - 1, first, digit),
                   v, [i \in 1..(last - first) |-> i])

\* shell_Sort: v[j] is moved back in steps of gap while it is smaller.
RECURSIVE GapDown(_, _, _, _, _)
GapDown(v, j, first, gap, digit) ==
    IF j >= first + gap /\ compareLT(v[j], v[j - gap], digit)
    THEN GapDown(iter_swap(v, j, j - gap), j - gap, first, gap, digit)
    ELSE v

RECURSIVE ShellPass(_, _, _, _, _, _)
ShellPass(v, it, first, last, gap, digit) ==
    IF it >= last THEN v
    ELSE ShellPass(GapDown(v, it, first, gap, digit), it + 1, first, last, gap, digit)

RECURSIVE ShellGaps(_, _, _, _, _)
ShellGaps(v, first, last, gap, digit) ==
    IF gap = 0 THEN v
    ELSE ShellGaps(ShellPass(v, first + gap, first, last, gap, digit),
                   first, last, gap \div 2, digit)

shell_Sort(v, first, last, digit) ==
    ShellGaps(v, first, last, (last - first) \div 2, digit)

\* median: of the first, the middle and the last element of the range, the
\* one with the middle character is moved to the front.
median(v, first, last, digit) ==
    LET mid == first + ((last - first) \div 2)
        a   == charAt(v[first].key, digit)
        b   == charAt(v[mid].key, digit)
        c   == charAt(v[last].key, digit)
    IN  CASE a > b /\ b > c -> iter_swap(v, first, mid)
          [] a > b /\ b <= c /\ a > c -> iter_swap(v, first, last)
          [] a > b /\ b <= c /\ a <= c -> v
          [] a <= b /\ a > c -> v
          [] a <= b /\ a <= c /\ b > c -> iter_swap(v, first, last)
          [] OTHER -> iter_swap(v, first, mid)

\* The partition into below, equal to and above the pivot's character.
RECURSIVE partition(_, _, _, _, _, _)
partition(v, lt, it, gt, pivot, digit) ==
    LET t == charAt(v[it].key, digit) IN
    CASE it > gt -> [v |-> v, lt |-> lt, gt |-> gt]
      [] it <= gt /\ t < pivot ->
            partition(iter_swap(v, lt, it), lt + 1, it + 1, gt, pivot, digit)
      [] it <= gt /\ t > pivot ->
            partition(iter_swap(v, it, gt), lt, it, gt - 1, pivot, digit)
      [] OTHER -> partition(v, lt, it + 1, gt, pivot, digit)

\* sort: the largest part is left to the next turn of the loop.
RECURSIVE sortLoop(_, _, _, _, _)
sortLoop(v, first, last, digit, deep) ==
    LET n     == last - first
        w     == median(v, first, last - 1, digit)
        pivot == charAt(w[first].key, digit)
        p     == partition(w, first, first + 1, last - 1, pivot, digit)
        lt    == p.lt
        end   == p.gt + 1
        nA    == lt - first
        nB    == end - lt
        nC    == last - end
        Sort(u, f, l, d) == sortLoop(u, f, l, d, deep + 1)
        Mid(u) == IF pivot >= 0 THEN Sort(u, lt, end, digit + 1) ELSE u
    IN  CASE n <= 1 -> v
          [] n = 2 -> super2_Sort(v, first, digit)
          [] n = 3 -> super3_Sort(v, first, digit)
          [] n > 3 /\ n <= InsertionMax -> insertion_Sort(v, first, last, digit)
          [] n > InsertionMax /\ n > 3 /\ deep > CutoffDeep ->
                shell_Sort(v, first, last, digit)
          [] OTHER ->
                CASE nA > nB /\ nA > nC ->
                        sortLoop(Sort(Mid(p.v), end, last, digit),
                                 first, lt, digit, deep)
                  [] nA <= nB /\ nB > nC ->
                        LET u == Sort(Sort(p.v, first, lt, digit), end, last, digit)
                        IN  IF pivot >= 0
                            THEN sortLoop(u, lt, end, digit + 1, deep)
                            ELSE u
                  [] OTHER ->
                        sortLoop(Mid(Sort(p.v, first, lt, digit)),
                                 end, last, digit, deep)

threeWayQuickSort(v) == sortLoop(v, 1, Len(v) + 1, 0, 1)

---------------------------------------------------------------------------
(***************************************************************************)
(* UnsortedList: [v, needSort].                                            *)
(***************************************************************************)

EmptyUnsorted == [v |-> << >>, needSort |-> FALSE]

ut_insertF(s, pair, mem) ==
    IF mem = 0 THEN s ELSE [v |-> Append(s.v, pair), needSort |-> TRUE]

\* special_unique: of equal neighbours the one written last is kept.
RECURSIVE special_unique(_, _, _)
special_unique(v, result, first) ==
    CASE first > Len(v) -> SubSeq(v, 1, result)
      [] first <= Len(v) /\ v[result].key # v[first].key ->
            special_unique([v EXCEPT ![result + 1] = v[first]], result + 1, first + 1)
      [] first <= Len(v) /\ v[result].key = v[first].key
                         /\ v[result].created < v[first].created ->
            special_unique(iter_swap(v, result, first), result, first + 1)
      [] OTHER -> special_unique(v, result, first + 1)

prepareFlush(s) ==
    LET sorted == threeWayQuickSort(s.v) IN
    IF ~s.needSort THEN s
    ELSE [v |-> IF sorted = << >> THEN << >> ELSE special_unique(sorted, 1, 2),
          needSort |-> FALSE]

ut_clear(s) == [s EXCEPT !.v = << >>]

=============================================================================
