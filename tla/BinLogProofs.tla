--------------------------- MODULE BinLogProofs ---------------------------
(***************************************************************************)
(* Proofs about BinLog, for every set of keys and values and any number of *)
(* writes, flushes, crashes and replays.                                   *)
(***************************************************************************)
EXTENDS BinLog, NaturalSets, TLAPS

----------------------------------------------------------------------------
(* The pairs in tables and logs. *)

(* Tables and logs have nothing but pairs.                                  *)
LEMMA FilePairs ==
    ASSUME TypeOK, NEW k \in Keys
    PROVE  /\ \A l \in Lists : InLog(l, k) \subseteq Pair
           /\ InTables(k) \subseteq Pair
           /\ OnFile(k) \subseteq Pair
           /\ NoPair \notin OnFile(k)
<1>1. ASSUME NEW l \in Lists PROVE InLog(l, k) \subseteq Pair
  <2>1. log[l] \in Seq(Entry)
    BY DEF TypeOK
  <2>2. \A n \in DOMAIN log[l] : log[l][n] \in Entry
    BY <2>1
  <2>3. \A n \in DOMAIN log[l] : log[l][n].pair \in Pair
    BY <2>2 DEF Entry
  <2> QED BY <2>3 DEF InLog
<1>2. InTables(k) \subseteq Pair
  BY DEF TypeOK, InTables, List
<1> QED
  BY <1>1, <1>2, NoneAssumption DEF OnFile, Lists

(* A record that is appended to a log adds its pair to that log.            *)
LEMMA AppendInLog ==
    ASSUME TypeOK, NEW l \in Lists, NEW j \in Keys, NEW p \in Pair,
           log' = Logged(l, j, p)
    PROVE  \A m \in Lists, k \in Keys :
             InLog(m, k)' = IF m = l /\ k = j THEN InLog(m, k) \cup {p}
                                             ELSE InLog(m, k)
<1> DEFINE e == [key |-> j, pair |-> p]
<1>0. e \in Entry /\ e.key = j /\ e.pair = p /\ log' = [log EXCEPT ![l] = Append(@, e)]
  BY DEF Entry, Logged
<1> HIDE DEF e
<1> SUFFICES ASSUME NEW m \in Lists, NEW k \in Keys
             PROVE  InLog(m, k)' = IF m = l /\ k = e.key
                                     THEN InLog(m, k) \cup {e.pair}
                                     ELSE InLog(m, k)
  BY <1>0
<1>1. log[l] \in Seq(Entry) /\ log \in [Lists -> Seq(Entry)]
  BY DEF TypeOK
<1>2. CASE m # l
  BY <1>0, <1>1, <1>2 DEF InLog
<1>3. CASE m = l
  <2> DEFINE s == log[l]
  <2>1. log'[m] = Append(s, e)
    BY <1>0, <1>1, <1>3
  <2>2. /\ DOMAIN Append(s, e) = 1 .. Len(s) + 1 /\ DOMAIN s = 1 .. Len(s)
        /\ Len(s) \in Nat
        /\ \A n \in 1 .. Len(s) : Append(s, e)[n] = s[n]
        /\ Append(s, e)[Len(s) + 1] = e
    BY <1>0, <1>1
  <2>3. InLog(m, k)' = {Append(s, e)[n].pair :
                          n \in {n \in 1 .. Len(s) + 1 : Append(s, e)[n].key = k}}
    BY <2>1, <2>2 DEF InLog
  <2>4. InLog(m, k) = {s[n].pair : n \in {n \in 1 .. Len(s) : s[n].key = k}}
    BY <1>3, <2>2 DEF InLog
  <2> HIDE DEF s
  <2>5. InLog(m, k)' \subseteq InLog(m, k) \cup (IF e.key = k THEN {e.pair} ELSE {})
    BY <2>2, <2>3, <2>4
  <2>6. InLog(m, k) \subseteq InLog(m, k)'
    BY <2>2, <2>3, <2>4
  <2>7. e.key = k => e.pair \in InLog(m, k)'
    BY <2>2, <2>3
  <2> QED BY <1>3, <2>5, <2>6, <2>7
<1> QED BY <1>2, <1>3

(* A log that is truncated or unlinked has no pairs, the other one is kept. *)
LEMMA CutInLog ==
    ASSUME TypeOK, NEW l \in Lists, log' = Truncated(l)
    PROVE  \A m \in Lists, k \in Keys :
             InLog(m, k)' = IF m = l THEN {} ELSE InLog(m, k)
BY DEF TypeOK, InLog, Truncated

(* A list that is saved adds its pairs to the tables.                       *)
LEMMA SavedInTables ==
    ASSUME TypeOK, NEW x \in List, disk' = Saved(x)
    PROVE  \A k \in Keys : InTables(k)' = InTables(k) \cup ({x[k]} \ {NoPair})
BY DEF TypeOK, InTables, Saved, List, EmptyList

(* Pairs with times up to a bound have a newest one.                        *)
LEMMA NewestExists ==
    ASSUME NEW S \in SUBSET Pair, S # {}, NEW n \in Nat, \A p \in S : p.created <= n
    PROVE  \E p \in S : Newest(S, p)
<1> DEFINE T == {p.created : p \in S}
<1>1. T \in SUBSET Nat /\ T # {} /\ \A t \in T : t <= n
  BY DEF Pair
<1>2. PICK m \in T : \A t \in T : t <= m
  BY <1>1, LargestExists
<1> QED BY <1>2 DEF Newest

(* What the tables give for a key is the newest of its pairs there.         *)
LEMMA TablesGiveNewest ==
    ASSUME IInv, NEW k \in Keys
    PROVE  IF InTables(k) = {} THEN TablesGetPair(k) = NoPair
           ELSE Newest(InTables(k), TablesGetPair(k))
<1>1. InTables(k) \subseteq Pair /\ \A p \in InTables(k) : p.created <= now
  BY FilePairs DEF IInv, TimesInv, OnFile
<1>2. now \in Nat
  BY DEF IInv, TypeOK
<1>3. InTables(k) # {} => \E p \in InTables(k) : \A q \in InTables(k) : q.created <= p.created
  BY <1>1, <1>2, NewestExists DEF Newest
<1> QED BY <1>3 DEF TablesGetPair, Newest
----------------------------------------------------------------------------
(* The types. *)

(* Every step keeps the types.                                              *)
LEMMA TypeStep == TypeOK /\ [Next]_vars => TypeOK'
<1> SUFFICES ASSUME TypeOK, [Next]_vars PROVE TypeOK'
  OBVIOUS
<1>1. EmptyList \in List /\ <<>> \in Seq(Entry) /\ other \in Lists
  BY DEF EmptyList, List, TypeOK, Lists, other
<1>2. ASSUME NEW k \in Keys, NEW v \in Vals \cup {NoVal}, Insert(k, v) PROVE TypeOK'
  <2> DEFINE p == [val |-> v, created |-> now + 1]
  <2>1. p \in Pair /\ [key |-> k, pair |-> p] \in Entry
    BY DEF Pair, Entry, TypeOK
  <2> HIDE DEF p
  <2>2. list' \in [Lists -> List] /\ latest' \in List
    BY <1>2, <2>1 DEF Insert, TypeOK, List, p
  <2>3. log' \in [Lists -> Seq(Entry)]
    BY <1>2, <2>1 DEF Insert, TypeOK, Logged, p
  <2> QED BY <1>2, <2>2, <2>3 DEF Insert, TypeOK
<1>3. ASSUME NEW k \in Keys, EraseReal(k) PROVE TypeOK'
  <2> DEFINE p == [val |-> NoVal, created |-> now + 1]
  <2>1. p \in Pair /\ [key |-> k, pair |-> p] \in Entry
    BY DEF Pair, Entry, TypeOK
  <2> HIDE DEF p
  <2>2. list' \in [Lists -> List] /\ latest' \in List
    BY <1>3, <2>1 DEF EraseReal, TypeOK, List, p
  <2>3. log' \in [Lists -> Seq(Entry)]
    BY <1>3, <2>1 DEF EraseReal, TypeOK, Logged, p
  <2> QED BY <1>3, <2>2, <2>3 DEF EraseReal, TypeOK
<1>4. CASE Flush
  BY <1>1, <1>4 DEF Flush, TypeOK
<1>5. CASE Clear
  <2>1. list' \in [Lists -> List] /\ log' \in [Lists -> Seq(Entry)]
    BY <1>1, <1>5 DEF Clear, TypeOK, Truncated
  <2> QED BY <1>5, <2>1 DEF Clear, TypeOK
<1>6. CASE SaveFinish
  <2>1. list[other] \in List
    BY <1>1 DEF TypeOK
  <2> QED BY <1>6, <2>1 DEF SaveFinish, TypeOK
<1>7. CASE Shutdown
  BY <1>1, <1>7 DEF Shutdown, Saved, TypeOK
<1>8. CASE Unlink2 \/ Unlink1
  <2>1. log' \in [Lists -> Seq(Entry)]
    BY <1>1, <1>8 DEF Unlink2, Unlink1, TypeOK, Truncated, Lists
  <2> QED BY <1>8, <2>1 DEF Unlink2, Unlink1, TypeOK
<1>9. CASE Crash
  BY <1>1, <1>9 DEF Crash, TypeOK
<1>10. ASSUME NEW n \in Lists, ReplayRecord(n) PROVE TypeOK'
  <2>1. log[n] \in Seq(Entry) /\ pos + 1 \in DOMAIN log[n]
    BY <1>10 DEF ReplayRecord, TypeOK
  <2>2. log[n][pos + 1] \in Entry
    BY <2>1
  <2>3. ReplayInsert(list[n], log[n][pos + 1]) \in List
    BY <2>2 DEF ReplayInsert, Entry, TypeOK, List
  <2> QED BY <1>10, <2>3 DEF ReplayRecord, TypeOK
<1>11. ASSUME NEW n \in Lists, ReplayFlush(n) \/ ReplayEnd(n) PROVE TypeOK'
  <2>1. disk' \subseteq List /\ list' \in [Lists -> List]
    BY <1>1, <1>11 DEF ReplayFlush, ReplayEnd, Saved, TypeOK
  <2> QED BY <1>11, <2>1 DEF ReplayFlush, ReplayEnd, TypeOK
<1>12. CASE Open
  <2>1. \A k \in Keys : TablesGetPair(k) \in Pair \cup {NoPair}
    BY FilePairs DEF TablesGetPair
  <2> QED BY <1>12, <2>1 DEF Open, TypeOK, List, Lists
<1>13. CASE UNCHANGED vars
  BY <1>13 DEF vars, TypeOK
<1> QED
  BY <1>2, <1>3, <1>4, <1>5, <1>6, <1>7, <1>8, <1>9, <1>10, <1>11, <1>12, <1>13
  DEF Next, EraseTombstone
----------------------------------------------------------------------------
(* Serving. *)

(* A pair that is made now and logged is the newest on file, and it is the  *)
(* only change there.                                                       *)
LEMMA LogStep ==
    ASSUME IInv, NEW a \in Lists, NEW k \in Keys, NEW p \in Pair,
           p.created = now + 1, now' = now + 1, disk' = disk,
           log' = Logged(a, k, p),
           latest' = [latest EXCEPT ![k] = p]
    PROVE  /\ \A j \in Keys : InTables(j)' = InTables(j)
           /\ \A l \in Lists, j \in Keys :
                InLog(l, j)' = IF l = a /\ j = k THEN InLog(l, j) \cup {p}
                                                  ELSE InLog(l, j)
           /\ \A q \in OnFile(k) : q.created < p.created
           /\ Newest(InLog(a, k)', p)
           /\ TimesInv'
           /\ Durable'
<1>1. TypeOK /\ TimesInv /\ Durable /\ now \in Nat /\ p # NoPair
  BY NoneAssumption DEF IInv, TypeOK
<1>2. \A j \in Keys : InTables(j)' = InTables(j)
  BY DEF InTables
<1>3. \A l \in Lists, j \in Keys :
        InLog(l, j)' = IF l = a /\ j = k THEN InLog(l, j) \cup {p} ELSE InLog(l, j)
  BY <1>1, AppendInLog
<1>4. \A j \in Keys : OnFile(j)' = IF j = k THEN OnFile(j) \cup {p} ELSE OnFile(j)
  BY <1>1, <1>2, <1>3 DEF OnFile, Lists
<1>5. \A j \in Keys : \A q \in OnFile(j) : q.created \in Nat /\ q.created <= now
  BY <1>1, FilePairs DEF TimesInv, Pair
<1>6. \A q \in OnFile(k) : q.created < p.created
  BY <1>1, <1>5
<1>7. Newest(InLog(a, k)', p)
  <2>1. InLog(a, k) \subseteq OnFile(k)
    BY <1>1 DEF OnFile, Lists
  <2> QED BY <1>1, <1>3, <1>5, <1>6, <2>1 DEF Newest
<1>8. TimesInv'
  <2> SUFFICES ASSUME NEW j \in Keys, NEW q \in OnFile(j)', NEW r \in OnFile(j)'
               PROVE  q.created <= now' /\ (q.created = r.created => q = r)
    BY DEF TimesInv
  <2>1. CASE j # k
    BY <1>1, <1>4, <1>5, <2>1 DEF TimesInv
  <2>2. CASE j = k
    BY <1>1, <1>4, <1>5, <1>6, <2>2 DEF TimesInv
  <2> QED BY <2>1, <2>2
<1>9. Durable'
  <2> SUFFICES ASSUME NEW j \in Keys
               PROVE  IF OnFile(j)' = {} THEN ValOf(latest'[j]) = NoVal
                      ELSE \E q \in OnFile(j)' :
                             q.val = ValOf(latest'[j]) /\ Newest(OnFile(j)', q)
    BY DEF Durable, ValOf
  <2>1. CASE j # k
    BY <1>1, <1>4, <2>1 DEF Durable, TypeOK, List
  <2>2. CASE j = k
    <3>1. latest'[k] = p /\ p.created <= p.created
      BY <1>1 DEF TypeOK, List
    <3>2. p.val = ValOf(latest'[k]) /\ Newest(OnFile(k)', p)
      BY <1>1, <1>4, <1>5, <1>6, <3>1 DEF Newest, ValOf
    <3> QED BY <1>4, <2>2, <3>2
  <2> QED BY <2>1, <2>2
<1> QED BY <1>2, <1>3, <1>6, <1>7, <1>8, <1>9

(* A write: the list and its log get the pair.                              *)
LEMMA InsertStep ==
    ASSUME IInv, TypeOK', NEW k \in Keys, NEW v \in Vals \cup {NoVal}, Insert(k, v)
    PROVE  IInv'
<1>1. PICK a \in Lists : a = act
  BY DEF IInv, TypeOK
<1>2. PICK p \in Pair : p = [val |-> v, created |-> now + 1]
  <2>1. [val |-> v, created |-> now + 1] \in Pair
    BY DEF Pair, IInv, TypeOK
  <2> QED BY <2>1
<1>3. /\ p.created = now + 1 /\ now' = now + 1 /\ disk' = disk /\ act' = a
      /\ log' = Logged(a, k, p) /\ latest' = [latest EXCEPT ![k] = p]
      /\ list' = [list EXCEPT ![a][k] = p]
      /\ saving' = saving /\ pc = "up" /\ pc' = "up" /\ pos' = pos
  BY <1>1, <1>2 DEF Insert
<1>4. /\ \A j \in Keys : InTables(j)' = InTables(j)
      /\ \A l \in Lists, j \in Keys :
           InLog(l, j)' = IF l = a /\ j = k THEN InLog(l, j) \cup {p} ELSE InLog(l, j)
      /\ \A q \in OnFile(k) : q.created < p.created
      /\ Newest(InLog(a, k)', p)
      /\ TimesInv' /\ Durable'
  BY <1>3, LogStep
<1>5. list \in [Lists -> List] /\ p # NoPair /\ a \in Lists
  BY NoneAssumption DEF IInv, TypeOK
<1>6. \A l \in Lists, j \in Keys :
        list'[l][j] = IF l = a /\ j = k THEN p ELSE list[l][j]
  BY <1>3, <1>5 DEF List
<1>7. ControlInv'
  BY <1>3 DEF IInv, ControlInv, Serving, Replaying
<1>8. MirrorInv'
  <2> SUFFICES ASSUME NEW l \in Lists, NEW j \in Keys
               PROVE  IF list'[l][j] # NoPair THEN Newest(InLog(l, j)', list'[l][j])
                      ELSE InLog(l, j)' # {} =>
                             \E t \in InLog(l, j)' : t.val = NoVal /\ Newest(InLog(l, j)', t)
    BY DEF MirrorInv
  <2>1. CASE l = a /\ j = k
    BY <1>4, <1>5, <1>6, <2>1
  <2>2. CASE ~(l = a /\ j = k)
    BY <1>3, <1>4, <1>6, <2>2 DEF IInv, MirrorInv, Serving
  <2> QED BY <2>1, <2>2
<1>9. ErasedInv'
  <2> SUFFICES ASSUME NEW l \in Lists, NEW j \in Keys, list'[l][j] = NoPair,
                      NEW t \in InLog(l, j)', Newest(InLog(l, j)', t),
                      NEW q \in InTables(j)' \cup ({list'[3 - l][j]} \ {NoPair})
               PROVE  t.created < q.created
    BY DEF ErasedInv
  <2>1. ~(l = a /\ j = k) /\ list[l][j] = NoPair /\ InLog(l, j)' = InLog(l, j)
    BY <1>4, <1>5, <1>6
  <2>2. 3 - l \in Lists
    BY DEF Lists
  <2>3. CASE q = p /\ j = k
    BY <1>4, <2>1, <2>3 DEF OnFile, Lists
  <2>4. CASE ~(q = p /\ j = k)
    <3>1. q \in InTables(j) \cup ({list[3 - l][j]} \ {NoPair})
      BY <1>4, <1>6, <2>2, <2>4
    <3> QED BY <1>3, <2>1, <3>1 DEF IInv, ErasedInv, Serving
  <2> QED BY <2>3, <2>4
<1>10. SavedInv'
  <2>1. list'[other] = list[other]
    BY <1>1, <1>3, <1>5 DEF other, Lists
  <2> QED BY <1>1, <1>3, <2>1 DEF IInv, SavedInv, Serving, other
<1>11. UnlinkInv' /\ ReplayInv'
  BY <1>3 DEF UnlinkInv, ReplayInv, Replaying, Lists
<1> QED BY <1>4, <1>7, <1>8, <1>9, <1>10, <1>11 DEF IInv

(* A pair is erased for real: nothing older could show up, its log has a    *)
(* tombstone.                                                               *)
LEMMA EraseRealStep ==
    ASSUME IInv, TypeOK', NEW k \in Keys, EraseReal(k)
    PROVE  IInv'
<1>1. PICK a \in Lists : a = act
  BY DEF IInv, TypeOK
<1>2. PICK p \in Pair : p = [val |-> NoVal, created |-> now + 1]
  <2>1. [val |-> NoVal, created |-> now + 1] \in Pair
    BY DEF Pair, IInv, TypeOK
  <2> QED BY <2>1
<1>3. /\ p.created = now + 1 /\ p.val = NoVal /\ now' = now + 1 /\ disk' = disk /\ act' = a
      /\ log' = Logged(a, k, p) /\ latest' = [latest EXCEPT ![k] = p]
      /\ list' = [list EXCEPT ![a][k] = NoPair]
      /\ disk = {} /\ list[3 - a] = EmptyList
      /\ saving' = saving /\ pc = "up" /\ pc' = "up" /\ pos' = pos
  BY <1>1, <1>2 DEF EraseReal, MayEraseReally, other
<1>4. /\ \A j \in Keys : InTables(j)' = InTables(j)
      /\ \A l \in Lists, j \in Keys :
           InLog(l, j)' = IF l = a /\ j = k THEN InLog(l, j) \cup {p} ELSE InLog(l, j)
      /\ \A q \in OnFile(k) : q.created < p.created
      /\ Newest(InLog(a, k)', p)
      /\ TimesInv' /\ Durable'
  BY <1>3, LogStep
<1>5. list \in [Lists -> List] /\ p # NoPair /\ a \in Lists
  BY NoneAssumption DEF IInv, TypeOK
<1>6. \A l \in Lists, j \in Keys :
        list'[l][j] = IF l = a /\ j = k THEN NoPair ELSE list[l][j]
  BY <1>3, <1>5 DEF List
<1>7. ControlInv'
  BY <1>3 DEF IInv, ControlInv, Serving, Replaying
<1>8. MirrorInv'
  <2> SUFFICES ASSUME NEW l \in Lists, NEW j \in Keys
               PROVE  IF list'[l][j] # NoPair THEN Newest(InLog(l, j)', list'[l][j])
                      ELSE InLog(l, j)' # {} =>
                             \E t \in InLog(l, j)' : t.val = NoVal /\ Newest(InLog(l, j)', t)
    BY DEF MirrorInv
  <2>1. CASE l = a /\ j = k
    BY <1>3, <1>4, <1>5, <1>6, <2>1 DEF Newest
  <2>2. CASE ~(l = a /\ j = k)
    BY <1>3, <1>4, <1>6, <2>2 DEF IInv, MirrorInv, Serving
  <2> QED BY <2>1, <2>2
<1>9. ErasedInv'
  <2> SUFFICES ASSUME NEW l \in Lists, NEW j \in Keys, list'[l][j] = NoPair,
                      NEW t \in InLog(l, j)', Newest(InLog(l, j)', t),
                      NEW q \in InTables(j)' \cup ({list'[3 - l][j]} \ {NoPair})
               PROVE  t.created < q.created
    BY DEF ErasedInv
  <2>1. 3 - l \in Lists
    BY DEF Lists
  <2>2. CASE l = a /\ j = k
    <3>1. InTables(k)' = {} /\ list'[3 - a][k] = NoPair
      BY <1>3, <1>5 DEF InTables, EmptyList, Lists
    <3> QED BY <2>2, <3>1
  <2>3. CASE ~(l = a /\ j = k)
    BY <1>3, <1>4, <1>5, <1>6, <2>1, <2>3 DEF IInv, ErasedInv, Serving
  <2> QED BY <2>2, <2>3
<1>10. SavedInv'
  <2>1. list'[other] = list[other]
    BY <1>1, <1>3, <1>5 DEF other, Lists
  <2> QED BY <1>1, <1>3, <2>1 DEF IInv, SavedInv, Serving, other
<1>11. UnlinkInv' /\ ReplayInv'
  BY <1>3 DEF UnlinkInv, ReplayInv, Replaying, Lists
<1> QED BY <1>4, <1>7, <1>8, <1>9, <1>10, <1>11 DEF IInv

(* Steps that leave the files' pairs alone leave what is durable alone.     *)
LEMMA FilesKept ==
    ASSUME IInv, now' = now, latest' = latest,
           \A k \in Keys : OnFile(k)' = OnFile(k)
    PROVE  TimesInv' /\ Durable'
<1>1. TimesInv'
  BY DEF IInv, TimesInv
<1>2. Durable'
  BY DEF IInv, Durable, ValOf
<1> QED BY <1>1, <1>2

(* The pairs on file when tables and logs are as before.                    *)
LEMMA SameFiles ==
    ASSUME log' = log, disk' = disk
    PROVE  \A k \in Keys : /\ InTables(k)' = InTables(k)
                           /\ OnFile(k)' = OnFile(k)
                           /\ \A l \in Lists : InLog(l, k)' = InLog(l, k)
BY DEF InTables, InLog, OnFile

(* The swap: the list that was saved before becomes the one to clear.       *)
LEMMA FlushStep ==
    ASSUME IInv, TypeOK', Flush
    PROVE  IInv'
<1>1. /\ pc = "up" /\ pc' = "clear" /\ ~saving /\ saving' = TRUE
      /\ act' = 3 - act /\ now' = now /\ list' = list /\ log' = log /\ disk' = disk
      /\ pos' = pos /\ latest' = latest
  BY DEF Flush, other
<1>2. TimesInv' /\ Durable'
  BY <1>1, SameFiles, FilesKept
<1>3. ControlInv'
  BY <1>1 DEF IInv, ControlInv, Serving, Replaying
<1>4. MirrorInv'
  BY <1>1, SameFiles DEF IInv, MirrorInv, Serving
<1>5. ErasedInv'
  BY <1>1, SameFiles DEF IInv, ErasedInv, Serving
<1>6. SavedInv'
  BY <1>1 DEF IInv, SavedInv, Serving, other
<1>7. UnlinkInv' /\ ReplayInv'
  BY <1>1 DEF UnlinkInv, ReplayInv, Replaying, Lists
<1> QED BY <1>2, <1>3, <1>4, <1>5, <1>6, <1>7 DEF IInv

(* The save thread is done: the table has the pairs its list's log has.     *)
LEMMA SaveFinishStep ==
    ASSUME IInv, TypeOK', SaveFinish
    PROVE  IInv'
<1>1. PICK o \in Lists : o = other
  BY DEF IInv, TypeOK, other, Lists
<1>2. /\ saving /\ saving' = FALSE /\ disk' = disk \cup {list[o]}
      /\ now' = now /\ act' = act /\ list' = list /\ log' = log
      /\ pc' = pc /\ pos' = pos /\ latest' = latest /\ Serving
  BY <1>1 DEF SaveFinish, IInv, ControlInv
<1>3. \A k \in Keys : InTables(k)' = InTables(k) \cup ({list[o][k]} \ {NoPair})
  BY <1>2 DEF InTables
<1>4. \A l \in Lists, k \in Keys : InLog(l, k)' = InLog(l, k)
  BY <1>2 DEF InLog
<1>5. \A k \in Keys : OnFile(k)' = OnFile(k)
  <2>1. \A k \in Keys : list[o][k] # NoPair => list[o][k] \in InLog(o, k)
    BY <1>2 DEF IInv, MirrorInv, Newest
  <2> QED BY <1>3, <1>4, <2>1 DEF OnFile, Lists
<1>6. TimesInv' /\ Durable'
  BY <1>2, <1>5, FilesKept
<1>7. ControlInv'
  BY <1>2 DEF IInv, ControlInv, Serving, Replaying
<1>8. MirrorInv'
  BY <1>2, <1>4 DEF IInv, MirrorInv, Serving
<1>9. ErasedInv'
  <2> SUFFICES ASSUME NEW l \in Lists, NEW k \in Keys, list[l][k] = NoPair,
                      NEW t \in InLog(l, k), Newest(InLog(l, k), t),
                      NEW q \in InTables(k)' \cup ({list[3 - l][k]} \ {NoPair})
               PROVE  t.created < q.created
    BY <1>2, <1>4 DEF ErasedInv
  <2>1. l # o => o = 3 - l
    BY DEF Lists
  <2>2. q \in InTables(k) \cup ({list[3 - l][k]} \ {NoPair})
    BY <1>3, <2>1
  <2> QED BY <1>2, <2>2 DEF IInv, ErasedInv
<1>10. SavedInv'
  BY <1>1, <1>2 DEF IInv, SavedInv, Serving, other
<1>11. UnlinkInv' /\ ReplayInv'
  BY <1>2 DEF UnlinkInv, ReplayInv, Replaying, Lists, Serving
<1> QED BY <1>6, <1>7, <1>8, <1>9, <1>10, <1>11 DEF IInv

(* The newest pair is only one, and there is one in every set of pairs.     *)
LEMMA NewestUnique ==
    ASSUME IInv, NEW k \in Keys, NEW S \in SUBSET OnFile(k),
           NEW p, Newest(S, p), NEW q, Newest(S, q)
    PROVE  p = q
<1>1. p \in Pair /\ q \in Pair /\ p \in OnFile(k) /\ q \in OnFile(k)
  BY FilePairs DEF Newest, IInv
<1>2. p.created = q.created
  BY <1>1 DEF Newest, Pair
<1> QED BY <1>1, <1>2 DEF IInv, TimesInv

(***************************************************************************)
(* A log may go when every key's newest record is covered, and a deletion  *)
(* that goes with it leaves no older value in the other log.               *)
(***************************************************************************)
LEMMA CutLog ==
    ASSUME IInv, NEW l \in Lists, NEW m \in Lists, m # l,
           log' = Truncated(l), disk' = disk, latest' = latest, now' = now,
           \A k \in Keys : Covered(l, k),
           \A k \in Keys : InTables(k) = {} /\ InLog(m, k) # {} =>
               \/ \E t \in InLog(m, k) : t.val = NoVal /\ Newest(InLog(m, k), t)
               \/ \E q \in InLog(m, k) : \A t \in InLog(l, k) : t.created < q.created
    PROVE  TimesInv' /\ Durable'
<1>1. \A k \in Keys : InTables(k)' = InTables(k)
  BY DEF InTables
<1>2. \A k \in Keys : InLog(l, k)' = {} /\ InLog(m, k)' = InLog(m, k)
  BY CutInLog DEF IInv
<1>3. \A k \in Keys : /\ OnFile(k) = InTables(k) \cup InLog(l, k) \cup InLog(m, k)
                      /\ OnFile(k)' = InTables(k) \cup InLog(m, k)
  BY <1>1, <1>2 DEF OnFile, Lists
<1>4. TimesInv'
  BY <1>3 DEF IInv, TimesInv
<1>5. Durable'
  <2> SUFFICES ASSUME NEW k \in Keys
               PROVE  IF OnFile(k)' = {} THEN ValOf(latest[k]) = NoVal
                      ELSE \E p \in OnFile(k)' :
                             p.val = ValOf(latest[k]) /\ Newest(OnFile(k)', p)
    BY DEF Durable, ValOf
  <2>1. CASE OnFile(k) = {}
    BY <1>3, <2>1 DEF IInv, Durable
  <2>2. CASE OnFile(k) # {}
    <3>1. PICK p \in OnFile(k) : p.val = ValOf(latest[k]) /\ Newest(OnFile(k), p)
      BY <2>2 DEF IInv, Durable
    <3>2. CASE p \in OnFile(k)'
      BY <1>3, <3>1, <3>2 DEF Newest
    <3>3. CASE p \notin OnFile(k)'
      <4>1. p \in InLog(l, k) /\ Newest(InLog(l, k), p)
        BY <1>3, <3>1, <3>3 DEF Newest
      <4>2. PICK c \in InLog(l, k) :
               /\ Newest(InLog(l, k), c)
               /\ \/ c \in InTables(k)
                  \/ c.val = NoVal /\ \A q \in InTables(k) : c.created < q.created
        BY <4>1 DEF Covered
      <4>3. c = p
        BY <1>3, <4>1, <4>2, NewestUnique
      <4>4. p.val = NoVal /\ \A q \in InTables(k) : p.created < q.created
        BY <1>3, <3>3, <4>2, <4>3
      <4>5. \A q \in OnFile(k) : q.created <= p.created /\ ~(p.created < q.created)
        <5>1. \A q \in OnFile(k) : q.created \in Nat /\ p.created \in Nat
          BY FilePairs DEF IInv, Pair
        <5> QED BY <3>1, <5>1 DEF Newest
      <4>6. InTables(k) = {}
        BY <1>3, <4>4, <4>5
      <4>7. CASE InLog(m, k) = {}
        BY <1>3, <3>1, <4>4, <4>6, <4>7
      <4>8. CASE InLog(m, k) # {}
        <5>1. PICK t \in InLog(m, k) : t.val = NoVal /\ Newest(InLog(m, k), t)
          BY <1>3, <4>1, <4>5, <4>6, <4>8
        <5>2. OnFile(k)' = InLog(m, k) /\ t.val = ValOf(latest[k])
          BY <1>3, <3>1, <4>4, <4>6, <5>1
        <5> QED BY <5>1, <5>2
      <4> QED BY <4>7, <4>8
    <3> QED BY <3>2, <3>3
  <2> QED BY <2>1, <2>2
<1> QED BY <1>4, <1>5

(* The list that was saved is cleared and its log truncated.                *)
LEMMA ClearStep ==
    ASSUME IInv, TypeOK', Clear
    PROVE  IInv'
<1>1. PICK a \in Lists : a = act
  BY DEF IInv, TypeOK
<1>2. PICK o \in Lists : o = 3 - a
  BY DEF Lists
<1>3. /\ pc = "clear" /\ pc' = "up" /\ now' = now /\ act' = act /\ saving' = saving
      /\ disk' = disk /\ pos' = pos /\ latest' = latest /\ Serving
      /\ o # a /\ a = 3 - o /\ other = o
  BY <1>1, <1>2 DEF Clear, Serving, Lists, other
<1>4. CASE list[a] = EmptyList
  <2>1. list' = list /\ log' = log
    BY <1>1, <1>4 DEF Clear
  <2>2. TimesInv' /\ Durable'
    BY <1>3, <2>1, SameFiles, FilesKept
  <2>3. ControlInv'
    BY <1>3, <2>1 DEF IInv, ControlInv, Serving, Replaying
  <2>4. MirrorInv'
    BY <1>3, <2>1, SameFiles DEF IInv, MirrorInv, Serving
  <2>5. ErasedInv'
    BY <1>3, <2>1, SameFiles DEF IInv, ErasedInv, Serving
  <2>6. SavedInv'
    BY <1>3, <2>1 DEF IInv, SavedInv, Serving, other
  <2>7. UnlinkInv' /\ ReplayInv'
    BY <1>3 DEF UnlinkInv, ReplayInv, Replaying, Lists
  <2> QED BY <2>2, <2>3, <2>4, <2>5, <2>6, <2>7 DEF IInv
<1>5. CASE list[a] # EmptyList
  <2>1. /\ list' = [list EXCEPT ![a] = EmptyList] /\ log' = Truncated(a)
        /\ list \in [Lists -> List]
    BY <1>1, <1>5 DEF Clear, IInv, TypeOK
  <2>2. \A k \in Keys : /\ list'[a][k] = NoPair /\ list'[o][k] = list[o][k]
                        /\ InTables(k)' = InTables(k)
                        /\ InLog(a, k)' = {} /\ InLog(o, k)' = InLog(o, k)
    BY <1>3, <2>1, CutInLog DEF IInv, EmptyList, InTables
  <2>3. \A k \in Keys : list[a][k] # NoPair => list[a][k] \in InTables(k)
    BY <1>1, <1>3, <1>5 DEF IInv, SavedInv, InTables
  <2>4. \A k \in Keys : Covered(a, k)
    <3> SUFFICES ASSUME NEW k \in Keys, InLog(a, k) # {}
                 PROVE  \E p \in InLog(a, k) :
                           /\ Newest(InLog(a, k), p)
                           /\ \/ p \in InTables(k)
                              \/ p.val = NoVal /\ \A q \in InTables(k) : p.created < q.created
      BY DEF Covered
    <3>1. CASE list[a][k] # NoPair
      BY <1>3, <2>3, <3>1 DEF IInv, MirrorInv, Newest
    <3>2. CASE list[a][k] = NoPair
      BY <1>3, <3>2 DEF IInv, MirrorInv, ErasedInv
    <3> QED BY <3>1, <3>2
  <2>5. \A k \in Keys : InTables(k) = {} /\ InLog(o, k) # {} =>
               \/ \E t \in InLog(o, k) : t.val = NoVal /\ Newest(InLog(o, k), t)
               \/ \E q \in InLog(o, k) : \A t \in InLog(a, k) : t.created < q.created
    <3> SUFFICES ASSUME NEW k \in Keys, InTables(k) = {}, InLog(o, k) # {},
                        list[o][k] # NoPair
                 PROVE  \A t \in InLog(a, k) : t.created < list[o][k].created
      BY <1>3 DEF IInv, MirrorInv, Newest
    <3>1. list[a][k] = NoPair
      BY <2>3
    <3>2. \A t \in InLog(a, k) : Newest(InLog(a, k), t) => t.created < list[o][k].created
      BY <1>2, <1>3, <3>1 DEF IInv, ErasedInv
    <3>3. InLog(a, k) # {} => \E t \in InLog(a, k) : Newest(InLog(a, k), t)
      BY <1>3, <3>1 DEF IInv, MirrorInv
    <3>4. list[o][k] \in InLog(o, k)
      BY <1>3 DEF IInv, MirrorInv, Newest
    <3>5. /\ \A t \in InLog(a, k) : t.created \in Nat
          /\ list[o][k].created \in Nat
      BY <3>4, FilePairs DEF IInv, Pair
    <3> QED BY <3>2, <3>3, <3>5 DEF Newest
  <2>6. TimesInv' /\ Durable'
    BY <1>3, <2>1, <2>4, <2>5, CutLog
  <2>7. ControlInv'
    BY <1>3 DEF IInv, ControlInv, Serving, Replaying
  <2>8. MirrorInv'
    <3> SUFFICES ASSUME NEW l \in Lists, NEW j \in Keys
                 PROVE  IF list'[l][j] # NoPair THEN Newest(InLog(l, j)', list'[l][j])
                        ELSE InLog(l, j)' # {} =>
                          \E t \in InLog(l, j)' : t.val = NoVal /\ Newest(InLog(l, j)', t)
      BY DEF MirrorInv
    <3>1. l = a \/ l = o
      BY <1>3 DEF Lists
    <3> QED BY <1>3, <2>2, <3>1 DEF IInv, MirrorInv
  <2>9. ErasedInv'
    <3> SUFFICES ASSUME NEW l \in Lists, NEW j \in Keys, list'[l][j] = NoPair,
                        NEW t \in InLog(l, j)', Newest(InLog(l, j)', t),
                        NEW q \in InTables(j)' \cup ({list'[3 - l][j]} \ {NoPair})
                 PROVE  t.created < q.created
      BY DEF ErasedInv
    <3>1. l = o
      BY <1>3, <2>2 DEF Lists
    <3> QED BY <1>3, <2>2, <3>1 DEF IInv, ErasedInv
  <2>10. SavedInv'
    <3>1. list'[o] = list[o]
      BY <1>3, <2>1
    <3> QED BY <1>3, <3>1 DEF IInv, SavedInv, Serving, other
  <2>11. UnlinkInv' /\ ReplayInv'
    BY <1>3 DEF UnlinkInv, ReplayInv, Replaying, Lists
  <2> QED BY <2>6, <2>7, <2>8, <2>9, <2>10, <2>11 DEF IInv
<1> QED BY <1>4, <1>5
----------------------------------------------------------------------------
(* Stopping and starting. *)

(* SHUTDOWN saves the active list: now every log is covered by the tables.  *)
LEMMA ShutdownStep ==
    ASSUME IInv, TypeOK', Shutdown
    PROVE  IInv'
<1>1. PICK a \in Lists : a = act
  BY DEF IInv, TypeOK
<1>2. PICK o \in Lists : o = 3 - a
  BY DEF Lists
<1>3. /\ pc = "up" /\ pc' = "unlink2" /\ ~saving /\ saving' = saving /\ Serving
      /\ now' = now /\ act' = act /\ log' = log /\ pos' = pos /\ latest' = latest
      /\ list' = [l \in Lists |-> EmptyList] /\ disk' = Saved(list[a])
      /\ o # a /\ a = 3 - o /\ other = o
  BY <1>1, <1>2 DEF Shutdown, Serving, Lists, other
<1>4. list[a] \in List /\ \A k \in Keys : InTables(k)' = InTables(k) \cup ({list[a][k]} \ {NoPair})
  <2>1. list[a] \in List
    BY DEF IInv, TypeOK
  <2> QED BY <1>3, <2>1, SavedInTables DEF IInv
<1>5. \A l \in Lists, k \in Keys : InLog(l, k)' = InLog(l, k)
  BY <1>3 DEF InLog
<1>6. TimesInv' /\ Durable'
  <2>1. \A k \in Keys : list[a][k] # NoPair => list[a][k] \in InLog(a, k)
    BY <1>3 DEF IInv, MirrorInv, Newest
  <2>2. \A k \in Keys : OnFile(k)' = OnFile(k)
    BY <1>4, <1>5, <2>1 DEF OnFile, Lists
  <2> QED BY <1>3, <2>2, FilesKept
<1>7. ControlInv' /\ MirrorInv' /\ ErasedInv' /\ SavedInv' /\ ReplayInv'
  BY <1>3 DEF IInv, ControlInv, MirrorInv, ErasedInv, SavedInv, ReplayInv, Replaying,
              Serving, Lists
<1>8. UnlinkInv'
  <2> SUFFICES ASSUME NEW l \in Lists, NEW k \in Keys, InLog(l, k) # {}
               PROVE  \E p \in InLog(l, k) :
                         /\ Newest(InLog(l, k), p)
                         /\ \/ p \in InTables(k)'
                            \/ p.val = NoVal /\ \A q \in InTables(k)' : p.created < q.created
    BY <1>5 DEF UnlinkInv, Covered
  <2>1. l = a \/ l = o
    BY <1>3 DEF Lists
  <2>2. CASE list[l][k] # NoPair
    <3>1. list[o][k] # NoPair => list[o][k] \in InTables(k)
      BY <1>3 DEF IInv, SavedInv, InTables, EmptyList
    <3>2. list[l][k] \in InTables(k)'
      BY <1>4, <2>1, <2>2, <3>1
    <3> QED BY <1>3, <2>2, <3>2 DEF IInv, MirrorInv, Newest
  <2>3. CASE list[l][k] = NoPair
    <3>1. PICK t \in InLog(l, k) : t.val = NoVal /\ Newest(InLog(l, k), t)
      BY <1>3, <2>3 DEF IInv, MirrorInv
    <3>2. InTables(k)' \subseteq InTables(k) \cup ({list[3 - l][k]} \ {NoPair})
      BY <1>3, <1>4, <2>1, <2>3
    <3>3. \A q \in InTables(k)' : t.created < q.created
      BY <1>3, <2>3, <3>1, <3>2 DEF IInv, ErasedInv
    <3> QED BY <3>1, <3>3
  <2> QED BY <2>2, <2>3
<1> QED BY <1>6, <1>7, <1>8 DEF IInv

(* Unlinking a log the tables cover.                                        *)
LEMMA UnlinkStep ==
    ASSUME IInv, TypeOK', Unlink2 \/ Unlink1
    PROVE  IInv'
<1>1. PICK l \in Lists : /\ log' = Truncated(l)
                         /\ l = 2 => pc' = "unlink1"
                         /\ l = 1 => pc = "unlink1" /\ pc' = "open"
  BY DEF Unlink2, Unlink1, Lists
<1>2. PICK m \in Lists : m = 3 - l
  BY DEF Lists
<1>3. /\ pc \in {"unlink2", "unlink1"} /\ pc' \in {"unlink1", "open"}
      /\ now' = now /\ act' = act /\ list' = list /\ saving' = saving /\ disk' = disk
      /\ pos' = pos /\ latest' = latest /\ m # l
  BY <1>2 DEF Unlink2, Unlink1, Lists
<1>4. \A k \in Keys : Covered(l, k) /\ Covered(m, k)
  BY <1>3 DEF IInv, UnlinkInv
<1>5. \A k \in Keys : InTables(k) = {} /\ InLog(m, k) # {} =>
        \E t \in InLog(m, k) : t.val = NoVal /\ Newest(InLog(m, k), t)
  BY <1>4 DEF Covered
<1>6. TimesInv' /\ Durable'
  BY <1>1, <1>3, <1>4, <1>5, CutLog
<1>7. \A k \in Keys : /\ InLog(l, k)' = {} /\ InLog(m, k)' = InLog(m, k)
                      /\ InTables(k)' = InTables(k)
  BY <1>1, <1>3, CutInLog DEF IInv, InTables
<1>8. UnlinkInv'
  <2>1. \A j \in Lists, k \in Keys : Covered(j, k)'
    <3> SUFFICES ASSUME NEW j \in Lists, NEW k \in Keys PROVE Covered(j, k)'
      OBVIOUS
    <3>1. j = l \/ j = m
      BY <1>3 DEF Lists
    <3> QED BY <1>4, <1>7, <3>1 DEF Covered
  <2> QED BY <2>1 DEF UnlinkInv
<1>9. ControlInv' /\ MirrorInv' /\ ErasedInv' /\ SavedInv'
  <2>1. log'[l] = <<>>
    BY <1>1 DEF IInv, TypeOK, Truncated
  <2>2. pc' = "unlink1" => log'[2] = <<>>
    BY <1>1, <2>1 DEF Lists
  <2> QED BY <1>3, <2>2 DEF IInv, ControlInv, MirrorInv, ErasedInv, SavedInv, Replaying, Serving, Lists
<1>10. ReplayInv'
  <2>1. pc' = "open" => log'[1] = <<>> /\ log'[2] = <<>>
    BY <1>1 DEF IInv, TypeOK, ControlInv, Truncated, Lists
  <2> QED BY <1>3, <2>1 DEF ReplayInv, Replaying, Lists
<1> QED BY <1>6, <1>8, <1>9, <1>10 DEF IInv

(* The process dies: the files stay, the replay starts from nothing.        *)
LEMMA CrashStep ==
    ASSUME IInv, TypeOK', Crash
    PROVE  IInv'
<1>1. /\ pc' = "replay1" /\ pos' = 0 /\ saving' = FALSE
      /\ list' = [l \in Lists |-> EmptyList]
      /\ now' = now /\ act' = act /\ log' = log /\ disk' = disk /\ latest' = latest
  BY DEF Crash
<1>2. TimesInv' /\ Durable'
  BY <1>1, SameFiles, FilesKept
<1>3. ControlInv' /\ MirrorInv' /\ ErasedInv' /\ SavedInv' /\ UnlinkInv'
  BY <1>1 DEF IInv, TypeOK, ControlInv, MirrorInv, ErasedInv, SavedInv, UnlinkInv,
              Replaying, Serving, Lists
<1>4. ReplayInv'
  <2>1. \A l \in Lists, k \in Keys : list'[l][k] = NoPair
    BY <1>1 DEF EmptyList
  <2> QED BY <1>1, <2>1 DEF ReplayInv, Replaying, Lists
<1> QED BY <1>2, <1>3, <1>4 DEF IInv

(* A record of the log: it is an entry, and its pair is in the log.         *)
LEMMA LogRecord ==
    ASSUME TypeOK, NEW l \in Lists, NEW n \in DOMAIN log[l]
    PROVE  /\ log[l][n].key \in Keys /\ log[l][n].pair \in Pair
           /\ log[l][n].pair \in InLog(l, log[l][n].key)
           /\ log[l][n].pair # NoPair
           /\ OnlyOne(l, n) => InLog(l, log[l][n].key) = {log[l][n].pair}
<1>1. log[l] \in Seq(Entry)
  BY DEF TypeOK
<1>2. log[l][n] \in Entry
  BY <1>1
<1>3. log[l][n].key \in Keys /\ log[l][n].pair \in Pair
  BY <1>2 DEF Entry
<1>4. log[l][n].pair \in InLog(l, log[l][n].key)
  BY DEF InLog
<1>5. OnlyOne(l, n) => InLog(l, log[l][n].key) = {log[l][n].pair}
  BY <1>4 DEF OnlyOne, InLog
<1> QED BY <1>3, <1>4, <1>5, NoneAssumption

(* The replay inserts a record: an earlier one of its key, if it is kept,   *)
(* means that the log has two.                                              *)
LEMMA ReplayRecordStep ==
    ASSUME IInv, TypeOK', NEW l \in Lists, ReplayRecord(l)
    PROVE  IInv'
<1>1. /\ Replaying(l) /\ pos < Len(log[l]) /\ pos' = pos + 1
      /\ list' = [list EXCEPT ![l] = ReplayInsert(list[l], log[l][pos + 1])]
      /\ now' = now /\ act' = act /\ log' = log /\ saving' = saving /\ disk' = disk
      /\ pc' = pc /\ latest' = latest
  BY DEF ReplayRecord
<1>2. /\ pc \in {"replay1", "replay2"} /\ ~Serving /\ ~Serving' /\ Replaying(l)'
      /\ \A m \in Lists : Replaying(m) => m = l
  BY <1>1 DEF Replaying, Serving, Lists
<1>3. /\ pos \in Nat /\ log[l] \in Seq(Entry) /\ pos + 1 \in DOMAIN log[l]
      /\ DOMAIN log[l] = 1 .. Len(log[l]) /\ Len(log[l]) \in Nat
  BY <1>1 DEF IInv, TypeOK
<1> DEFINE e == log[l][pos + 1]
<1>4. /\ e.key \in Keys /\ e.pair \in InLog(l, e.key) /\ e.pair # NoPair
      /\ OnlyOne(l, pos + 1) => InLog(l, e.key) = {e.pair}
  BY <1>3, LogRecord DEF IInv
<1> HIDE DEF e
<1>5. /\ \A k \in Keys : k # e.key => list'[l][k] = list[l][k]
      /\ list'[l][e.key] \in {e.pair, list[l][e.key]}
      /\ list[l][e.key] = NoPair => list'[l][e.key] = e.pair
      /\ \A m \in Lists : m # l => list'[m] = list[m]
  <2>1. list' = [list EXCEPT ![l] = ReplayInsert(list[l], e)] /\ list[l] \in List
    BY <1>1 DEF e, IInv, TypeOK
  <2>2. list'[l] = ReplayInsert(list[l], e) /\ \A m \in Lists : m # l => list'[m] = list[m]
    BY <2>1 DEF IInv, TypeOK
  <2> QED BY <1>4, <2>1, <2>2 DEF ReplayInsert, List
<1>6. TimesInv' /\ Durable'
  BY <1>1, SameFiles, FilesKept
<1>7. MirrorInv' /\ ErasedInv' /\ SavedInv' /\ UnlinkInv'
  BY <1>1, <1>2 DEF MirrorInv, ErasedInv, SavedInv, UnlinkInv, Serving
<1>8. ControlInv'
  <2>1. \A m \in Lists : Serving' \/ Replaying(m)' \/ list'[m] = EmptyList
    BY <1>1, <1>2, <1>5 DEF IInv, ControlInv, Replaying
  <2>2. \A m \in Lists : Replaying(m)' => pos' <= Len(log'[m])
    BY <1>1, <1>2, <1>3 DEF Replaying
  <2> QED BY <1>1, <1>2, <2>1, <2>2 DEF IInv, ControlInv
<1>9. \A k \in Keys : list'[l][k] \in InLog(l, k) \cup {NoPair}
  BY <1>1, <1>4, <1>5 DEF IInv, ReplayInv
<1>10. \A n \in 1 .. pos + 1 : Kept(l, n)'
  <2> SUFFICES ASSUME NEW n \in 1 .. pos + 1, OnlyOne(l, n)
               PROVE  log[l][n].pair \in
                        InTables(log[l][n].key) \cup {list'[l][log[l][n].key]}
    BY <1>1 DEF Kept, OnlyOne, InTables
  <2>1. n \in DOMAIN log[l]
    BY <1>1, <1>3
  <2>2. CASE n = pos + 1
    <3>1. list[l][e.key] \in {e.pair, NoPair}
      BY <1>1, <1>4, <2>2 DEF IInv, ReplayInv
    <3> QED BY <1>5, <2>2, <3>1 DEF e
  <2>3. CASE n # pos + 1
    <3>1. n \in 1 .. pos
      BY <1>3, <2>3
    <3>2. log[l][n].pair \in InTables(log[l][n].key) \cup {list[l][log[l][n].key]}
      BY <1>1, <3>1 DEF IInv, ReplayInv, Kept
    <3>3. log[l][n].key \in Keys /\ log[l][n].key # e.key
      BY <1>3, <2>1, <2>3, LogRecord DEF IInv, OnlyOne, e
    <3> QED BY <1>5, <3>2, <3>3
  <2> QED BY <2>2, <2>3
<1>11. pc = "replay2" => \A n \in DOMAIN log[1] : Kept(1, n)'
  <2> SUFFICES ASSUME pc = "replay2", NEW n \in DOMAIN log[1] PROVE Kept(1, n)'
    OBVIOUS
  <2>1. l # 1 /\ list'[1] = list[1] /\ Kept(1, n)
    BY <1>1, <1>5 DEF IInv, ReplayInv, Replaying, Lists
  <2> QED BY <1>1, <2>1 DEF Kept, OnlyOne, InTables
<1>12. ReplayInv'
  <2>1. \A k \in Keys : InLog(l, k)' = InLog(l, k)
    BY <1>1 DEF InLog
  <2>2. \A m \in Lists : Replaying(m)' => m = l
    BY <1>1, <1>2 DEF Replaying
  <2> QED BY <1>1, <1>2, <1>9, <1>10, <1>11, <2>1, <2>2 DEF ReplayInv
<1> QED BY <1>6, <1>7, <1>8, <1>12 DEF IInv

(* What a save of the replay's list does: what was kept is in a table now.  *)
LEMMA ReplaySaves ==
    ASSUME IInv, NEW l \in Lists, Replaying(l),
           disk' = Saved(list[l]), list' = [list EXCEPT ![l] = EmptyList],
           log' = log, now' = now, latest' = latest
    PROVE  /\ TimesInv' /\ Durable'
           /\ \A m \in Lists : list'[m] = EmptyList
           /\ \A m \in Lists : \A n \in DOMAIN log[m] : Kept(m, n) => Kept(m, n)'
<1>1. list \in [Lists -> List] /\ list[l] \in List /\ log \in [Lists -> Seq(Entry)]
  BY DEF IInv, TypeOK
<1>2. \A k \in Keys : InTables(k)' = InTables(k) \cup ({list[l][k]} \ {NoPair})
  BY <1>1, SavedInTables DEF IInv
<1>3. TimesInv' /\ Durable'
  <2>1. \A k \in Keys : list[l][k] # NoPair => list[l][k] \in InLog(l, k)
    BY DEF IInv, ReplayInv
  <2>2. \A m \in Lists, k \in Keys : InLog(m, k)' = InLog(m, k)
    BY DEF InLog
  <2>3. \A k \in Keys : OnFile(k)' = OnFile(k)
    BY <1>2, <2>1, <2>2 DEF OnFile, Lists
  <2> QED BY <2>3, FilesKept
<1>4. \A m \in Lists : m # l => list[m] = EmptyList
  BY DEF IInv, ControlInv, Serving, Replaying, Lists
<1>5. \A m \in Lists : list'[m] = EmptyList
  BY <1>1, <1>4
<1>6. ASSUME NEW m \in Lists, NEW n \in DOMAIN log[m], Kept(m, n) PROVE Kept(m, n)'
  <2>1. /\ log[m][n].key \in Keys /\ log[m][n].pair # NoPair
    BY LogRecord DEF IInv
  <2>2. log[m][n].pair \in InTables(log[m][n].key) \cup {list[m][log[m][n].key]}
          => log[m][n].pair \in InTables(log[m][n].key)'
    BY <1>2, <1>4, <2>1 DEF EmptyList
  <2> QED BY <1>6, <2>2 DEF Kept, OnlyOne
<1> QED BY <1>3, <1>5, <1>6

(* The replay's list is full: it is saved and the replay goes on.           *)
LEMMA ReplayFlushStep ==
    ASSUME IInv, TypeOK', NEW l \in Lists, ReplayFlush(l)
    PROVE  IInv'
<1>1. /\ Replaying(l) /\ pos' = pos /\ pos \in Nat
      /\ disk' = Saved(list[l]) /\ list' = [list EXCEPT ![l] = EmptyList]
      /\ now' = now /\ act' = act /\ log' = log /\ saving' = saving
      /\ pc' = pc /\ latest' = latest
  BY DEF ReplayFlush, IInv, TypeOK
<1>2. /\ TimesInv' /\ Durable'
      /\ \A m \in Lists : list'[m] = EmptyList
      /\ \A m \in Lists : \A n \in DOMAIN log[m] : Kept(m, n) => Kept(m, n)'
  BY <1>1, ReplaySaves
<1>3. pc \in {"replay1", "replay2"} /\ \A m \in Lists : Replaying(m)' <=> Replaying(m)
  BY <1>1 DEF Replaying
<1>4. MirrorInv' /\ ErasedInv' /\ SavedInv' /\ UnlinkInv'
  BY <1>1, <1>3 DEF MirrorInv, ErasedInv, SavedInv, UnlinkInv, Serving
<1>5. ControlInv'
  BY <1>1, <1>2, <1>3 DEF IInv, ControlInv, Serving
<1>6. ReplayInv'
  <2>1. \A m \in Lists, k \in Keys : list'[m][k] = NoPair
    BY <1>2 DEF EmptyList
  <2>2. ASSUME NEW m \in Lists, Replaying(m), NEW n \in 1 .. pos PROVE Kept(m, n)'
    <3>1. Kept(m, n)
      BY <2>2 DEF IInv, ReplayInv
    <3>2. pos <= Len(log[m]) /\ log[m] \in Seq(Entry)
      BY <2>2 DEF IInv, ControlInv, TypeOK
    <3>3. n \in DOMAIN log[m]
      BY <1>1, <3>2
    <3> QED BY <1>2, <3>1, <3>3
  <2>3. pc = "replay2" => \A n \in DOMAIN log[1] : Kept(1, n)'
    BY <1>2 DEF IInv, ReplayInv, Lists
  <2> QED BY <1>1, <1>3, <2>1, <2>2, <2>3 DEF ReplayInv
<1> QED BY <1>2, <1>4, <1>5, <1>6 DEF IInv

(* A log is replayed to its end: all of it was kept.                        *)
LEMMA ReplayEndStep ==
    ASSUME IInv, TypeOK', NEW l \in Lists, ReplayEnd(l)
    PROVE  IInv'
<1>1. /\ Replaying(l) /\ pos = Len(log[l]) /\ pos' = 0
      /\ disk' = Saved(list[l]) /\ list' = [list EXCEPT ![l] = EmptyList]
      /\ now' = now /\ act' = act /\ log' = log /\ saving' = saving
      /\ pc' = (IF l = 1 THEN "replay2" ELSE "open") /\ latest' = latest
  BY DEF ReplayEnd
<1>2. /\ TimesInv' /\ Durable'
      /\ \A m \in Lists : list'[m] = EmptyList
      /\ \A m \in Lists : \A n \in DOMAIN log[m] : Kept(m, n) => Kept(m, n)'
  BY <1>1, ReplaySaves
<1>3. pc \in {"replay1", "replay2"} /\ pc' \in {"replay2", "open"} /\ (l = 2 <=> pc = "replay2")
  BY <1>1 DEF Replaying, Lists
<1>4. MirrorInv' /\ ErasedInv' /\ SavedInv' /\ UnlinkInv'
  BY <1>3 DEF MirrorInv, ErasedInv, SavedInv, UnlinkInv, Serving
<1>5. ControlInv'
  <2>1. \A m \in Lists : pos' <= Len(log'[m])
    <3>1. \A m \in Lists : log[m] \in Seq(Entry)
      BY DEF IInv, TypeOK
    <3>2. \A m \in Lists : Len(log[m]) \in Nat
      BY <3>1
    <3> QED BY <1>1, <3>2
  <2> QED BY <1>1, <1>2, <1>3, <2>1 DEF IInv, ControlInv, Serving
<1>6. \A n \in DOMAIN log[l] : Kept(l, n)
  <2>1. log[l] \in Seq(Entry)
    BY DEF IInv, TypeOK
  <2>2. DOMAIN log[l] = 1 .. pos
    BY <1>1, <2>1
  <2> QED BY <1>1, <2>2 DEF IInv, ReplayInv
<1>7. l = 2 => \A n \in DOMAIN log[1] : Kept(1, n)
  BY <1>3 DEF IInv, ReplayInv
<1>8. ReplayInv'
  <2>1. \A m \in Lists, k \in Keys : list'[m][k] = NoPair
    BY <1>2 DEF EmptyList
  <2>2. \A n \in DOMAIN log[1] : Kept(1, n)'
    BY <1>2, <1>6, <1>7 DEF Lists
  <2>3. pc' = "open" => \A n \in DOMAIN log[2] : Kept(2, n)'
    BY <1>1, <1>2, <1>6 DEF Lists
  <2> QED BY <1>1, <2>1, <2>2, <2>3 DEF ReplayInv
<1> QED BY <1>2, <1>4, <1>5, <1>8 DEF IInv

(* The start is done: the tables are all there is, and the logs are empty.  *)
LEMMA OpenStep ==
    ASSUME IInv, TypeOK', Open
    PROVE  IInv'
<1>1. /\ pc = "open" /\ pc' = "up" /\ act' = 1 /\ log' = [l \in Lists |-> <<>>]
      /\ latest' = [k \in Keys |-> TablesGetPair(k)]
      /\ now' = now /\ list' = list /\ saving' = saving /\ disk' = disk /\ pos' = pos
  BY DEF Open
<1>2. \A l \in Lists : list[l] = EmptyList
  BY <1>1 DEF IInv, ControlInv, Serving, Replaying, Lists
<1>3. \A k \in Keys : InTables(k)' = InTables(k) /\ \A l \in Lists : InLog(l, k)' = {}
  BY <1>1 DEF InTables, InLog
<1>4. \A k \in Keys : OnFile(k)' = InTables(k) /\ InTables(k) \subseteq OnFile(k)
  BY <1>3 DEF OnFile, Lists
<1>5. TimesInv'
  BY <1>1, <1>4 DEF IInv, TimesInv
<1>6. Durable'
  <2> SUFFICES ASSUME NEW k \in Keys
               PROVE  IF InTables(k) = {} THEN ValOf(latest'[k]) = NoVal
                      ELSE \E p \in InTables(k) :
                             p.val = ValOf(latest'[k]) /\ Newest(InTables(k), p)
    BY <1>4 DEF Durable, ValOf
  <2>1. latest'[k] = TablesGetPair(k)
    BY <1>1
  <2>2. NoPair \notin InTables(k)
    BY DEF InTables
  <2> QED BY <2>1, <2>2, TablesGiveNewest DEF ValOf, Newest
<1>7. ControlInv' /\ UnlinkInv' /\ ReplayInv'
  BY <1>1 DEF IInv, ControlInv, UnlinkInv, ReplayInv, Replaying, Serving, Lists
<1>8. MirrorInv' /\ ErasedInv'
  BY <1>1, <1>2, <1>3 DEF MirrorInv, ErasedInv, EmptyList
<1>9. SavedInv'
  BY <1>1, <1>2 DEF SavedInv, other, Lists
<1> QED BY <1>5, <1>6, <1>7, <1>8, <1>9 DEF IInv
----------------------------------------------------------------------------
(* The theorems. *)

(* The first process starts with nothing.                                   *)
LEMMA InitInv == Init => IInv
<1> SUFFICES ASSUME Init PROVE IInv
  OBVIOUS
<1>1. EmptyList \in List /\ <<>> \in Seq(Entry) /\ StartTime \in Nat
  BY TimeAssumption DEF EmptyList, List
<1>2. TypeOK
  BY <1>1 DEF Init, TypeOK, Lists
<1>3. \A k \in Keys : /\ InTables(k) = {} /\ OnFile(k) = {}
                      /\ \A l \in Lists : InLog(l, k) = {}
  BY DEF Init, InTables, InLog, OnFile, Lists
<1>4. ControlInv /\ UnlinkInv /\ ReplayInv /\ SavedInv
  BY DEF Init, ControlInv, UnlinkInv, ReplayInv, SavedInv, Serving, Replaying, Lists, other
<1>5. TimesInv /\ MirrorInv /\ ErasedInv
  BY <1>3 DEF Init, TimesInv, MirrorInv, ErasedInv, EmptyList
<1>6. Durable
  BY <1>3 DEF Init, Durable, ValOf, EmptyList
<1> QED BY <1>2, <1>4, <1>5, <1>6 DEF IInv

(* Every step keeps the invariant.                                          *)
LEMMA NextInv == IInv /\ [Next]_vars => IInv'
<1> SUFFICES ASSUME IInv, [Next]_vars PROVE IInv'
  OBVIOUS
<1>1. TypeOK'
  BY TypeStep DEF IInv
<1>2. ASSUME NEW k \in Keys, NEW v \in Vals, Insert(k, v) PROVE IInv'
  BY <1>1, <1>2, InsertStep
<1>3. ASSUME NEW k \in Keys, EraseTombstone(k) PROVE IInv'
  BY <1>1, <1>3, InsertStep DEF EraseTombstone
<1>4. ASSUME NEW k \in Keys, EraseReal(k) PROVE IInv'
  BY <1>1, <1>4, EraseRealStep
<1>5. CASE Flush
  BY <1>1, <1>5, FlushStep
<1>6. CASE Clear
  BY <1>1, <1>6, ClearStep
<1>7. CASE SaveFinish
  BY <1>1, <1>7, SaveFinishStep
<1>8. CASE Shutdown
  BY <1>1, <1>8, ShutdownStep
<1>9. CASE Unlink2 \/ Unlink1
  BY <1>1, <1>9, UnlinkStep
<1>10. CASE Crash
  BY <1>1, <1>10, CrashStep
<1>11. ASSUME NEW n \in Lists, ReplayRecord(n) PROVE IInv'
  BY <1>1, <1>11, ReplayRecordStep
<1>12. ASSUME NEW n \in Lists, ReplayFlush(n) PROVE IInv'
  BY <1>1, <1>12, ReplayFlushStep
<1>13. ASSUME NEW n \in Lists, ReplayEnd(n) PROVE IInv'
  BY <1>1, <1>13, ReplayEndStep
<1>14. CASE Open
  BY <1>1, <1>14, OpenStep
<1>15. CASE UNCHANGED vars
  <2>1. /\ now' = now /\ act' = act /\ list' = list /\ log' = log /\ saving' = saving
        /\ disk' = disk /\ pc' = pc /\ pos' = pos /\ latest' = latest
    BY <1>15 DEF vars
  <2>2. TimesInv' /\ Durable'
    BY <2>1, SameFiles, FilesKept
  <2>3. ControlInv' /\ SavedInv'
    BY <2>1 DEF IInv, ControlInv, SavedInv, Serving, Replaying, other
  <2>4. MirrorInv' /\ ErasedInv'
    BY <2>1, SameFiles DEF IInv, MirrorInv, ErasedInv, Serving
  <2>5. UnlinkInv'
    BY <2>1, SameFiles DEF IInv, UnlinkInv, Covered
  <2>6. ReplayInv'
    BY <2>1 DEF IInv, ReplayInv, Replaying, Kept, OnlyOne, InTables, InLog
  <2> QED BY <1>1, <2>2, <2>3, <2>4, <2>5, <2>6 DEF IInv
<1> QED
  BY <1>2, <1>3, <1>4, <1>5, <1>6, <1>7, <1>8, <1>9, <1>10, <1>11, <1>12, <1>13, <1>14,
     <1>15 DEF Next

(* The inductive invariant: lists, logs and tables agree at every step.     *)
THEOREM InvariantHolds == Spec => []IInv
BY InitInv, NextInv, PTL DEF Spec

(* The variables of the binlogs keep their types.                           *)
THEOREM TypeCorrect == Spec => []TypeOK
<1>1. IInv => TypeOK
  BY DEF IInv
<1> QED BY <1>1, InvariantHolds, PTL

(***************************************************************************)
(* Whatever step the process dies after, of the pairs of a key in tables   *)
(* and logs the newest is the one stored last (BinLogList::clear,          *)
(* ~BinLogListBase, replayBinlogFile).                                     *)
(***************************************************************************)
THEOREM DurableHolds == Spec => []Durable
<1>1. IInv => Durable
  BY DEF IInv
<1> QED BY <1>1, InvariantHolds, PTL

(* A key that no log has twice is recovered before clients are served.      *)
THEOREM LoggedOnceRecoveredHolds == Spec => []LoggedOnceRecovered
<1>1. IInv => LoggedOnceRecovered
  <2> SUFFICES ASSUME IInv, pc = "open", NEW k \in Keys, LoggedOnce(k)
               PROVE  KeyRecovered(k)
    BY DEF LoggedOnceRecovered
  <2>1. \A l \in Lists : list[l] = EmptyList
    BY DEF IInv, ControlInv, Serving, Replaying, Lists
  <2>2. \A l \in Lists : InLog(l, k) \subseteq InTables(k)
    <3> SUFFICES ASSUME NEW l \in Lists, NEW n \in DOMAIN log[l], log[l][n].key = k
                 PROVE  log[l][n].pair \in InTables(k)
      BY DEF InLog
    <3>1. OnlyOne(l, n)
      BY DEF LoggedOnce, OnlyOne
    <3>2. Kept(l, n)
      BY DEF IInv, ReplayInv, Lists
    <3>3. log[l][n].pair # NoPair
      BY LogRecord DEF IInv
    <3> QED BY <2>1, <3>1, <3>2, <3>3 DEF Kept, EmptyList
  <2>3. OnFile(k) = InTables(k) /\ NoPair \notin InTables(k)
    BY <2>2 DEF OnFile, Lists, InTables
  <2>4. CASE InTables(k) = {}
    BY <2>3, <2>4 DEF IInv, Durable, KeyRecovered, TablesGetPair, ValOf
  <2>5. CASE InTables(k) # {}
    <3>1. PICK p \in OnFile(k) : p.val = ValOf(latest[k]) /\ Newest(OnFile(k), p)
      BY <2>3, <2>5 DEF IInv, Durable
    <3>2. Newest(OnFile(k), TablesGetPair(k))
      BY <2>3, <2>5, TablesGiveNewest
    <3>3. TablesGetPair(k) = p
      BY <3>1, <3>2, NewestUnique
    <3> QED BY <2>3, <3>1, <3>3 DEF KeyRecovered, ValOf
  <2> QED BY <2>4, <2>5
<1> QED BY <1>1, InvariantHolds, PTL
=============================================================================
