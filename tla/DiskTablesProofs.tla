-------------------------- MODULE DiskTablesProofs --------------------------
(***************************************************************************)
(* Proofs about DiskTables, for every finite set of keys, every sizes that *)
(* db_compact goes by, and any number of flushes, refreshes and merges.    *)
(***************************************************************************)
EXTENDS DiskTables, NaturalSets, TLAPS

----------------------------------------------------------------------------
(* Tables. *)

(* A table has pairs, and its oldest pair is not newer than any of them.    *)
LEMMA OldestPair ==
    ASSUME NEW t \in Table, NEW k \in Keys, t.pairs[k] # 0
    PROVE  /\ createdMax(t) <= t.pairs[k] /\ createdMax(t) \in Nat
           /\ \E j \in Present(t) : createdMax(t) = t.pairs[j]
<1> DEFINE S == {t.pairs[j] : j \in Present(t)}
<1>1. t.pairs \in [Keys -> Nat] /\ Present(t) \subseteq Keys /\ k \in Present(t)
  BY DEF Table, Pairs, Present
<1>2. S \in SUBSET Nat /\ t.pairs[k] \in S
  BY <1>1
<1>3. PICK m \in S : \A s \in S : m <= s
  BY <1>2, SmallestExists
<1>4. \E c \in S : \A j \in Present(t) : c <= t.pairs[j]
  BY <1>3
<1>5. createdMax(t) \in S /\ \A j \in Present(t) : createdMax(t) <= t.pairs[j]
  BY <1>4 DEF createdMax
<1> QED BY <1>1, <1>2, <1>5

(* A merge of tables without pairs from the future has the newest of them.  *)
LEMMA MergedPairs ==
    ASSUME NEW S \in SUBSET Table, S # {}, NEW bound \in Pairs,
           \A t \in S, k \in Keys : t.pairs[k] <= bound[k]
    PROVE  /\ Merged(S) \in Pairs
           /\ \A k \in Keys : /\ Merged(S)[k] \in {t.pairs[k] : t \in S}
                              /\ \A t \in S : t.pairs[k] <= Merged(S)[k]
<1>1. \A t \in S : t.pairs \in [Keys -> Nat]
  BY DEF Table, Pairs
<1>2. ASSUME NEW k \in Keys
      PROVE  /\ Merged(S)[k] \in {t.pairs[k] : t \in S}
             /\ \A t \in S : t.pairs[k] <= Merged(S)[k]
  <2> DEFINE T == {t.pairs[k] : t \in S}
  <2>1. T \in SUBSET Nat /\ T # {} /\ bound[k] \in Nat /\ \A s \in T : s <= bound[k]
    BY <1>1 DEF Pairs
  <2>2. PICK m \in T : \A s \in T : s <= m
    BY <2>1, LargestExists
  <2>3. \E c \in T : \A t \in S : t.pairs[k] <= c
    BY <2>2
  <2>4. Merged(S)[k] = CHOOSE c \in T : \A t \in S : t.pairs[k] <= c
    BY DEF Merged
  <2> QED BY <2>3, <2>4
<1>3. Merged(S) \in Pairs
  <2>1. \A k \in Keys : Merged(S)[k] \in Nat
    BY <1>1, <1>2
  <2>2. Merged(S) = [k \in Keys |-> Merged(S)[k]]
    BY DEF Merged
  <2> QED BY <2>1, <2>2 DEF Pairs
<1> QED BY <1>2, <1>3

(* What db_compact picks are tables of the directory.                       *)
LEMMA PickedOnDisk == SmartMerge \subseteq disk
BY DEF SmartMerge

(* The sorted container has the tables it is made of, each of them once.    *)
LEMMA SortedTables ==
    ASSUME NEW S \in SUBSET Table, IsFiniteSet(S), NEW s \in SortedContainers(S)
    PROVE  s \in Seq(Table) /\ Range(s) = S
<1> DEFINE D == 1 .. Cardinality(S)
<1>1. Cardinality(S) \in Nat
  BY FS_CardinalityType
<1>2. s \in [D -> S] /\ \A m, n \in D : m # n => s[m] # s[n]
  BY DEF SortedContainers, SetToSeqs
<1>3. s \in Seq(Table)
  BY <1>1, <1>2
<1>4. IsFiniteSet(D) /\ Cardinality(D) = Cardinality(S)
  <2>1. Cardinality(D) = IF 1 > Cardinality(S) THEN 0 ELSE Cardinality(S) - 1 + 1
    BY <1>1, FS_Interval
  <2>2. IsFiniteSet(D)
    BY <1>1, FS_Interval
  <2> QED BY <1>1, <2>1, <2>2
<1>5. s \in Injection(D, S)
  BY <1>2 DEF Injection, IsInjective
<1>6. s \in Surjection(D, S)
  BY <1>4, <1>5, FS_Injection
<1>7. Range(s) = S
  BY <1>2, <1>6 DEF Surjection, Range
<1> QED BY <1>3, <1>7

----------------------------------------------------------------------------
(* db_net. *)

(* A pair of a list swapped out now is newer than all that were before.     *)
LEMMA SwappedOut ==
    ASSUME TypeOK, NEW f \in Lists
    PROVE  /\ f \in Pairs /\ now + Spread \in Nat /\ now <= now + Spread
           /\ \A k \in Keys : f[k] = 0 \/ (now < f[k] /\ f[k] <= now + Spread)
BY RecordsAssumption DEF TypeOK, Lists, Pairs

(* The swap.                                                                *)
LEMMA FlushStep ==
    ASSUME IInv, NEW f \in Lists, Flush(f)
    PROVE  IInv'
<1>1. /\ pc = "ready" /\ ~saving /\ flushes' = flushes + 1 /\ mem' = f /\ saving' = TRUE
      /\ now' = now + Spread /\ newest' = [k \in Keys |-> MaxOf(f[k], newest[k])]
      /\ pc' = (IF mem = NoPairs THEN "ready" ELSE "glob")
      /\ nextId' = nextId /\ disk' = disk /\ files' = files /\ neo' = neo
      /\ container' = container /\ key' = key /\ i' = i /\ best' = best
      /\ cpc' = cpc /\ path' = path /\ raced' = raced
  BY DEF Flush, refreshVars, getVars, compactVars
<1>2. /\ f \in Pairs /\ now + Spread \in Nat /\ now <= now + Spread
      /\ \A k \in Keys : f[k] = 0 \/ (now < f[k] /\ f[k] <= now + Spread)
  BY SwappedOut DEF IInv
<1>3. /\ now \in Nat /\ newest \in Pairs /\ mem \in Pairs
      /\ \A k \in Keys : newest[k] \in Nat /\ mem[k] \in Nat /\ f[k] \in Nat
                        /\ newest[k] <= now
  BY <1>2 DEF IInv, TypeOK, Pairs, KnownInv
<1>4. \A k \in Keys : /\ newest'[k] = IF f[k] = 0 THEN newest[k] ELSE f[k]
                      /\ newest'[k] \in Nat /\ newest[k] <= newest'[k]
                      /\ newest'[k] <= now'
  BY <1>1, <1>2, <1>3 DEF MaxOf
<1>5. newest' \in Pairs
  <2>1. newest' = [k \in Keys |-> newest'[k]]
    BY <1>1
  <2> QED BY <1>4, <2>1 DEF Pairs
<1>6. TypeOK'
  BY <1>1, <1>2, <1>5 DEF IInv, TypeOK
<1>7. KnownInv'
  <2>1. Known' = Known /\ Known \subseteq Table
    BY <1>1 DEF Known, IInv, TypeOK, Range
  <2>2. ASSUME NEW t \in Known, NEW k \in Keys PROVE t.pairs[k] <= newest'[k]
    <3>1. t.pairs[k] \in Nat /\ t.pairs[k] <= newest[k]
      BY <2>1 DEF IInv, KnownInv, Table, Pairs
    <3> QED BY <1>3, <1>4, <3>1
  <2> QED BY <1>1, <1>4, <2>1, <2>2 DEF IInv, KnownInv
<1>8. MergeInv'
  BY <1>1 DEF IInv, MergeInv
<1>9. OpenInv' /\ GetInv'
  BY <1>1 DEF IInv, OpenInv, GetInv
<1>10. DirectoryKeepsNewest'
  BY <1>1, <1>4 DEF IInv, DirectoryKeepsNewest
<1>11. QuietRefreshKeepsNewest'
  <2> SUFFICES ASSUME pc' = "ready", ~raced, NEW k \in Keys
               PROVE  newest'[k] \in {f[k]} \cup {t.pairs[k] : t \in Range(container)}
    BY <1>1 DEF QuietRefreshKeepsNewest, HasNewest
  <2>1. mem = NoPairs
    BY <1>1
  <2>2. newest[k] \in {0} \cup {t.pairs[k] : t \in Range(container)}
    BY <1>1, <2>1 DEF IInv, QuietRefreshKeepsNewest, HasNewest, NoPairs
  <2> QED BY <1>4, <2>2
<1> QED BY <1>6, <1>7, <1>8, <1>9, <1>10, <1>11 DEF IInv

(* The table of *list2_ appears in the directory.                           *)
LEMMA SaveFinishStep ==
    ASSUME IInv, SaveFinish
    PROVE  IInv'
<1> DEFINE new == [id |-> nextId, pairs |-> mem]
<1>1. /\ saving /\ saving' = FALSE /\ disk' = disk \cup {new} /\ nextId' = nextId + 1
      /\ now' = now /\ flushes' = flushes /\ mem' = mem /\ pc' = pc
      /\ files' = files /\ neo' = neo /\ container' = container
      /\ key' = key /\ i' = i /\ best' = best
      /\ cpc' = cpc /\ path' = path /\ newest' = newest /\ raced' = raced
  BY DEF SaveFinish, refreshVars, getVars, compactVars
<1>2. new \in Table /\ new.id = nextId /\ new.pairs = mem /\ nextId \in Nat
  BY DEF IInv, TypeOK, Table
<1> HIDE DEF new
<1>3. TypeOK'
  <2>1. disk' \subseteq Table /\ nextId' \in Nat
    BY <1>1, <1>2 DEF IInv, TypeOK
  <2> QED BY <1>1, <2>1 DEF IInv, TypeOK
<1>4. KnownInv'
  <2>1. Known' = Known \cup {new} /\ Known \subseteq Table
    BY <1>1 DEF Known, IInv, TypeOK, Range
  <2>2. IsFiniteSet(disk')
    BY <1>1, FS_AddElement DEF IInv, KnownInv
  <2>3. \A t \in Known' : t.id < nextId'
    <3>1. \A t \in Known : t.id \in Nat /\ t.id < nextId
      BY <2>1 DEF IInv, KnownInv, Table
    <3> QED BY <1>1, <1>2, <2>1, <3>1
  <2>4. \A k \in Keys : new.pairs[k] <= newest[k]
    BY <1>2 DEF IInv, KnownInv, TypeOK, Pairs
  <2> QED BY <1>1, <2>1, <2>2, <2>3, <2>4 DEF IInv, KnownInv
<1>5. MergeInv'
  BY <1>1 DEF IInv, MergeInv
<1>6. OpenInv'
  BY <1>1 DEF IInv, OpenInv, HasNewest
<1>7. GetInv'
  BY <1>1 DEF IInv, GetInv, Generations, Older, Present
<1>8. DirectoryKeepsNewest'
  BY <1>1, <1>2 DEF IInv, DirectoryKeepsNewest
<1>9. QuietRefreshKeepsNewest'
  BY <1>1 DEF IInv, QuietRefreshKeepsNewest, HasNewest
<1> QED BY <1>3, <1>4, <1>5, <1>6, <1>7, <1>8, <1>9 DEF IInv

(* A reload, and a restart: the container will be made anew.                *)
LEMMA ReloadStep ==
    ASSUME IInv, Reload \/ Restart
    PROVE  IInv'
<1>1. /\ pc = "ready" /\ pc' = "glob" /\ saving' = saving
      /\ (mem' = mem /\ container' = container) \/ (mem' = NoPairs /\ container' = <<>> /\ ~saving)
      /\ now' = now /\ flushes' = flushes /\ disk' = disk /\ nextId' = nextId
      /\ files' = files /\ neo' = neo /\ key' = key /\ i' = i /\ best' = best
      /\ cpc' = cpc /\ path' = path /\ newest' = newest /\ raced' = raced
  BY DEF Reload, Restart, serverVars, refreshVars, getVars, compactVars
<1>2. TypeOK'
  <2>1. NoPairs \in Pairs /\ <<>> \in Seq(Table) /\ Len(<<>>) = 0 /\ i = 1
    BY <1>1 DEF NoPairs, Pairs, IInv, GetInv
  <2>2. mem' \in Pairs /\ container' \in Seq(Table)
    BY <1>1, <2>1 DEF IInv, TypeOK
  <2>3. i' \in 1 .. Len(container') + 1
    <3>1. Len(container') \in Nat
      BY <2>2
    <3> QED BY <1>1, <2>1, <3>1
  <2> QED BY <1>1, <2>2, <2>3 DEF IInv, TypeOK
<1>3. KnownInv'
  <2>1. Known' \subseteq Known
    BY <1>1 DEF Known, Range
  <2>2. \A k \in Keys : mem'[k] \in {0, newest[k]}
    BY <1>1 DEF IInv, KnownInv, NoPairs
  <2> QED BY <1>1, <2>1, <2>2 DEF IInv, KnownInv
<1>4. MergeInv' /\ OpenInv' /\ GetInv' /\ QuietRefreshKeepsNewest'
  BY <1>1 DEF IInv, MergeInv, OpenInv, GetInv, QuietRefreshKeepsNewest
<1>5. DirectoryKeepsNewest'
  BY <1>1 DEF IInv, DirectoryKeepsNewest
<1> QED BY <1>2, <1>3, <1>4, <1>5 DEF IInv

(* The names of the directory are read.                                     *)
LEMMA GlobStep ==
    ASSUME IInv, Glob
    PROVE  IInv'
<1>1. /\ pc = "glob" /\ pc' = "open" /\ files' = disk /\ neo' = {} /\ raced' = FALSE
      /\ now' = now /\ flushes' = flushes /\ mem' = mem /\ saving' = saving
      /\ disk' = disk /\ nextId' = nextId /\ container' = container
      /\ key' = key /\ i' = i /\ best' = best
      /\ cpc' = cpc /\ path' = path /\ newest' = newest
  BY DEF Glob, serverVars, getVars, compactVars
<1>2. TypeOK'
  BY <1>1 DEF IInv, TypeOK
<1>3. KnownInv'
  <2>1. Known' \subseteq Known
    BY <1>1 DEF Known
  <2> QED BY <1>1, <2>1, FS_EmptySet DEF IInv, KnownInv
<1>4. MergeInv' /\ GetInv' /\ QuietRefreshKeepsNewest' /\ DirectoryKeepsNewest'
  BY <1>1 DEF IInv, MergeInv, GetInv, QuietRefreshKeepsNewest, DirectoryKeepsNewest
<1>5. OpenInv'
  <2> SUFFICES ASSUME NEW k \in Keys
               PROVE  newest[k] \in {mem[k]} \cup {t.pairs[k] : t \in disk}
    BY <1>1 DEF OpenInv, HasNewest
  <2>1. newest[k] \in {t.pairs[k] : t \in disk} \cup {0, mem[k]}
    BY DEF IInv, DirectoryKeepsNewest
  <2>2. mem[k] \in {0, newest[k]}
    BY DEF IInv, KnownInv
  <2> QED BY <2>1, <2>2
<1> QED BY <1>2, <1>3, <1>4, <1>5 DEF IInv

(* A table is opened, or its file is gone.                                  *)
LEMMA OpenFileStep ==
    ASSUME IInv, NEW t \in files, OpenFile(t)
    PROVE  IInv'
<1>1. /\ pc = "open" /\ pc' = pc /\ files' = files \ {t}
      /\ neo' = (IF t \in disk THEN neo \cup {t} ELSE neo)
      /\ now' = now /\ flushes' = flushes /\ mem' = mem /\ saving' = saving
      /\ disk' = disk /\ nextId' = nextId /\ container' = container
      /\ key' = key /\ i' = i /\ best' = best
      /\ cpc' = cpc /\ path' = path /\ newest' = newest /\ raced' = raced
  BY DEF OpenFile, serverVars, getVars, compactVars
<1>2. TypeOK'
  BY <1>1 DEF IInv, TypeOK
<1>3. KnownInv'
  <2>1. Known' \subseteq Known
    BY <1>1 DEF Known
  <2>2. IsFiniteSet(files') /\ IsFiniteSet(neo')
    BY <1>1, FS_AddElement, FS_RemoveElement DEF IInv, KnownInv
  <2> QED BY <1>1, <2>1, <2>2 DEF IInv, KnownInv
<1>4. MergeInv' /\ GetInv' /\ QuietRefreshKeepsNewest' /\ DirectoryKeepsNewest'
  BY <1>1 DEF IInv, MergeInv, GetInv, QuietRefreshKeepsNewest, DirectoryKeepsNewest
<1>5. OpenInv'
  BY <1>1 DEF IInv, OpenInv, HasNewest
<1> QED BY <1>2, <1>3, <1>4, <1>5 DEF IInv

(* The tables that were opened take the place of the container.             *)
LEMMA InstallStep ==
    ASSUME IInv, Install
    PROVE  IInv'
<1>1. /\ pc = "open" /\ pc' = "ready" /\ files = {} /\ neo' = {}
      /\ container' \in SortedContainers(neo)
      /\ now' = now /\ flushes' = flushes /\ mem' = mem /\ saving' = saving
      /\ disk' = disk /\ nextId' = nextId /\ files' = files
      /\ key' = key /\ i' = i /\ best' = best
      /\ cpc' = cpc /\ path' = path /\ newest' = newest /\ raced' = raced
  BY DEF Install, serverVars, getVars, compactVars
<1>2. container' \in Seq(Table) /\ Range(container') = neo
  BY <1>1, SortedTables DEF IInv, TypeOK, KnownInv
<1>3. TypeOK'
  <2>1. i = 1 /\ Len(container') \in Nat
    BY <1>1, <1>2 DEF IInv, GetInv
  <2> QED BY <1>1, <1>2, <2>1 DEF IInv, TypeOK
<1>4. KnownInv'
  <2>1. Known' \subseteq Known
    BY <1>1, <1>2 DEF Known
  <2> QED BY <1>1, <2>1, FS_EmptySet DEF IInv, KnownInv
<1>5. MergeInv' /\ OpenInv' /\ GetInv' /\ DirectoryKeepsNewest'
  BY <1>1 DEF IInv, MergeInv, OpenInv, GetInv, DirectoryKeepsNewest
<1>6. QuietRefreshKeepsNewest'
  BY <1>1, <1>2 DEF IInv, OpenInv, HasNewest, QuietRefreshKeepsNewest
<1> QED BY <1>3, <1>4, <1>5, <1>6 DEF IInv

(* A lookup begins, or ends.                                                *)
LEMMA GetStartStep ==
    ASSUME IInv, NEW k \in Keys, GetStart(k)
    PROVE  IInv'
<1>1. /\ pc = "ready" /\ pc' = "get" /\ key' = k /\ i' = 1 /\ best' = mem[k]
      /\ now' = now /\ flushes' = flushes /\ mem' = mem /\ saving' = saving
      /\ disk' = disk /\ nextId' = nextId /\ files' = files /\ neo' = neo
      /\ container' = container
      /\ cpc' = cpc /\ path' = path /\ newest' = newest /\ raced' = raced
  BY DEF GetStart, serverVars, refreshVars, compactVars
<1>2. TypeOK'
  <2>1. mem[k] \in Nat /\ i = 1
    BY <1>1 DEF IInv, TypeOK, GetInv, Pairs
  <2> QED BY <1>1, <2>1 DEF IInv, TypeOK
<1>3. GetInv'
  <2>1. mem[k] <= mem[k] /\ 1 .. 1 - 1 = {}
    BY DEF IInv, TypeOK, Pairs
  <2> QED BY <1>1, <2>1 DEF GetInv
<1>4. KnownInv' /\ MergeInv' /\ OpenInv' /\ DirectoryKeepsNewest'
  BY <1>1 DEF IInv, KnownInv, Known, MergeInv, OpenInv, DirectoryKeepsNewest
<1>5. QuietRefreshKeepsNewest'
  BY <1>1 DEF IInv, QuietRefreshKeepsNewest, HasNewest
<1> QED BY <1>2, <1>3, <1>4, <1>5 DEF IInv

LEMMA GetEndStep ==
    ASSUME IInv, GetEnd
    PROVE  IInv'
<1>1. /\ pc = "get" /\ pc' = "ready" /\ key' = NoKey /\ i' = 1 /\ best' = 0
      /\ now' = now /\ flushes' = flushes /\ mem' = mem /\ saving' = saving
      /\ disk' = disk /\ nextId' = nextId /\ files' = files /\ neo' = neo
      /\ container' = container
      /\ cpc' = cpc /\ path' = path /\ newest' = newest /\ raced' = raced
  BY DEF GetEnd, serverVars, refreshVars, compactVars
<1>2. TypeOK'
  <2>1. Len(container) \in Nat
    BY DEF IInv, TypeOK
  <2> QED BY <1>1, <2>1 DEF IInv, TypeOK
<1>3. KnownInv' /\ MergeInv' /\ OpenInv' /\ GetInv' /\ DirectoryKeepsNewest'
  BY <1>1 DEF IInv, KnownInv, Known, MergeInv, OpenInv, GetInv, DirectoryKeepsNewest
<1>4. QuietRefreshKeepsNewest'
  BY <1>1 DEF IInv, QuietRefreshKeepsNewest, HasNewest
<1> QED BY <1>2, <1>3, <1>4 DEF IInv

(***************************************************************************)
(* A table is looked into, or skipped because it has a pair older than the *)
(* one that was found.  In the first case best is the newer of two pairs.  *)
(* In the second, best is either the newest pair of all, or from another   *)
(* generation, and not an older one.                                       *)
(***************************************************************************)
LEMMA GetNextStep ==
    ASSUME IInv, GetNext
    PROVE  IInv'
<1> DEFINE t == container[i]
           c == t.pairs[key]
<1>1. /\ pc = "get" /\ pc' = "get" /\ i <= Len(container)
      /\ best' = getPair(t, key, best) /\ i' = i + 1 /\ key' = key
      /\ now' = now /\ flushes' = flushes /\ mem' = mem /\ saving' = saving
      /\ disk' = disk /\ nextId' = nextId /\ files' = files /\ neo' = neo
      /\ container' = container
      /\ cpc' = cpc /\ path' = path /\ newest' = newest /\ raced' = raced
  BY DEF GetNext, serverVars, refreshVars, compactVars
<1>2. /\ container \in Seq(Table) /\ Len(container) \in Nat /\ i \in 1 .. Len(container)
      /\ i \in DOMAIN container /\ DOMAIN container = 1 .. Len(container)
  <2>1. container \in Seq(Table) /\ i \in 1 .. Len(container) + 1
    BY DEF IInv, TypeOK
  <2> QED BY <1>1, <2>1
<1>3. \A n \in 1 .. i : container[n] \in Table /\ container[n] \in Range(container)
  BY <1>2 DEF Range
<1>4. key \in Keys /\ \A n \in 1 .. i : container[n].pairs[key] \in Nat
  BY <1>1, <1>3 DEF IInv, GetInv, Table, Pairs
<1>5. /\ best \in Nat /\ c \in Nat /\ mem[key] \in Nat /\ newest[key] \in Nat
      /\ mem[key] <= best /\ c <= newest[key]
  BY <1>1, <1>2, <1>3, <1>4 DEF IInv, TypeOK, GetInv, KnownInv, Known, Pairs
<1>6. best' = IF best # 0 /\ best > createdMax(t) THEN best ELSE MaxOf(c, best)
  BY <1>1 DEF getPair
<1> HIDE DEF t, c
<1>7. best' \in {best, c} /\ best' \in Nat /\ best <= best'
  BY <1>5, <1>6 DEF MaxOf
<1>8. Generations(Range(container)) => c <= best'
  <2> SUFFICES ASSUME Generations(Range(container)), ~(c <= best') PROVE FALSE
    OBVIOUS
  <2>1. best # 0 /\ best > createdMax(t) /\ best' = best /\ c > best /\ c # 0
    BY <1>5, <1>6 DEF MaxOf
  <2>2. t \in Table /\ t \in Range(container)
    BY <1>2, <1>3 DEF t
  <2>3. PICK j \in Present(t) : createdMax(t) = t.pairs[j] /\ createdMax(t) \in Nat
    BY <1>4, <2>1, <2>2, OldestPair DEF c
  <2>4. CASE best = mem[key]
    <3>1. mem[key] = newest[key]
      BY <1>4, <2>1, <2>4 DEF IInv, KnownInv
    <3> QED BY <1>5, <2>1, <2>4, <3>1
  <2>5. CASE \E n \in 1 .. i - 1 : best = container[n].pairs[key]
    <3>1. PICK n \in 1 .. i - 1 : best = container[n].pairs[key]
      BY <2>5
    <3> DEFINE u == container[n]
    <3>2. u \in Range(container) /\ u \in Table
      BY <1>2, <1>3, <3>1
    <3>3. u # t
      BY <1>4, <1>5, <2>1, <3>1 DEF c
    <3>4. key \in Present(u) /\ key \in Present(t)
      BY <1>4, <2>1, <3>1 DEF Present, c
    <3>5. Older(t, u) \/ Older(u, t)
      BY <2>2, <3>2, <3>3 DEF Generations
    <3>6. CASE Older(t, u)
      BY <1>5, <2>1, <3>1, <3>4, <3>6 DEF Older, c
    <3>7. CASE Older(u, t)
      BY <1>5, <2>1, <2>3, <3>1, <3>4, <3>7 DEF Older
    <3> QED BY <3>5, <3>6, <3>7
  <2> QED BY <1>1, <2>4, <2>5 DEF IInv, GetInv
<1>9. TypeOK'
  <2>1. i' \in 1 .. Len(container') + 1
    BY <1>1, <1>2
  <2> QED BY <1>1, <1>7, <2>1 DEF IInv, TypeOK
<1>10. GetInv'
  <2>1. mem[key] <= best'
    BY <1>5, <1>7
  <2>2. best' = mem[key] \/ \E n \in 1 .. i' - 1 : best' = container[n].pairs[key]
    <3>1. i' - 1 = i /\ 1 .. i - 1 \subseteq 1 .. i /\ i \in 1 .. i
      BY <1>1, <1>2
    <3>2. CASE best' = best
      BY <1>1, <3>1, <3>2 DEF IInv, GetInv
    <3>3. CASE best' = c
      BY <3>1, <3>3 DEF c, t
    <3> QED BY <1>7, <3>2, <3>3
  <2>3. ASSUME Generations(Range(container)), NEW n \in 1 .. i' - 1
        PROVE  container[n].pairs[key] <= best'
    <3>1. CASE n = i
      BY <1>8, <2>3, <3>1 DEF c, t
    <3>2. CASE n # i
      <4>1. n \in 1 .. i - 1 /\ n \in 1 .. i
        BY <1>1, <1>2, <3>2
      <4>2. container[n].pairs[key] <= best /\ container[n].pairs[key] \in Nat
        BY <1>1, <1>4, <2>3, <4>1 DEF IInv, GetInv
      <4> QED BY <1>5, <1>7, <4>2
    <3> QED BY <3>1, <3>2
  <2> QED BY <1>1, <1>4, <2>1, <2>2, <2>3 DEF GetInv
<1>11. KnownInv' /\ MergeInv' /\ OpenInv' /\ DirectoryKeepsNewest'
  BY <1>1 DEF IInv, KnownInv, Known, MergeInv, OpenInv, DirectoryKeepsNewest
<1>12. QuietRefreshKeepsNewest'
  BY <1>1 DEF IInv, QuietRefreshKeepsNewest, HasNewest
<1> QED BY <1>9, <1>10, <1>11, <1>12 DEF IInv

----------------------------------------------------------------------------
(* db_compact. *)

(* Tables are picked, or the process dies: files and server stay.           *)
LEMMA PickCrashStep ==
    ASSUME IInv, CompactPick \/ CompactCrash
    PROVE  IInv'
<1>1. /\ now' = now /\ flushes' = flushes /\ mem' = mem /\ saving' = saving
      /\ disk' = disk /\ nextId' = nextId /\ files' = files /\ neo' = neo
      /\ pc' = pc /\ container' = container /\ key' = key /\ i' = i /\ best' = best
      /\ newest' = newest /\ raced' = raced
  BY DEF CompactPick, CompactCrash, serverVars, refreshVars, getVars
<1>2. \/ cpc' = "idle" /\ path' = {}
      \/ cpc' = "merge" /\ path' \subseteq disk /\ path' # {}
  <2>1. CASE CompactPick
    <3>1. Cardinality(SmartMerge) > 1 /\ path' = SmartMerge /\ cpc' = "merge"
      BY <2>1 DEF CompactPick
    <3>2. SmartMerge # {}
      BY <3>1, FS_EmptySet
    <3> QED BY <3>1, <3>2, PickedOnDisk
  <2>2. CASE CompactCrash
    BY <2>2 DEF CompactCrash
  <2> QED BY <2>1, <2>2
<1>3. TypeOK' /\ MergeInv'
  BY <1>1, <1>2 DEF IInv, TypeOK, MergeInv
<1>4. KnownInv'
  <2>1. Known' \subseteq Known
    BY <1>1, <1>2 DEF Known
  <2> QED BY <1>1, <2>1 DEF IInv, KnownInv
<1>5. OpenInv' /\ DirectoryKeepsNewest' /\ QuietRefreshKeepsNewest'
  BY <1>1 DEF IInv, OpenInv, DirectoryKeepsNewest, QuietRefreshKeepsNewest, HasNewest
<1>6. GetInv'
  BY <1>1 DEF IInv, GetInv, Generations, Older, Present
<1> QED BY <1>3, <1>4, <1>5, <1>6 DEF IInv

(* The merged table appears: it has what the tables it is made from have.   *)
LEMMA MergeStep ==
    ASSUME IInv, CompactMerge
    PROVE  IInv'
<1> DEFINE new == [id |-> nextId, pairs |-> Merged(path)]
<1>1. /\ cpc = "merge" /\ cpc' = "rename" /\ disk' = disk \cup {new} /\ nextId' = nextId + 1
      /\ now' = now /\ flushes' = flushes /\ mem' = mem /\ saving' = saving
      /\ files' = files /\ neo' = neo /\ path' = path
      /\ pc' = pc /\ container' = container /\ key' = key /\ i' = i /\ best' = best
      /\ newest' = newest /\ raced' = raced
  BY DEF CompactMerge, serverVars, refreshVars, getVars
<1>2. /\ Merged(path) \in Pairs
      /\ \A k \in Keys : /\ Merged(path)[k] \in {t.pairs[k] : t \in path}
                         /\ \A t \in path : t.pairs[k] <= Merged(path)[k]
  <2>1. path \subseteq Table /\ path # {} /\ newest \in Pairs
    BY <1>1 DEF IInv, TypeOK, MergeInv
  <2>2. \A t \in path, k \in Keys : t.pairs[k] <= newest[k]
    BY DEF IInv, KnownInv, Known
  <2> QED BY <2>1, <2>2, MergedPairs
<1>3. new \in Table /\ new.id = nextId /\ new.pairs = Merged(path) /\ nextId \in Nat
  BY <1>2 DEF IInv, TypeOK, Table
<1> HIDE DEF new
<1>4. TypeOK'
  <2>1. disk' \subseteq Table /\ nextId' \in Nat
    BY <1>1, <1>3 DEF IInv, TypeOK
  <2> QED BY <1>1, <2>1 DEF IInv, TypeOK
<1>5. KnownInv'
  <2>1. Known' = Known \cup {new} /\ Known \subseteq Table
    BY <1>1 DEF Known, IInv, TypeOK, Range
  <2>2. IsFiniteSet(disk')
    BY <1>1, FS_AddElement DEF IInv, KnownInv
  <2>3. \A t \in Known' : t.id < nextId'
    <3>1. \A t \in Known : t.id \in Nat /\ t.id < nextId
      BY <2>1 DEF IInv, KnownInv, Table
    <3> QED BY <1>1, <1>3, <2>1, <3>1
  <2>4. \A k \in Keys : new.pairs[k] <= newest[k]
    BY <1>2, <1>3 DEF IInv, KnownInv, Known
  <2> QED BY <1>1, <2>1, <2>2, <2>3, <2>4 DEF IInv, KnownInv
<1>6. MergeInv'
  <2>1. new \notin path
    <3>1. \A t \in path : t.id \in Nat /\ t.id < nextId
      BY DEF IInv, KnownInv, Known, TypeOK, Table
    <3> QED BY <1>3, <3>1
  <2> QED BY <1>1, <1>2, <1>3, <2>1 DEF IInv, MergeInv
<1>7. OpenInv' /\ DirectoryKeepsNewest' /\ QuietRefreshKeepsNewest'
  BY <1>1 DEF IInv, OpenInv, DirectoryKeepsNewest, QuietRefreshKeepsNewest, HasNewest
<1>8. GetInv'
  BY <1>1 DEF IInv, GetInv, Generations, Older, Present
<1> QED BY <1>4, <1>5, <1>6, <1>7, <1>8 DEF IInv

(* A merged table goes: its newest pairs are in the one made from it.       *)
LEMMA RenameStep ==
    ASSUME IInv, NEW t \in path, CompactRename(t)
    PROVE  IInv'
<1>1. /\ cpc = "rename" /\ disk' = disk \ {t} /\ path' = path \ {t}
      /\ cpc' = (IF path' = {} THEN "idle" ELSE "rename")
      /\ raced' = (raced \/ pc = "open") /\ nextId' = nextId
      /\ now' = now /\ flushes' = flushes /\ mem' = mem /\ saving' = saving
      /\ files' = files /\ neo' = neo
      /\ pc' = pc /\ container' = container /\ key' = key /\ i' = i /\ best' = best
      /\ newest' = newest
  BY DEF CompactRename, serverVars, refreshVars, getVars
<1>2. PICK m \in disk \ path : \A u \in path, k \in Keys : u.pairs[k] <= m.pairs[k]
  BY <1>1 DEF IInv, MergeInv
<1>3. TypeOK' /\ MergeInv'
  <2>1. TypeOK'
    BY <1>1 DEF IInv, TypeOK
  <2>2. m \in disk' \ path' /\ path' \subseteq disk'
    BY <1>1, <1>2 DEF IInv, MergeInv
  <2> QED BY <1>1, <1>2, <2>1, <2>2 DEF MergeInv
<1>4. KnownInv'
  <2>1. Known' \subseteq Known /\ IsFiniteSet(disk')
    BY <1>1, FS_RemoveElement DEF Known, IInv, KnownInv
  <2> QED BY <1>1, <2>1 DEF IInv, KnownInv
<1>5. OpenInv' /\ QuietRefreshKeepsNewest'
  BY <1>1 DEF IInv, OpenInv, QuietRefreshKeepsNewest, HasNewest
<1>6. GetInv'
  BY <1>1 DEF IInv, GetInv, Generations, Older, Present
<1>7. DirectoryKeepsNewest'
  <2> SUFFICES ASSUME NEW k \in Keys, newest[k] = t.pairs[k]
               PROVE  \E u \in disk' : newest[k] = u.pairs[k]
    BY <1>1 DEF IInv, DirectoryKeepsNewest
  <2>1. /\ m \in disk' /\ t.pairs[k] <= m.pairs[k] /\ m.pairs[k] <= newest[k]
        /\ m.pairs[k] \in Nat /\ t.pairs[k] \in Nat
    BY <1>1, <1>2 DEF IInv, KnownInv, Known, TypeOK, Table, Pairs
  <2> QED BY <2>1
<1> QED BY <1>3, <1>4, <1>5, <1>6, <1>7 DEF IInv

----------------------------------------------------------------------------
(* The theorems. *)

(* An empty directory and a server without tables.                          *)
LEMMA InitInv == Init => IInv
<1> SUFFICES ASSUME Init PROVE IInv
  OBVIOUS
<1>1. NoPairs \in Pairs /\ <<>> \in Seq(Table) /\ 1 \in 1 .. Len(<<>>) + 1
  BY DEF NoPairs, Pairs
<1>2. TypeOK
  BY <1>1 DEF Init, TypeOK
<1>3. Known = {}
  BY DEF Init, Known, Range
<1>4. KnownInv
  BY <1>3, FS_EmptySet DEF Init, KnownInv, NoPairs
<1>5. MergeInv /\ OpenInv /\ GetInv /\ DirectoryKeepsNewest /\ QuietRefreshKeepsNewest
  BY DEF Init, MergeInv, OpenInv, GetInv, DirectoryKeepsNewest, QuietRefreshKeepsNewest,
         HasNewest, NoPairs
<1> QED BY <1>2, <1>4, <1>5 DEF IInv

(* Every step keeps the invariant.                                          *)
LEMMA NextInv == IInv /\ [Next]_vars => IInv'
<1> SUFFICES ASSUME IInv, [Next]_vars PROVE IInv'
  OBVIOUS
<1>1. ASSUME NEW f \in Lists, Flush(f) PROVE IInv'
  BY <1>1, FlushStep
<1>2. CASE SaveFinish
  BY <1>2, SaveFinishStep
<1>3. CASE Reload \/ Restart
  BY <1>3, ReloadStep
<1>4. CASE Glob
  BY <1>4, GlobStep
<1>5. ASSUME NEW t \in files, OpenFile(t) PROVE IInv'
  BY <1>5, OpenFileStep
<1>6. CASE Install
  BY <1>6, InstallStep
<1>7. ASSUME NEW k \in Keys, GetStart(k) PROVE IInv'
  BY <1>7, GetStartStep
<1>8. CASE GetNext
  BY <1>8, GetNextStep
<1>9. CASE GetEnd
  BY <1>9, GetEndStep
<1>10. CASE CompactPick \/ CompactCrash
  BY <1>10, PickCrashStep
<1>11. CASE CompactMerge
  BY <1>11, MergeStep
<1>12. ASSUME NEW t \in path, CompactRename(t) PROVE IInv'
  BY <1>12, RenameStep
<1>13. CASE UNCHANGED vars
  <2>1. /\ now' = now /\ flushes' = flushes /\ mem' = mem /\ saving' = saving
        /\ disk' = disk /\ nextId' = nextId /\ files' = files /\ neo' = neo
        /\ pc' = pc /\ container' = container /\ key' = key /\ i' = i /\ best' = best
        /\ cpc' = cpc /\ path' = path /\ newest' = newest /\ raced' = raced
    BY <1>13 DEF vars, serverVars, refreshVars, getVars, compactVars
  <2>2. TypeOK' /\ KnownInv' /\ MergeInv'
    BY <2>1 DEF IInv, TypeOK, KnownInv, Known, MergeInv
  <2>3. OpenInv' /\ DirectoryKeepsNewest' /\ QuietRefreshKeepsNewest'
    BY <2>1 DEF IInv, OpenInv, DirectoryKeepsNewest, QuietRefreshKeepsNewest, HasNewest
  <2>4. GetInv'
    BY <2>1 DEF IInv, GetInv, Generations, Older, Present
  <2> QED BY <2>2, <2>3, <2>4 DEF IInv
<1> QED
  BY <1>1, <1>2, <1>3, <1>4, <1>5, <1>6, <1>7, <1>8, <1>9, <1>10, <1>11, <1>12, <1>13
  DEF Next

(* Server, directory and db_compact agree on the newest pairs at every step.*)
THEOREM InvariantHolds == Spec => []IInv
BY InitInv, NextInv, PTL DEF Spec

(* The variables of the directory and its users keep their types.           *)
THEOREM TypeCorrect == Spec => []TypeOK
<1>1. IInv => TypeOK
  BY DEF IInv
<1> QED BY <1>1, InvariantHolds, PTL

(* db_compact never takes the newest pair of a key out of the directory,    *)
(* wherever it stops between its merge and its renames.                     *)
THEOREM DirectoryKeepsNewestHolds == Spec => []DirectoryKeepsNewest
<1>1. IInv => DirectoryKeepsNewest
  BY DEF IInv
<1> QED BY <1>1, InvariantHolds, PTL

(* A refresh that db_compact renames nothing under reaches every newest     *)
(* pair (DirectoryListLoader::refresh, ContainerHelper::copy).              *)
THEOREM QuietRefreshKeepsNewestHolds == Spec => []QuietRefreshKeepsNewest
<1>1. IInv => QuietRefreshKeepsNewest
  BY DEF IInv
<1> QED BY <1>1, InvariantHolds, PTL

(* Looking a key up in open tables that are generations gives the newest    *)
(* pair, although tables are skipped (DiskList::getPair___).                *)
THEOREM GenerationLookupNewestHolds == Spec => []GenerationLookupNewest
<1>1. IInv => GenerationLookupNewest
  <2> SUFFICES ASSUME IInv, Generations(Range(container)), pc = "get", i > Len(container)
               PROVE  /\ \A t \in Range(container) : t.pairs[key] <= best
                      /\ mem[key] <= best
    BY DEF GenerationLookupNewest, LookupNewest
  <2>1. container \in Seq(Table) /\ i \in 1 .. Len(container) + 1
    BY DEF IInv, TypeOK
  <2>2. DOMAIN container = 1 .. i - 1
    BY <2>1
  <2> QED BY <2>2 DEF IInv, GetInv, Range
<1> QED BY <1>1, InvariantHolds, PTL
=============================================================================
