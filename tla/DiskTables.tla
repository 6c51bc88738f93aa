---------------------------- MODULE DiskTables ----------------------------
(***************************************************************************)
(* The table files of one data directory and the three that work on them:  *)
(*                                                                         *)
(*   - the save thread of db_net adds a table for a list it swapped out;   *)
(*   - the main thread of db_net refreshes its container of open tables    *)
(*     (glob, then one stat and open per file name, then a sort) and looks *)
(*     keys up in it, table by table;                                      *)
(*   - db_compact, another process, merges some tables into a new one and  *)
(*     then renames the merged ones away, one after the other.  It may die *)
(*     between any two steps and be started again.                         *)
(*                                                                         *)
(* Nothing but the file system synchronises db_compact with db_net.        *)
(*                                                                         *)
(* A pair is its creation time and 0 stands for nullptr: only which of two *)
(* pairs is the newer one matters here, a tombstone is a pair like others. *)
(***************************************************************************)
EXTENDS Naturals, FiniteSets, SequencesExt, TLC

CONSTANTS Keys,
          MinRecords,   \* compaction_min_records
          MaxRecords,   \* compaction_max_records
          MaxMerge,     \* compaction_max_tables
          MaxFlushes,   \* bound: lists swapped out
          MaxName,      \* bound: db_compact starts no merge after this name
          Spread,       \* bound: creation times within one list
          NoKey         \* no lookup is going on

ASSUME RecordsAssumption ==
    /\ IsFiniteSet(Keys)
    /\ MinRecords \in Nat /\ MaxRecords \in Nat /\ MaxMerge \in Nat
    /\ MaxFlushes \in Nat /\ MaxName \in Nat /\ Spread \in Nat
    /\ NoKey \notin Keys

Pairs == [Keys -> Nat]

NoPairs == [k \in Keys |-> 0]

(* A table file: its name, a number that grows with time, and its pairs.    *)
Table == [id : Nat, pairs : Pairs]

(* What server threads and the compacting process share: the directory.     *)
VARIABLES now,        \* the last creation time given to a pair
          nextId,     \* the next file name
          flushes,    \* number of lists swapped out, for the bound
          disk,       \* the table files in the directory
          mem,        \* *list2_, the list swapped out last
          saving,     \* the save thread is writing mem
          pc,         \* main thread: "ready", "glob", "open", "get"
          files,      \* file names the glob gave, not opened yet
          neo,        \* tables opened by this refresh
          container,  \* the sequence of open tables
          key, i, best,   \* the lookup: its key, its position, its result
          cpc,        \* db_compact: "idle", "merge", "rename"
          path,       \* the tables db_compact merges
          newest,     \* history: newest pair swapped out, for each key
          raced       \* history: db_compact renamed during the last refresh

serverVars == <<now, flushes, mem, saving>>
refreshVars == <<files, neo, container>>
getVars == <<key, i, best>>
compactVars == <<cpc, path>>
vars == <<serverVars, nextId, disk, pc, refreshVars, getVars, compactVars,
          newest, raced>>

Init ==
    /\ now = 0 /\ nextId = 1 /\ flushes = 0
    /\ disk = {} /\ mem = NoPairs /\ saving = FALSE
    /\ pc = "ready" /\ files = {} /\ neo = {} /\ container = <<>>
    /\ key = NoKey /\ i = 1 /\ best = 0
    /\ cpc = "idle" /\ path = {}
    /\ newest = NoPairs /\ raced = FALSE

----------------------------------------------------------------------------
(* Tables. *)

MaxOf(a, b) == IF a > b THEN a ELSE b

Present(t) == {k \in Keys : t.pairs[k] # 0}

Size(t) == Cardinality(Present(t))

(***************************************************************************)
(* FileMeta::createdMax returns blob.createdMin: the time of the oldest    *)
(* pair of the table.                                                      *)
(***************************************************************************)
createdMax(t) ==
    CHOOSE c \in {t.pairs[k] : k \in Present(t)} :
        \A k \in Present(t) : c <= t.pairs[k]

(* ContainerHelper::sort_ by createdMax; std::sort leaves ties in any order.*)
SortedContainers(tables) ==
    {s \in SetToSeqs(tables) :
        \A m, n \in DOMAIN s : m < n => createdMax(s[m]) >= createdMax(s[n])}

(* Mutant: the last table that has the key wins.                            *)
LastPair(t, k, b) == IF t.pairs[k] # 0 THEN t.pairs[k] ELSE b

(* DiskList::getPair___(key, best), with its rule for skipping the table.   *)
getPair(t, k, b) ==
    IF b # 0 /\ b > createdMax(t) THEN b ELSE MaxOf(t.pairs[k], b)

----------------------------------------------------------------------------
(* The save thread and the main thread of db_net. *)

(* Mutant: the next flush does not wait for the save thread.                *)
FlushNoJoin(f) ==
    /\ pc = "ready"
    /\ flushes < MaxFlushes
    /\ flushes' = flushes + 1
    /\ mem' = f
    /\ saving' = TRUE
    /\ now' = now + Spread
    /\ newest' = [k \in Keys |-> MaxOf(f[k], newest[k])]
    /\ pc' = IF mem = NoPairs THEN "ready" ELSE "glob"
    /\ UNCHANGED <<nextId, disk, refreshVars, getVars, compactVars, raced>>

(***************************************************************************)
(* ConcurrentFlushList::flush, once the thread is joined: the list that    *)
(* took the writes is swapped out and saved in the background, the list    *)
(* saved before is cleared, and unless that was empty the loader is told.  *)
(***************************************************************************)
Flush(f) ==
    /\ pc = "ready" /\ ~saving
    /\ flushes < MaxFlushes
    /\ flushes' = flushes + 1
    /\ mem' = f
    /\ saving' = TRUE
    /\ now' = now + Spread
    /\ newest' = [k \in Keys |-> MaxOf(f[k], newest[k])]
    /\ pc' = IF mem = NoPairs THEN "ready" ELSE "glob"
    /\ UNCHANGED <<nextId, disk, refreshVars, getVars, compactVars, raced>>

(* The lists the memtable can have become: written after everything saved.  *)
Lists == {f \in [Keys -> {0} \cup now + 1 .. now + Spread] :
             f # NoPairs}

(* FileBuilder, its meta file renamed last: the table appears.              *)
SaveFinish ==
    /\ saving
    /\ saving' = FALSE
    /\ disk' = disk \cup {[id |-> nextId, pairs |-> mem]}
    /\ nextId' = nextId + 1
    /\ UNCHANGED <<now, flushes, mem, pc, refreshVars, getVars, compactVars,
                   newest, raced>>

(* RELOAD, SIGUSR1 or the crontab.                                          *)
Reload ==
    /\ pc = "ready"
    /\ pc' = "glob"
    /\ UNCHANGED <<serverVars, nextId, disk, refreshVars, getVars,
                   compactVars, newest, raced>>

(***************************************************************************)
(* SHUTDOWN with nothing left to save, and the next start: the loader's    *)
(* constructor refreshes an empty container.                               *)
(***************************************************************************)
Restart ==
    /\ pc = "ready" /\ ~saving
    /\ mem' = NoPairs
    /\ container' = <<>>
    /\ pc' = "glob"
    /\ UNCHANGED <<now, flushes, saving, nextId, disk, files, neo, getVars,
                   compactVars, newest, raced>>

(* DirectoryListLoader::refresh reads the directory once...                 *)
Glob ==
    /\ pc = "glob"
    /\ pc' = "open"
    /\ files' = disk
    /\ neo' = {}
    /\ raced' = FALSE
    /\ UNCHANGED <<serverVars, nextId, disk, container, getVars, compactVars,
                   newest>>

(***************************************************************************)
(* ...and ContainerHelper::copy visits the names in order.  A file that is *)
(* not there any more gives no table, also when the server has it open:    *)
(* it is passed over, or an empty DiskList takes its place.                *)
(***************************************************************************)
OpenFile(t) ==
    /\ pc = "open"
    /\ t \in files
    /\ \A u \in files : t.id <= u.id
    /\ files' = files \ {t}
    /\ neo' = IF t \in disk THEN neo \cup {t} ELSE neo
    /\ UNCHANGED <<serverVars, nextId, disk, pc, container, getVars,
                   compactVars, newest, raced>>

Install ==
    /\ pc = "open"
    /\ files = {}
    /\ container' \in SortedContainers(neo)
    /\ neo' = {}
    /\ pc' = "ready"
    /\ UNCHANGED <<serverVars, nextId, disk, files, getVars, compactVars,
                   newest, raced>>

(* A key that is not in the list taking writes: best comes from *list2_.    *)
GetStart(k) ==
    /\ pc = "ready"
    /\ pc' = "get"
    /\ key' = k
    /\ i' = 1
    /\ best' = mem[k]
    /\ UNCHANGED <<serverVars, nextId, disk, refreshVars, compactVars,
                   newest, raced>>

(* One turn of the loop in CollectionList::getPair___.                      *)
GetNext ==
    /\ pc = "get"
    /\ i <= Len(container)
    /\ best' = getPair(container[i], key, best)
    /\ i' = i + 1
    /\ UNCHANGED <<serverVars, nextId, disk, pc, refreshVars, key,
                   compactVars, newest, raced>>

GetEnd ==
    /\ pc = "get"
    /\ i > Len(container)
    /\ pc' = "ready"
    /\ key' = NoKey /\ i' = 1 /\ best' = 0
    /\ UNCHANGED <<serverVars, nextId, disk, refreshVars, compactVars,
                   newest, raced>>

----------------------------------------------------------------------------
(* db_compact. *)

BySize(t, u) == Size(t) < Size(u) \/ (Size(t) = Size(u) /\ t.id < u.id)

(* The loop of prepareSmartMergeFileList, from the smallest table up.       *)
Consider(acc, t) ==
    LET size == Size(t)
        limit == IF Len(acc.path) = 1 THEN (5 * acc.total) \div 4
                                      ELSE acc.total
    IN  IF acc.stop THEN acc
        ELSE IF \/ acc.path = <<>>
                \/ MinRecords # 0 /\ size <= MinRecords
                \/ size < MaxRecords /\ size < limit
          THEN [acc EXCEPT !.path = Append(@, t), !.total = @ + size]
        ELSE IF Len(acc.path) > 1 THEN [acc EXCEPT !.stop = TRUE]
        ELSE [acc EXCEPT !.path = <<t>>, !.total = size]

SmartMerge ==
    LET start == [path |-> <<>>, total |-> 0, stop |-> FALSE]
        p == FoldLeft(Consider, start, SetToSortSeq(disk, BySize)).path
        n == IF MaxMerge > 1 /\ Len(p) > MaxMerge THEN MaxMerge ELSE Len(p)
    IN  {t \in disk : \E m \in 1..n : t = p[m]}

CompactPick ==
    /\ cpc = "idle"
    /\ nextId < MaxName
    /\ Cardinality(SmartMerge) > 1
    /\ path' = SmartMerge
    /\ cpc' = "merge"
    /\ UNCHANGED <<serverVars, nextId, disk, pc, refreshVars, getVars,
                   newest, raced>>

(* Mutant: of two pairs with the same key the older one is written.         *)
MergedOldest(tables) ==
    [k \in Keys |-> LET ts == {t.pairs[k] : t \in tables} \ {0}
                    IN  IF ts = {} THEN 0
                        ELSE CHOOSE c \in ts : \A d \in ts : c <= d]

(* What the DualList or CollectionList iterator gives, tombstones kept.     *)
Merged(tables) ==
    [k \in Keys |-> CHOOSE c \in {t.pairs[k] : t \in tables} :
                        \A t \in tables : t.pairs[k] <= c]

CompactMerge ==
    /\ cpc = "merge"
    /\ disk' = disk \cup {[id |-> nextId, pairs |-> Merged(path)]}
    /\ nextId' = nextId + 1
    /\ cpc' = "rename"
    /\ UNCHANGED <<serverVars, pc, refreshVars, getVars, path, newest, raced>>

(* renameFiles: the meta file of a table is the first to go.                *)
CompactRename(t) ==
    /\ cpc = "rename"
    /\ t \in path
    /\ \A u \in path : u = t \/ BySize(t, u)
    /\ disk' = disk \ {t}
    /\ path' = path \ {t}
    /\ cpc' = IF path' = {} THEN "idle" ELSE "rename"
    /\ raced' = (raced \/ pc = "open")
    /\ UNCHANGED <<serverVars, nextId, pc, refreshVars, getVars, newest>>

(* The process dies.  Files without a meta file are no table.               *)
CompactCrash ==
    /\ cpc # "idle"
    /\ cpc' = "idle"
    /\ path' = {}
    /\ UNCHANGED <<serverVars, nextId, disk, pc, refreshVars, getVars,
                   newest, raced>>

Next ==
    \/ \E f \in Lists : Flush(f)
    \/ SaveFinish
    \/ Reload \/ Restart \/ Glob
    \/ \E t \in files : OpenFile(t)
    \/ Install
    \/ \E k \in Keys : GetStart(k)
    \/ GetNext \/ GetEnd
    \/ CompactPick \/ CompactMerge
    \/ \E t \in path : CompactRename(t)
    \/ CompactCrash

Spec == Init /\ [][Next]_vars

----------------------------------------------------------------------------
(* Properties. *)

(* The variables have the types their declarations say.                     *)
TypeOK ==
    /\ now \in Nat /\ nextId \in Nat /\ flushes \in Nat
    /\ disk \subseteq Table /\ files \subseteq Table /\ neo \subseteq Table
    /\ path \subseteq Table
    /\ mem \in Pairs /\ newest \in Pairs
    /\ saving \in BOOLEAN /\ raced \in BOOLEAN
    /\ pc \in {"ready", "glob", "open", "get"}
    /\ cpc \in {"idle", "merge", "rename"}
    /\ container \in Seq(Table)
    /\ key \in Keys \cup {NoKey} /\ best \in Nat
    /\ i \in 1 .. Len(container) + 1

(* The newest pair of every key is in one of the tables or in *list2_.      *)
HasNewest(tables) ==
    \A k \in Keys : newest[k] \in {mem[k]} \cup {t.pairs[k] : t \in tables}

(***************************************************************************)
(* No merge, no rename and no death of db_compact between two of them      *)
(* removes from the directory the newest pair of a key that the server     *)
(* saved (compact, renameFiles).                                           *)
(***************************************************************************)
DirectoryKeepsNewest ==
    \A k \in Keys :
        \/ newest[k] \in {t.pairs[k] : t \in disk} \cup {0}
        \/ saving /\ newest[k] = mem[k]

(***************************************************************************)
(* After a refresh during which db_compact renamed nothing, the server can *)
(* reach the newest pair of every key, also while db_compact goes on to    *)
(* rename tables that are open (ContainerHelper::copy).                    *)
(***************************************************************************)
QuietRefreshKeepsNewest ==
    pc \in {"ready", "get"} /\ ~raced => HasNewest(Range(container))

(***************************************************************************)
(* "there are a safe way to compact several tables into single file"       *)
(* (README.md:198): whenever the server answers requests, it can reach the *)
(* newest pair of every key.                                               *)
(***************************************************************************)
CompactionSafe == pc \in {"ready", "get"} => HasNewest(Range(container))

(* Every pair of table t is older than every pair of table u.               *)
Older(t, u) ==
    \A j \in Present(t), k \in Present(u) : t.pairs[j] < u.pairs[k]

Generations(tables) ==
    \A t, u \in tables : t # u => Older(t, u) \/ Older(u, t)

(* When the lookup has passed all tables, it holds the newest pair.         *)
LookupNewest ==
    pc = "get" /\ i > Len(container) =>
        /\ \A t \in Range(container) : t.pairs[key] <= best
        /\ mem[key] <= best

(***************************************************************************)
(* The skip rule is sound as long as the open tables are generations, each *)
(* wholly older or newer than another: createdMin orders and bounds them   *)
(* as createdMax would (DiskList::getPair___, ContainerHelper::sort_).     *)
(***************************************************************************)
GenerationLookupNewest == Generations(Range(container)) => LookupNewest

(***************************************************************************)
(* "Reading are sent to Memtable and ALL of the Disktables. Then system    *)
(* finds most recent pair" (README.md:43), after a compaction too.         *)
(***************************************************************************)
LookupAlwaysNewest == LookupNewest
----------------------------------------------------------------------------
(* The inductive invariant behind these properties. *)

(* Every table anyone knows of.                                             *)
Known == disk \cup path \cup files \cup neo \cup Range(container)

(* No table and no list has a pair newer than the newest, names are used    *)
(* once, and the list swapped out last has the newest pair of its keys.     *)
KnownInv ==
    /\ IsFiniteSet(disk) /\ IsFiniteSet(files) /\ IsFiniteSet(neo)
    /\ \A t \in Known : t.id < nextId
    /\ \A k \in Keys : newest[k] <= now /\ \A t \in Known : t.pairs[k] <= newest[k]
    /\ \A k \in Keys : mem[k] \in {0, newest[k]}

(* While tables are renamed, the table merged from them is there.           *)
MergeInv ==
    /\ cpc = "idle" => path = {}
    /\ path \subseteq disk
    /\ cpc = "merge" => path # {}
    /\ cpc = "rename" => \E m \in disk \ path :
            \A t \in path, k \in Keys : t.pairs[k] <= m.pairs[k]

(* A refresh that nothing is renamed under will have opened every table.    *)
OpenInv == pc = "open" /\ ~raced => files \subseteq disk /\ HasNewest(files \cup neo)

(* What the lookup holds is from *list2_ or a table it has passed.          *)
GetInv ==
    /\ pc # "get" => i = 1
    /\ pc = "get" =>
         /\ key \in Keys
         /\ mem[key] <= best
         /\ best = mem[key] \/ \E n \in 1 .. i - 1 : best = container[n].pairs[key]
         /\ Generations(Range(container)) =>
                \A n \in 1 .. i - 1 : container[n].pairs[key] <= best

IInv ==
    /\ TypeOK /\ KnownInv /\ MergeInv /\ OpenInv /\ GetInv
    /\ DirectoryKeepsNewest /\ QuietRefreshKeepsNewest

----------------------------------------------------------------------------
(* For model checking: no step tells one key from another.                  *)
KeySymmetry == Permutations(Keys)
=============================================================================
