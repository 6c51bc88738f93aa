---------------------------- MODULE FlushStore ----------------------------
(***************************************************************************)
(* The store that db_net runs: DualList(ConcurrentFlushList(mem1, mem2),   *)
(* CollectionList(disk tables)) with ERASE_WITH_SMART_TOMBSTONE.           *)
(*                                                                         *)
(* One main thread executes commands; one background thread saves the      *)
(* list that was swapped out.  A command that finds the arena full stops   *)
(* in thread_.join() until the save is over, swaps the lists, starts the   *)
(* next save, clears the list that was saved before, reloads the tables    *)
(* and only then inserts the pair it had put aside: pc follows that.       *)
(***************************************************************************)
EXTENDS Naturals

CONSTANTS Keys, Vals,
          Bytes,        \* size of a pair that holds a given value
          TSBytes,      \* size of a fresh tombstone, a pair with no value
          ArenaSize,    \* bytes in the arena of one memory list
          Margin,       \* SAFE_MARGIN of the flush predicate
          MaxTime,      \* bound: no request or save is accepted later
          NoVal,        \* the value of a tombstone
          NoPair,       \* nullptr
          NoReq,        \* no request is being executed
          Missing       \* what GET answers for a key that is not there

(***************************************************************************)
(* A Pair: value, size and creation time.  NoVal stands for isTombstone(): *)
(* an empty value, or the expiry mark Tombstone::createHint leaves on a    *)
(* pair updated in place, which keeps its size.                            *)
(***************************************************************************)
Pair == [val : Vals \cup {NoVal}, bytes : Nat, created : Nat]

Requests == [key : Keys, val : Vals \cup {Missing}]

ASSUME SizesAssumption ==
    /\ Bytes \in [Vals -> Nat]
    /\ TSBytes \in Nat
    /\ ArenaSize \in Nat
    /\ Margin \in Nat
    /\ MaxTime \in Nat

ASSUME NoneAssumption ==
    /\ NoVal \notin Vals
    /\ Missing \notin Vals
    /\ NoPair \notin Pair
    /\ NoReq \notin Requests

List == [Keys -> Pair \cup {NoPair}]

EmptyList == [k \in Keys |-> NoPair]

IsEmpty(list) == \A k \in Keys : list[k] = NoPair

VARIABLES now,      \* wall clock, in its smallest unit
          mem1,     \* *list1_ : takes the writes
          mem2,     \* *list2_ : swapped out, the thread saves it
          used1,    \* bytes allocated in the arena of mem1
          used2,    \* bytes allocated in the arena of mem2
          pc,       \* main thread: "ready", "exec", "join", "reload"
          req,      \* the request being executed
          buffer,   \* bufferPair: the pair put aside during a flush
          thread,   \* save thread: "idle" or "running"
          todo,     \* keys the save thread has not written yet
          built,    \* the pairs the save thread has written
          disk,     \* the finished tables in the data directory
          loaded,   \* the tables in the loader's container
          latest    \* history: the pair of the last write of each key

memVars == <<mem1, mem2, used1, used2>>
threadVars == <<thread, todo, built>>
diskVars == <<disk, loaded>>
vars == <<now, memVars, pc, req, buffer, threadVars, diskVars, latest>>

Init ==
    /\ now = 0
    /\ mem1 = EmptyList /\ mem2 = EmptyList
    /\ used1 = 0 /\ used2 = 0
    /\ pc = "ready" /\ req = NoReq /\ buffer = NoPair
    /\ thread = "idle" /\ todo = {} /\ built = EmptyList
    /\ disk = {} /\ loaded = {}
    /\ latest = EmptyList

----------------------------------------------------------------------------
(* Reading. *)

(* Mutant: the older pair wins.                                             *)
OldestPair(p1, p2) ==
    IF p1 = NoPair THEN p2
    ELSE IF p2 = NoPair THEN p1
    ELSE IF p1.created > p2.created THEN p2 ELSE p1

(* getNewestPair_(p1, p2): on equal times p2 stays, the one found earlier.  *)
getNewestPair(p1, p2) ==
    IF p1 = NoPair THEN p2
    ELSE IF p2 = NoPair THEN p1
    ELSE IF p1.created > p2.created THEN p1 ELSE p2

(***************************************************************************)
(* CollectionList::getPair___: the newest of what the tables hold and of   *)
(* the best pair so far, which stays on equal times.  Module DiskTables    *)
(* models the loop over the sorted tables and its rule for skipping one.   *)
(***************************************************************************)
TablesGetPair(tables, k, best) ==
    LET found == ({t[k] : t \in tables} \cup {best}) \ {NoPair}
        Newest(p) == \A q \in found : q.created <= p.created
    IN  IF found = {} THEN NoPair
        ELSE IF best # NoPair /\ Newest(best) THEN best
        ELSE CHOOSE p \in found : Newest(p)

getPair(k) == TablesGetPair(loaded, k, getNewestPair(mem2[k], mem1[k]))

(* getPairOK_: a tombstone is no pair.                                      *)
ValOf(p) ==
    IF p = NoPair THEN Missing ELSE IF p.val = NoVal THEN Missing ELSE p.val

View == [k \in Keys |-> ValOf(getPair(k))]

----------------------------------------------------------------------------
(* The memory list: AVLList::insertF over an arena allocator. *)

(* The pair a request makes: PairFactory::Normal or ::Tombstone.            *)
PairOf(v, t) ==
    IF v = Missing
      THEN [val |-> NoVal, bytes |-> TSBytes, created |-> t]
      ELSE [val |-> v, bytes |-> Bytes[v], created |-> t]

(* canInsertHintAllocatorF: the old pair is at least as large.              *)
UpdatesInPlace(old, p) == IF old = NoPair THEN FALSE ELSE p.bytes <= old.bytes

(***************************************************************************)
(* tryUpdateInPlaceLC or a new node.  In place, Tombstone::createHint      *)
(* leaves the value bytes alone, Normal::createHint writes a shorter one.  *)
(***************************************************************************)
Stored(old, p) ==
    IF UpdatesInPlace(old, p) /\ p.val = NoVal
      THEN [p EXCEPT !.bytes = old.bytes]
      ELSE p

(* allocateNode, when the pair is not updated in place.                     *)
Allocates(old, p) == IF UpdatesInPlace(old, p) THEN 0 ELSE p.bytes

(* xallocate returns nullptr: ERROR_NO_MEMORY.                              *)
NoMemory(used, old, p) ==
    Allocates(old, p) # 0 /\ used + Allocates(old, p) > ArenaSize

(* DiskFileAllocatorPredicate: getFreeMemory() < minBytes.                  *)
MustFlush(p) == ArenaSize < used1 + p.bytes + Margin

----------------------------------------------------------------------------
(* Commands of the main thread. *)

(* A client's request reaches the worker.                                   *)
Request(r) ==
    /\ pc = "ready"
    /\ now < MaxTime
    /\ req' = r
    /\ pc' = "exec"
    /\ UNCHANGED <<now, memVars, buffer, threadVars, diskVars, latest>>

(* list1_->insertF(factory) of a factory created "now": it may replace.     *)
MemInsert(p) ==
    LET k == req.key  s == Stored(mem1[k], p)
    IN  /\ mem1' = [mem1 EXCEPT ![k] = s]
        /\ used1' = used1 + Allocates(mem1[k], p)
        /\ latest' = [latest EXCEPT ![k] = s]

Done == pc' = "ready" /\ req' = NoReq

(***************************************************************************)
(* flushlist_impl_::insertF.  If the predicate holds, or the list is out   *)
(* of memory, create the pair in the buffer and flush; flush() returns at  *)
(* once when list1_ is empty, and the insert is tried without it.          *)
(* Clock assumption: the write that finds the arena full is not in the     *)
(* same microsecond as the write before it.                                *)
(***************************************************************************)
InsertF(p) ==
    LET full == NoMemory(used1, mem1[req.key], p)
    IN  /\ now' = p.created
        /\ \/ /\ ~full
              /\ ~MustFlush(p) \/ IsEmpty(mem1)
              /\ MemInsert(p)
              /\ Done
              /\ UNCHANGED buffer
           \/ /\ full /\ IsEmpty(mem1)
              /\ Done
              /\ UNCHANGED <<mem1, used1, latest, buffer>>
           \/ /\ MustFlush(p) \/ full
              /\ ~IsEmpty(mem1)
              /\ p.created > now
              /\ buffer' = p
              /\ pc' = "join"
              /\ UNCHANGED <<mem1, used1, latest, req>>
        /\ UNCHANGED <<mem2, used2, threadVars, diskVars>>

(* A command runs in the same clock tick as the one before, or later.       *)
Set ==
    /\ pc = "exec"
    /\ req.val # Missing
    /\ \E t \in {now, now + 1} : InsertF(PairOf(req.val, t))

(***************************************************************************)
(* DualList::erase___, twice, SMART_TOMBSTONE.  With a table loaded, the   *)
(* outer list inserts a tombstone through the flush list.                  *)
(***************************************************************************)
EraseTombstone ==
    /\ pc = "exec"
    /\ req.val = Missing
    /\ loaded # {}
    /\ \E t \in {now, now + 1} : InsertF(PairOf(Missing, t))

(* Mutant: really erases although the list being saved may hold the key.    *)
EraseRealTooSoon ==
    /\ pc = "exec"
    /\ req.val = Missing
    /\ loaded = {}
    /\ mem1' = [mem1 EXCEPT ![req.key] = NoPair]
    /\ latest' = [latest EXCEPT ![req.key] = NoPair]
    /\ Done
    /\ UNCHANGED <<now, mem2, used1, used2, buffer, threadVars, diskVars>>

(* No table and no swapped out list: the pair is really erased.             *)
EraseReal ==
    /\ pc = "exec"
    /\ req.val = Missing
    /\ loaded = {} /\ IsEmpty(mem2)
    /\ mem1' = [mem1 EXCEPT ![req.key] = NoPair]
    /\ latest' = [latest EXCEPT ![req.key] = NoPair]
    /\ Done
    /\ UNCHANGED <<now, mem2, used1, used2, buffer, threadVars, diskVars>>

(***************************************************************************)
(* No table, but a swapped out list: the inner DualList inserts the        *)
(* tombstone into list1_ itself, not through ConcurrentFlushList::insertF, *)
(* so a full arena refuses it.                                             *)
(***************************************************************************)
EraseDirect ==
    /\ pc = "exec"
    /\ req.val = Missing
    /\ loaded = {} /\ ~IsEmpty(mem2)
    /\ \E t \in {now, now + 1} :
         LET p == PairOf(Missing, t)
         IN  /\ now' = t
             /\ IF NoMemory(used1, mem1[req.key], p)
                  THEN UNCHANGED <<mem1, used1, latest>>
                  ELSE MemInsert(p)
    /\ Done
    /\ UNCHANGED <<mem2, used2, buffer, threadVars, diskVars>>

(* SAVE, BGSAVE, SIGHUP: flush() with nothing to insert afterwards.         *)
Save ==
    /\ pc = "ready"
    /\ now < MaxTime
    /\ ~IsEmpty(mem1)
    /\ pc' = "join"
    /\ UNCHANGED <<now, memVars, req, buffer, threadVars, diskVars, latest>>

(* RELOAD, SIGUSR1, the reload crontab: DirectoryListLoader::refresh.       *)
Reload ==
    /\ pc = "ready"
    /\ loaded' = disk
    /\ UNCHANGED <<now, memVars, pc, req, buffer, threadVars, disk, latest>>

(* Mutant: flush does not wait for the save thread.                         *)
FlushSwapNoJoin ==
    /\ pc = "join"
    /\ now' = now + 1
    /\ mem1' = mem2 /\ mem2' = mem1
    /\ used1' = used2 /\ used2' = used1
    /\ thread' = "running"
    /\ todo' = {k \in Keys : mem1[k] # NoPair}
    /\ built' = EmptyList
    /\ pc' = "reload"
    /\ UNCHANGED <<req, buffer, diskVars, latest>>

(***************************************************************************)
(* ConcurrentFlushList::flush: thread_.join() returns, swap, start the     *)
(* save thread.  That takes at least a tick of the clock.                  *)
(***************************************************************************)
FlushSwap ==
    /\ pc = "join"
    /\ thread = "idle"
    /\ now' = now + 1
    /\ mem1' = mem2 /\ mem2' = mem1
    /\ used1' = used2 /\ used2' = used1
    /\ thread' = "running"
    /\ todo' = {k \in Keys : mem1[k] # NoPair}
    /\ built' = EmptyList
    /\ pc' = "reload"
    /\ UNCHANGED <<req, buffer, diskVars, latest>>

(* Mutant: the saved list is cleared and the loader not refreshed.          *)
FlushReloadNoRefresh ==
    /\ pc = "reload"
    /\ mem1' = EmptyList
    /\ used1' = 0
    /\ buffer' = NoPair
    /\ Done
    /\ UNCHANGED <<now, mem2, used2, threadVars, diskVars, latest>>

(* Mutant: the loader is refreshed and the saved list not cleared.          *)
FlushReloadNoClear ==
    /\ pc = "reload"
    /\ loaded' = disk
    /\ IF buffer = NoPair
         THEN UNCHANGED <<mem1, used1, latest>>
         ELSE MemInsert(buffer)
    /\ buffer' = NoPair
    /\ Done
    /\ UNCHANGED <<now, mem2, used2, threadVars, disk>>

(***************************************************************************)
(* flush goes on: unless it is empty, the list saved before is cleared and *)
(* the loader refreshed.  Then the clone of the buffer is inserted.        *)
(***************************************************************************)
FlushReload ==
    /\ pc = "reload"
    /\ loaded' = IF IsEmpty(mem1) THEN loaded ELSE disk
    /\ LET used == IF IsEmpty(mem1) THEN used1 ELSE 0
           full == buffer # NoPair /\ NoMemory(used, NoPair, buffer)
       IN  IF buffer = NoPair \/ full
             THEN /\ mem1' = EmptyList
                  /\ used1' = used
                  /\ UNCHANGED latest
             ELSE /\ mem1' = [EmptyList EXCEPT ![req.key] = buffer]
                  /\ used1' = used + Allocates(NoPair, buffer)
                  /\ latest' = [latest EXCEPT ![req.key] = buffer]
    /\ buffer' = NoPair
    /\ Done
    /\ UNCHANGED <<now, mem2, used2, threadVars, disk>>

(***************************************************************************)
(* SHUTDOWN and the next start.  ~ConcurrentFlushList joins the thread and *)
(* saves list1_; the new process loads every table.                        *)
(***************************************************************************)
Restart ==
    /\ pc = "ready"
    /\ thread = "idle"
    /\ now < MaxTime
    /\ now' = now + 1
    /\ disk' = IF IsEmpty(mem1) THEN disk ELSE disk \cup {mem1}
    /\ loaded' = disk'
    /\ mem1' = EmptyList /\ mem2' = EmptyList
    /\ used1' = 0 /\ used2' = 0
    /\ UNCHANGED <<pc, req, buffer, threadVars, latest>>

----------------------------------------------------------------------------
(* The save thread: DiskFileFlush and FileBuilder::build. *)

SavePair(k) ==
    /\ thread = "running"
    /\ k \in todo
    /\ built' = [built EXCEPT ![k] = mem2[k]]
    /\ todo' = todo \ {k}
    /\ UNCHANGED <<now, memVars, pc, req, buffer, thread, diskVars, latest>>

(* Mutant: the table is finished and the thread never is.                   *)
SaveNeverEnds ==
    /\ thread = "running"
    /\ todo = {}
    /\ disk' = disk \cup {built}
    /\ UNCHANGED <<now, memVars, pc, req, buffer, threadVars, loaded, latest>>

(* The meta file is renamed last: the table appears all at once.            *)
SaveFinish ==
    /\ thread = "running"
    /\ todo = {}
    /\ disk' = disk \cup {built}
    /\ thread' = "idle"
    /\ UNCHANGED <<now, memVars, pc, req, buffer, todo, built, loaded, latest>>

Next ==
    \/ \E r \in Requests : Request(r)
    \/ Set
    \/ EraseTombstone \/ EraseReal \/ EraseDirect
    \/ Save \/ Reload
    \/ FlushSwap \/ FlushReload
    \/ Restart
    \/ \E k \in Keys : SavePair(k)
    \/ SaveFinish

(***************************************************************************)
(* The worker runs the command it was given, a flush that began goes on,   *)
(* and the operating system runs the save thread.                          *)
(***************************************************************************)
Fairness ==
    /\ WF_vars(Set \/ EraseTombstone \/ EraseReal \/ EraseDirect)
    /\ WF_vars(FlushSwap)
    /\ WF_vars(FlushReload)
    /\ WF_vars(\E k \in Keys : SavePair(k))
    /\ WF_vars(SaveFinish)

Spec == Init /\ [][Next]_vars

FairSpec == Spec /\ Fairness

----------------------------------------------------------------------------
(* Properties. *)

(* The variables have the types their declarations say.                     *)
TypeOK ==
    /\ now \in Nat
    /\ mem1 \in List /\ mem2 \in List
    /\ used1 \in Nat /\ used2 \in Nat
    /\ pc \in {"ready", "exec", "join", "reload"}
    /\ req \in Requests \cup {NoReq}
    /\ buffer \in Pair \cup {NoPair}
    /\ thread \in {"idle", "running"}
    /\ todo \subseteq Keys
    /\ built \in List
    /\ disk \subseteq List /\ loaded \subseteq List
    /\ latest \in List

(***************************************************************************)
(* At every instant, in the middle of a flush too, a read of a key through *)
(* mem1, mem2 and the loaded tables gives what the last write of that key  *)
(* stored (getPair___, getNewestPair_).                                    *)
(***************************************************************************)
ReadsLatest == \A k \in Keys : ValOf(getPair(k)) = ValOf(latest[k])

(***************************************************************************)
(* A finished table the loader has not opened yet still has all its pairs  *)
(* in a memory list: flush() never clears a list before its table can be   *)
(* read.                                                                   *)
(***************************************************************************)
UnloadedInMemory == \A t \in disk \ loaded : t = mem1 \/ t = mem2

(* Every pair of list a is older than every pair of list b.                 *)
Older(a, b) ==
    \A j, k \in Keys :
        a[j] # NoPair /\ b[k] # NoPair => a[j].created < b[k].created

(***************************************************************************)
(* The creation times of two tables never overlap: what the loader's sort  *)
(* by createdMin and DiskList's skip rule rely on.                         *)
(***************************************************************************)
GenerationsDisjoint ==
    \A t, u \in disk : t # u => Older(t, u) \/ Older(u, t)

----------------------------------------------------------------------------
(* Why reads are correct: the parts of the inductive invariant. *)

(* Every pair of the list was created before time t.                        *)
Before(list, t) == \A k \in Keys : list[k] # NoPair => list[k].created < t

(* Where the main thread is, which request it holds, what is in the buffer. *)
ControlInv ==
    /\ pc = "ready" => req = NoReq
    /\ pc = "exec" => req # NoReq
    /\ pc \in {"ready", "exec"} => buffer = NoPair
    /\ pc \in {"join", "reload"} => (req = NoReq <=> buffer = NoPair)
    /\ buffer # NoPair => ValOf(buffer) = req.val

(* What was swapped out or saved is older than anything written later.      *)
ClockInv ==
    /\ \A k \in Keys : mem1[k] # NoPair => mem1[k].created <= now
    /\ Before(mem2, now)
    /\ pc = "reload" => Before(mem1, now)
    /\ \A t \in disk : Before(t, now)
    /\ buffer # NoPair =>
          /\ buffer.created <= now
          /\ Before(mem1, buffer.created) /\ Before(mem2, buffer.created)
          /\ \A t \in disk : Before(t, buffer.created)

(* Tables, the swapped out list and the list taking writes are generations. *)
GenerationInv ==
    /\ GenerationsDisjoint
    /\ \A t \in disk : t # mem2 => Older(t, mem2)
    /\ pc # "reload" => /\ Older(mem2, mem1)
                        /\ \A t \in disk : Older(t, mem1)
    /\ pc = "reload" => /\ Older(mem1, mem2)
                        /\ \A t \in disk \ {mem1, mem2} : Older(t, mem1)

(* What is being saved, what is saved, what is loaded.                      *)
SaveInv ==
    /\ pc = "join" => ~IsEmpty(mem1)
    /\ thread = "running" => ~IsEmpty(mem2)
    /\ \A t \in disk : ~IsEmpty(t)
    /\ thread = "running" =>
          \A k \in Keys : built[k] = IF k \in todo THEN NoPair ELSE mem2[k]
    /\ thread = "idle" => IsEmpty(mem2) \/ mem2 \in disk
    /\ pc = "reload" => IsEmpty(mem1) \/ mem1 \in disk
    /\ loaded \subseteq disk
    /\ \A t \in disk \ loaded : t = mem2 \/ (pc = "reload" /\ t = mem1)

(* The pairs a read of k can find.                                          *)
Found(k) == ({mem1[k], mem2[k]} \cup {t[k] : t \in loaded}) \ {NoPair}

(* The last write of a key can be found and nothing newer can.              *)
LatestInv ==
    \A k \in Keys :
        /\ latest[k] # NoPair => latest[k] \in Found(k)
        /\ \A p \in Found(k) :
              latest[k] # NoPair /\ p.created <= latest[k].created

IInv ==
    TypeOK /\ ControlInv /\ ClockInv /\ GenerationInv /\ SaveInv /\ LatestInv

----------------------------------------------------------------------------
(* What no step does, what the store implements, what must happen. *)

(***************************************************************************)
(* No step changes the list that the save thread is iterating over, since  *)
(* save_ takes no lock ("no guard needed").                                *)
(***************************************************************************)
SavedListFrozen == [][thread = "running" => mem2' = mem2]_vars

KV == INSTANCE KVStore WITH db <- View

(***************************************************************************)
(* The store is a map: a request changes its own key only, at one instant, *)
(* and no flush, save, reload or restart changes what a client sees.       *)
(***************************************************************************)
RefinesKVStore == KV!Spec

(* Every request ends: a command waiting in thread_.join() is released.     *)
RequestEnds == (req # NoReq) ~> (req = NoReq)

(***************************************************************************)
(* "Pair will be always inserted, even in case of flush"                   *)
(* (flushlist_guarantees.txt): a write that ended was applied.             *)
(***************************************************************************)
WriteAlwaysInserted ==
    [][req # NoReq /\ req' = NoReq /\ req.val # Missing
          => View'[req.key] = req.val]_vars

(* The same guarantee for the tombstone a delete inserts.                   *)
TombstoneAlwaysInserted ==
    [][EraseDirect => View'[req.key] = Missing]_vars

-----------------------------------------------------------------------------
(* A small instance: with a short and a long value a write may or may not be *)
(* made in place, and one arena takes two or three pairs.                    *)
MCBytes == [v \in Vals |-> IF v = CHOOSE long \in Vals : TRUE THEN 2 ELSE 1]
=============================================================================
