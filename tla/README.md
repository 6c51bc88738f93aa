# HM4, specified in TLA+

HM4 is a key/value server in the LSM style: writes go to a list in memory (the
memtable), a full list is saved as an immutable table file, and a read asks the
memory lists and all tables and takes the newest pair.  On top of that it has some
fifty modules of commands: counters, locks, queues, sketches, indexes.  This directory
holds TLA+ specifications of it, TLC models that check them on small instances, and
proofs that TLAPS checks for instances of every size.

All definitions are translations of the code; `PROJECT.json` ("map") gives the
lines of each one.

## The system

### Components, their state and their operations

| Component | State | Operations |
|---|---|---|
| `AVLList` (default memory list), `ArenaAllocator` | ordered pairs, bytes used in the arena | `insertF`, `erase___`, `clear`; the arena only grows until it is reset |
| `ConcurrentFlushList` over `DualList(list1, list2)` | which list takes the writes, the save thread | `insertF` (flush when the predicate says so), `flush`, destructor |
| outer `DualList(flush list, tables)` with `SMART_TOMBSTONE` | none of its own | `getPair`, `erase___`: real erase, or a tombstone |
| `DiskFileFlush`, `FileBuilder` | table under construction | data, index, then the meta file, renamed last |
| `DirectoryListLoader`, `CollectionList`, `DiskList` | container of open tables, sorted by creation time | `refresh`: glob, stat, open, sort; `getPair` table by table |
| `db_compact` (a process of its own) | tables chosen for a merge | choose, merge into a new table, rename the old ones away |
| `BinLogList`, `DiskFileBinLogger`, start-up replay | one log file per memory list | append, truncate on `clear`, unlink on exit, replay into a table |
| `AsyncLoop`, selectors, `IOBuffer` | connections, buffers, timers | accept, read, write, disconnect, expire |
| `AsyncCompletionLoop` over io_uring | the same, and operations the kernel carries out | submit, collect, handle completions |
| `RedisProtocol`, `KeyValueWorker`, `Result` | partly received command, parameters as views into it | parse, execute, answer |
| `TieredMemoryManager`, `SlabAllocator`, `AMBuffer`, `IOBuffer` | free blocks by tier, one block per buffer | allocate, grow, clear, swap, pop |
| other memory lists (`SkipList`, `LinkList`, `VectorList`, unrolled lists, `UnsortedList`) | nodes and links | `insertF`, `erase___`, `clear`, `find`, iteration |
| `DualIterator`, `CollectionIterator` | one iterator per list, a heap | yield every key once, with its newest pair |
| index files of a table (line, hot line, hash, b-tree) | files beside the data | build, open, search, fall back |
| commands on keys | one pair | SET, EXPIRE, RENAME, CAS, counters |
| commands on ranges | a cursor the client keeps | page, accumulate, delete / expire / persist a range |
| commands on one value | a data structure inside the value | filters, sketches, samples, ring buffers, lists, bits, records |
| queue, rate limiter, estimators, latency | several pairs, the clock | push and pop, consume, add and merge |
| indexes (IX, MC, GEO, IXM, MH, V, AC) | a control pair and index pairs per member | add, remove, search |

### How they interact

One *main thread* runs the event loop: it reads a request, parses it, executes the
command to the end and writes the answer.  So commands never overlap.  What runs
beside it:

* the *save thread* of `ConcurrentFlushList` writes the list that was swapped out.
  It takes no lock; `flush()` calls `thread_.join()` before the next swap;
* *db_compact*, a separate process, works on the same directory.  Nothing but the
  file system's `rename` synchronises the two;
* *death of a process* at any instant, followed by a new start that replays logs.

Commands call the list through `insertF`, so every insertion of a command may flush:
pointers into the list are then gone.  Commands that write several pairs open a
`TXGuard`, which does nothing; a crash between two of the writes leaves the first ones.

Signals (`SIGHUP`, `SIGUSR1`) and crontabs only set flags that the main thread
turns into SAVE and RELOAD between two turns of its loop.

### What is hard

* The order swap, start of the save, clear of the older list, refresh of the tables:
  a read in the middle of it has to find everything exactly once or harmlessly twice.
* Which erase is right: really erasing a pair while a table, or the list being saved,
  has an older one brings the old value back.
* "Newest" is decided by creation times, and tables are sorted and skipped by them.
* A refresh is a glob followed by a stat and an open per name, and db_compact
  renames files meanwhile.
* All commands share one answer buffer, which changes places with the buffer of the
  client being served; descriptors are closed and reused within a turn of the loop.
* A log is truncated when its list is cleared; a crash must never fall between.
* The arena only grows; the flush predicate has to see a full one in time.
* With io_uring the kernel owns the buffers of operations under way, completions carry
  only a descriptor number, and a full submission queue is answered by a flag nobody reads.
* A page of results ends for one of three reasons, and others write between two pages.
* An index is a dozen pairs that must agree, written one after the other.
* A value is used by whatever command comes, under the shape its parameters give.

`PROJECT.json` ("hazards") lists these and others with their lines, and the
properties that cover each.

### What makes each component correct

* **store**: a client sees a map; a read at any instant gives the last write of the
  key; a list is not touched while it is saved; every command ends.
* **tables**: nothing the server saved ever leaves the directory; a refresh makes
  everything reachable; a lookup returns the newest pair the tables hold.
* **db_compact**: dying anywhere loses nothing.
* **binlog**: after every step, tables and logs together determine the last value of
  every key; replay restores it.
* **memory lists, iterators, tables**: each is the map its answers describe, in order,
  whatever its nodes, heaps and index files look like.
* **commands**: what a client may rely on: a lock has one owner, a counter keeps its
  limits, an element is popped once, a count is not too low, a search finds what an
  exhaustive search would.
* **memory, files, sockets**: what is taken is given back once; a block is written within
  its bounds and read only where it was written.
* **requests**: a request is found as it was sent however it is cut, its answer is made
  from its own parameters and is no longer than the room it asked for.
* **event loop**: an answer goes to the peer that asked, whole and in order; an event
  is about the client it was reported for; no memory block leaks; a request ends in an
  answer or a disconnect.

## Modules

| Module | Models | Theorems |
|---|---|---|
| `KVStore` | what a client is promised: a map, one request at a time | |
| `FlushStore` | memory lists, arenas, save thread, erase, flush, reload, restart | |
| `FlushStoreProofs` | proofs about `FlushStore` | 7 |
| `DiskTables` | table directory, refresh, lookup, db_compact | |
| `DiskTablesProofs` | proofs about `DiskTables` | 5 |
| `BinLog` | logs, crash, replay | |
| `BinLogProofs` | proofs about `BinLog` | 4 |
| `EventLoop` | connections, buffers, memory blocks, one turn after the other | |
| `EventLoopProofs` | proofs about `EventLoop` and `CompletionLoop` | 8 |
| `BufferMemory` | `tieredmemorymanager.h`, `slaballocator.h`, `ambuffer.h`, `iobuffer.h` | |
| `RedisProtocol` | parser, responses, worker and result of a command, over `BufferMemory` | |
| `RedisProtocolProofs` | what every operation of `BufferMemory` keeps, proofs about `RedisProtocol` | 4 |
| `NaturalSets` | sets of numbers: a least element, steps from one to the next; quotients, powers | lemmas |
| `CompletionLoop` | extends `EventLoop`: the loop over io_uring and the kernel's part | |
| `AVLTree` | `avllist.cc`: nodes, parents, balances, rotations | |
| `SkipLists` | `skiplist.cc`, `linklist.cc`, `vectorlist.cc`, the unrolled lists, `pairvector.h` | |
| `UnsortedLists` | `unsortedlist.h`, `threewayquicksort.h` | |
| `MergeIterators` | `dualiterator.h`, `collectioniterator.h`, `duallist.h`, `collectionlist.h`, the tools that merge | |
| `BinarySearch` | `binarysearch.h` | |
| `DiskSearch` | one table: builders, opening, all ways of searching | |
| `Lists` | the six above, in use | |
| `KeyCommands` | `cmd_mutable.h`, `cmd_mutable_get.h`, `cmd_immutable.h`, `cmd_cas.h`, `cmd_copy.h`, `cmd_counter.h` | |
| `KeyClients` | clients of `KeyCommands` | |
| `KeyClientsProofs` | proofs about `KeyClients` and `KeyCommands` | 5 |
| `Scans` | `cmd_immutable_x.h`, `cmd_accumulators_x.h`, `cmd_mutable_x.h`, hashes, and their clients | |
| `ValueStore` | one value that is updated in place, `pair_vfactory.h` | |
| `Filters` | `cmd_bf.h`, `cmd_cbf.h`, `cmd_cms.h`, `cmd_cf.h`, `cuckoofilter.h` | |
| `Containers` | `cmd_hh.h`, `cmd_mg.h`, `cmd_rs.h`, `cmd_rb.h`, `cmd_sl.h`, `cmd_bitset.h`, `cmd_isam.h` and their containers | |
| `SmallContainers` | `staticvector.h`, `smallvector.h`, `hashtable/` | |
| `PairLayout` | `pair.h`, `pair.cc`, `pair_vfactory.h`, `makepair.h`, `updateinplace.h`: pairs in memory | |
| `Encodings` | `hexconvert.h`, `mybyteswap.h`, `base64.cc`, `mypopcount.h`, the rounds of `mortoncurve.h` | |
| `Handles` | `mmapfile.cc`, `mmapfilesbo.cc`, `mmapbuffer.cc`, `filewriter.h`, `sockets.cc`, the files of `disklist.cc` | |
| `Sketches` | clients of `Filters` and `Containers`, and the four above, in use | |
| `Selectors` | `pollselector.cc`, `epollselector.cc`, `kqueueselector.cc`, `haikuselector.cc`, `sparsearray.h`, the four storages of clients | |
| `Queue`, `TokenBucket`, `Estimators`, `Latency` | `cmd_queue.h`; `cmd_tb.h`; `cmd_hll.h`, `cmd_tdigest.h`, `cmd_summary_stats.h`; `cmd_latency.h` | |
| `Structures` | clients of these four, and of `Scans` | |
| `StructuresProofs` | proofs about `Structures` and `Scans` | 5 |
| `ZSets` | the pairs of one name, a command as a series of writes, crash; `shared_zset.h`, `cmd_index.h`, `cmd_linearcurve.h` | |
| `Spatial` | `mortoncurve.cc`, `cmd_mortoncurve2d.h` to `16d`; `geohash.cc`, `cmd_geo.h` | |
| `RSets` | `shared_rset.h`, `shared_rset_fts.h`, `cmd_mindex2.h`, `cmd_mh.h` | |
| `Vectors` | `cmd_vectors2.h`, `vectors.h`, `vectors_bit.h`, `vectors_storage.h` | |
| `AutoComplete` | `cmd_ac.h`, `utf8tokenizer.h` | |
| `Indexes` | clients of the indexes | |

A module that a run names ends with the values its .cfg gives to constants (`MC...`).

`KeyClients`, `Sketches`, `Structures`, `Indexes` and `Lists` are compositions: their
`Init` chooses a use of the server (a lock, a queue, an index of one kind, a list of one
kind) and their `Next` lets clients call its commands in any order.  They hold what the
clients know of the past, and the properties.  `EventLoop` and `CompletionLoop` compose
the same way: `engine` says which of the two programs runs.

Each component module also holds a few definitions marked *Mutant*: wrong versions
of an action or operator, each a plausible bug.  They are not used by any
specification; each shows, when put in place of the original, that the property
named with it in `PROJECT.json` ("mutants") notices.  `TypeOK` is in
no run where it is proved instead: in `FlushStore`, `DiskTables`, `BinLog`, `EventLoop`,
`RedisProtocol` and `KeyClients`.

### FlushStore

`mem1`, `mem2` are `*list1_`, `*list2_` as functions from keys to pairs; `used1`,
`used2` the bytes their arenas have given out.  A pair is a value (or the mark of a
tombstone), its size and its creation time.  `pc` follows the main thread:

* `ready` to `exec`: `Request`, the worker has a command;
* `exec`: `Set`, `EraseTombstone` (a table is loaded), `EraseReal` (no table, nothing
  swapped out), `EraseDirect` (no table, but a list swapped out);
* `join`: the pair is put aside in `buffer` and `flush()` waits for the save thread;
* `reload`: the lists are swapped, the next save is running; `FlushReload` clears the
  older list, refreshes the loader and inserts the buffered pair.

The save thread copies one pair a step (`SavePair`) and ends with `SaveFinish`, which
makes the table appear (the meta file is renamed last).  `Restart` is an orderly stop
and start.  `InsertF` keeps the code's case analysis: update in place when the new
pair is not larger, allocate otherwise, flush when the predicate holds or memory ran
out, give up when the list is empty and memory ran out.

`latest` is a history variable: the pair stored by the last write that was accepted.

Clock: a write may share a tick with the write before it.  The write that starts a
flush, and the flush itself, take at least one tick; the code relies on the same
thing, as two pairs of one key with equal times in two lists have no newest.

### DiskTables

A table is its name and, per key, a creation time (0: none): only which pair is
newer matters.  The main thread takes `Glob`, one `OpenFile` per name, `Install` (sort
included, ties in any order), and looks up by `GetStart`, `GetNext` per table,
`GetEnd`.  db_compact takes `CompactPick` (the size rule of
`prepareSmartMergeFileList`), `CompactMerge`, `CompactRename` per table, and may
`CompactCrash` anywhere.  `createdMax` returns, as in the code, the time of the
*oldest* pair.  `checkFileInode` reads an uninitialised buffer when a file is gone;
all its outcomes leave the server without that table's pairs, which is what
`OpenFile` does.

### BinLog

Two memory lists with a log each (`list`, `log`, `act`), `Flush`, `Clear` (list, then
log), `SaveFinish`; an orderly stop unlinks the second log and then the first;
`Crash` is possible at any step, in the replay too; `ReplayRecord` takes
one record of a log into the list, `ReplayFlush` makes a table of it, `ReplayEnd` goes on
to the other log, `Open` truncates both and serves.  `CloneMayReplace` keeps the integer
arithmetic of `PairFactory::Clone::getCreated` with `Usecs` units in a second.  The
arena may be full at any record of a replay, so a log may become several tables.
`PowerLoss`
(`PowerSpec` only) also drops any suffix of the logs; tables are assumed durable.

### EventLoop

Server: `clients` and `dense` (the sparse array `clients_` and the order of its dense
part), `sys` (the worker's `system_buffer_`), `free` (blocks per tier of the
`TieredMemoryManager`), `batch` (events of this turn not handled yet), `writing` (the
client a `write(2)` is waiting for), `run` (`keepProcessing_`).  Kernel and peers:
`conn`, `inq`, `outq`, `sent`, `answered`.

A turn is `Wait`, then one step per event: `client_Connect` (the whole accept loop),
`Read...` (read, parse, execute and answer in one step, one action per outcome),
`ErrorEvent`, or `WriteStart` followed by the pieces the kernel takes.  The sockets of
clients are blocking, so nothing else is handled until `WriteDone`,
`WriteInterrupted` or `WriteError`.  `idle_loop` is possible only when a wait has
found nothing.  What a request holds is chosen when it is executed: any request may be
answered shortly, at length, by `emitError`, be EXIT or SHUTDOWN, or be malformed.

Data is cut into pieces: a request of `p` has `Pieces[p]`, an answer one (it fits in
a small block) or two (it needs a large one).  Two tiers stand for the eight; the count
of small blocks is the automatic one.  A `read(2)` that fails although epoll has
reported the descriptor readable ends in a disconnect here; `RedisProtocol` has what
the code really does then.  `SIGPIPE` is left out.

### BufferMemory, RedisProtocol

`m` is the memory of all buffers: the free list of each tier, a context per buffer (block,
size, capacity and the `head_` of the `IOBuffer`), and what the blocks hold.  An operation
is a function from one `m` to the next.  What nobody wrote, or what was freed, reads as
`Garbage`, so a parameter that is used after its block was given away shows in the
answer.  `calcMinimumCount` leaves out the setting that turns a tier off.

`RedisProtocol` goes from bytes to bytes.  A byte is a digit, a sign, CR, LF, or a whole
name (its letters do not matter).  `Parse` gives the offsets of the parameters, which
become views into the client's block; `Execute` gives a response whose texts are such
views or literals; `processSet` asks for the room of `size()` in the one answer buffer and
writes `operator()` into it, and both are modelled apart, as two countings of
the same bytes; `translate_` swaps the buffers.  Numbers wrap at `INT_RANGE` as the `int` of
`atoi` does.  `Read` and `Write` take any of `Lumps` bytes at a time, `Reset` and
`ReadFails` are a peer that goes away between the wait and the read.  Only the commands
that need no database are here; the others differ in what they answer, not in how.

### CompletionLoop

Beside the variables of `EventLoop`: `flight[fd]`, the operation the kernel was asked
for; `accept`, the pending accept; `cq`, the completion queue; `events`, what a wait has
taken from it; `sock`, whose socket a descriptor is.  `Submit` is the wait's
`io_uring_submit`, `Collect` takes at most `MaxEvents` completions, `Handlers` is one
action per completion and outcome.  The `Kernel...` actions carry out reads, writes,
linked timeouts, accepts and closes in any order.  A close is an operation as well, so
the kernel may give the number to a new connection before the loop has handled the
completion.  `QSize` is the computation of the queue size from the number of clients:
that nothing is ever refused for want of room is a consequence, not an assumption.

### AVLTree, SkipLists, UnsortedLists, MergeIterators, DiskSearch, Lists

These modules are functions from a structure to a structure, one per method, with
pointers kept as pointers.  `AVLTree` keeps `root`, and `l`, `r`, `p`, `b` of every
allocated node; a rotation that forgets a parent pointer shows up in iteration.  In
`SkipLists` a node has the lanes it was allocated with; reading above them is an error
TLC reports.  `mem` counts the allocations that still succeed, so every path on which
memory runs out in the middle is taken.  Of `CollectionIterator`'s heap
`MergeIterators` assumes what `std::pop_heap` promises: no iterator comes before its
front.

`DiskSearch` writes a table pair by pair (`copy`) with its line file, builds the hash
index and the b-tree beside it, opens the table in any of its modes and searches it.  `Lists` then looks at
it in every directory it may lie in: with or without line, hash and tree files, whole or
damaged.  `ref` is what a client knows from the answers, and every list is held against
it in every state.

### Selectors

`EventLoop` takes for granted that a wait reports descriptors that are watched and that a
client is found by its descriptor.  `Selectors` is the code below this: `SparseArray` with
`dense_` as memory that outlives `pop_back`, poll and Haiku's wait over it, epoll and kqueue
with the kernel's filters and arrays of results, and the storages of clients (sparse, slab,
dynamic array, map).  A wait takes any state of the sockets; the turn goes over the
results with the code's iterators (`pos`, `last`) while handlers connect and disconnect, which
move the cells it goes over.  `want` is what the loop asked for last, `due` what a wait owes
it.  A wait that a signal interrupts is left out: poll and kqueue call it `OK` and the
results of the wait before are gone over once more (`pollselector.cc`, `kqueueselector.cc`).

### KeyCommands, KeyClients

`db` maps keys to pairs (value, expiration, creation time, in the memory list or not).
A command is checked against `db`, and leaves the insertions it will do in `todo`; each
is a step (`Write`), the process may die in between (`Crash`), time passes (`Tick`, with
`Usecs` units in a second, from which `now32` takes the seconds).  Strings are
sequences of digits and a minus sign: `from_string` and `to_string` do what the code
does with signs, leading zeros, overlong numbers and characters that are no digits; the
buffer of a number has `to_string_buffer_t_size` digits.

### Scans

The pairs in the order of their keys; a prefix is a set of neighbouring keys.
`sharedAccumulatePairs` is the loop under all commands on ranges, with its three ends
(`LoopsMax`, the count, the predicate).  A sweep (`XNDEL`, `HEXPIREALL` and so on) is a
process: it scans, updates in place what is in memory, collects up to `BatchMax` pointers
to other pairs, inserts them one after the other, and starts again when the version of
the list has changed.  A deletion does not look at the version; the keys it collected are
copies, but `last_key` stays a view into the pair where the scan stopped.  `at` follows
that pair: a flush moves it from the memory list to the list being saved, and from there,
or from a table, out of reach (`Aged`); the key read then is any (`LastKeys`).

### ValueStore, Filters, Containers, Sketches

`val` is the value as a sequence of cells.  A command uses it if its length is what the
parameters ask for, and otherwise starts from an empty one; `mem` decides between an
update in place and an insertion.  Hash functions are constants.  `truth` counts what
was really added, per shape and item; shapes that have the same size share their bytes,
as in the code.

### SmallContainers, PairLayout, Encodings, Handles

A cell of memory is `Raw` until an element is constructed in it and after the element is
destroyed, so a vector that forgets to construct or destroy, or frees a block twice, is
noticed (`VectorsFaithful`); two vectors are copied, moved and assigned to each other.
`EasyHashtable` is its probing over either storage, with and without the index of tokens;
its users fill at most half of it (`ContainersAssumption`).

`PairLayout` has a pair as its block: fields, key, value and terminators, `Unset` where nobody
wrote.  `PairFaithful` says that a pair has what the last factory was asked for and that nothing
was written past the block, whether the pair was updated in place or moved, and also by
the factories that are given a value inside the block that they write.

`Encodings` has operators only; `Sketches` checks each against the number, the text or the
count it stands for.

`Handles` counts descriptors and mappings and names the blocks of the slab.  A table is opened in
any mode, its files mapped or read into a block; loaders refresh, which moves tables from one
container to another; listening sockets are made; mapped memory is made, moved and
destroyed; a file is written through a buffer.  Each call of the system may fail (`fate`).
`HandlesOwned`: nothing stays open that nobody holds, nothing is given back twice, everyone
sees his own file, and a written file is a prefix of what the caller wrote until a write
fails.

### Queue, TokenBucket, Estimators, Latency, Structures

An element of a queue is named by the clock, which may be set back.  SPOP erases, steps
over dead pairs up to a limit, and writes the control key: two writes with a crash
between them, or a flush, after which the name of the element is read from a list that was
cleared and another key is erased (`CutAfterControl`).  `Delivered` counts an element that
is erased in this way as gone, like one that expired.  A bucket's pair expires on its own, which the code takes for a full bucket.
`Estimators` keeps HyperLogLog registers, digests with exact sums and weights, and summary
statistics as the folds they are.  A digest's compression follows the code's passes;
`lost` records the numbers it drops.

### ZSets, Spatial, RSets, Vectors, AutoComplete, Indexes

A key is the sequence of tokens that the code joins with `~`.  A command computes the
writes it will do from `db` as it is, then does them one by one; a crash cuts it after
any of them, and within a group of pairs with one value after any subset.  `truth` is
what the last command did with a member, `torn` that a command with it was cut off and
not repeated yet.  Writes of several members see those before them (`Writes`).

`Spatial` has the bit arithmetic of Morton curves with widths as parameters,
`computeBigMin` included, and the range search with its counters of skips and retries.
`UnsignedBits` is the width of `unsigned`, by which the mask of `loadBits` is shifted at the
top bit of coordinates that are as wide (`OneShifted`): undefined in C++, 1 on x86
(`ShiftedOut = 1`).  For
GEO it replaces the sphere by a grid and keeps cell selection and neighbours.  `Vectors` has small integer coordinates:
normalisation divides by the greatest common divisor in place of the length.  Searches
compute the exact result of the code, paging included.

## Runs

| Run | Checks |
|---|---|
| `flush_store` | `ReadsLatest`, `UnloadedInMemory`, `GenerationsDisjoint`, `SavedListFrozen`, `RefinesKVStore`; `RequestEnds` under `Fairness` |
| `disk_tables` | `DirectoryKeepsNewest`, `QuietRefreshKeepsNewest`, `GenerationLookupNewest` |
| `binlog` | `Durable`, `LoggedOnceRecovered` |
| `event_loop` | `BlocksConserved`, `EventsFresh`, `BufferMatchesInterest`, `AnswersInOrder` |
| `event_live` | both loops: `CompletionsOwned`; `RequestAnswered` under `RingFairness` |
| `keys` | `ReadsConsistent`, `LockExclusive`, `CountersHold` |
| `selectors` | `SelectorsSound` |
| `sketches` | `FiltersSound`, `SelectionsSound`, `ContainersFaithful` |
| `structures` | `PopOnce`, `RateBound`, `EstimatesSound`, `PagesExact`, `SweepSound`; `Delivered` and `SweepEnds` under fairness |
| `indexes` | `IndexesAgree`, `FindsExact` |
| `lists` | `ListsAgree`, `IterationMerged`, `SearchExact` |
| `redis_protocol` | `BlocksOwned`, `AnswersExact`, `ParserExact`, `AnswersFit` |

What each property says stands beside its definition.  The runs take between a few
seconds and four minutes with two workers.

### Bounds

* `FlushStore`: two keys, a value of one and one of two units, arena of three units
  and margin one: a list takes one to three pairs, updates happen in place and not in
  place, the predicate and the allocator can each be the one that notices.  `MaxTime`
  3 bounds the requests; two flushes in a row, with a save still running at the
  second, and a restart fit.
* `DiskTables`: two keys, three flushes, `MaxName` 5 leaves room for two
  compactions.  With two keys the 1.25 rule of `Consider` never decides, as sizes are
  1 or 2; the minimum size rule and the restart of the path do.
* `BinLog`: two keys, two values, four writes; `Usecs` 2 with `StartTime` 4 keeps the
  relation of the real numbers (more seconds since 1970 than units in a second would
  need to catch up).  Crashes are not bounded.
* `EventLoop`: two peers, two client slots, three descriptors.  One peer (`Patient`)
  waits for its answers and its request comes in two pieces; the other sends its second
  request ahead, and a block takes both, so that the second may be read with the first
  (it is then dropped without an answer).  Both clients are served in one turn,
  descriptors are reused under events, large blocks run out.  Connections and turns are
  not bounded; requests per connection are (`Asks`).  Timers run out between two turns
  only, as nothing looks at them within one.
* `CompletionLoop`: one slot, so a connection over the limit is dropped and more is ready
  than one wait reports; one small block takes one piece, so a buffer grows, and
  of the two large blocks the answer to it may take the other.  A wait takes
  two completions, one submission slot is reserved: the queue is as small as the code
  makes it for one client.
* `RedisProtocol`: one client asks for anything, whole, doubled or wrong, the other for an
  echo.  Two small blocks and a large one serve three buffers, so growing for a
  request, for an answer and for the error text all fail at times.  Pieces are of eleven
  bytes; `ParserExact` besides cuts every request at every byte.  The largest request is 28
  bytes, numbers have three digits.
* `Selectors`: five descriptors, three clients with poll and two with the others, up to two
  new connections in a turn: a removal moves the last cell into a place that was or was not
  gone over, a descriptor is closed and comes back in one turn, and there is one result less
  than there are sockets.
* `KeyClients`: one name with two sub-keys, values of at most three characters, numbers
  from -13 to 12 in place of 64 bits, so that they have one or two digits and a sign
  and counters overflow, two units in a second, six units of time.  Two clients share the
  lock.
* `Scans`: four keys, a memory list with room for two of them, pages of at most two
  results and two steps, batches of three: every page limit is met before the others, and
  a sweep flushes the list under itself.
* `Sketches`: hashes collide, cells have two bits (three after that is the maximum), at
  most five additions, widths that are and are not powers of two, parameters that are
  refused, several shapes over the same bytes.  Vectors have two elements inside and three blocks
  to grow into, hash tables eight places for three of five keys, of which three collide.
  Pairs have keys and values up to the limit and beyond.  Tables have parts that are missing,
  empty, small and large, for three blocks of a slab; a writer has a buffer of two
  bytes or none.
* `Structures`: four elements and two mishaps (a crash, a clock set back) for the queue,
  buckets of three tokens, registers that collide, digests of one and three centroids, four
  numbers, four buckets of latency.
* `Indexes`: three members, two or three commands, one crash.  IX3 and IX4 run without
  crashes, as a member has up to 33 pairs; IX5 is left out for the number of its pairs:
  its code is that of the others with one more field.  Boxes and points are corners,
  edges and the inside; pages of one and of three.
* `Lists`: trees of up to seven keys built in any order, and trees of twelve from four
  plans (as few nodes as the height allows, both ways, and zigzags), with two erasures:
  every case of both rotations occurs.  Unrolled nodes hold three pairs.  Tables hold
  any ascending part of six keys, which are shorter than, as long as and longer than the
  hot line's prefix, with and without NULs, one a tombstone and one expired or not; a table
  that grows from 20 keys to 32 gets a tree of two levels.  Unsorted lists have up to five
  pairs in any order, or ten that leave a part of five to the shell sort at the depth of
  the cutoff (one here, 16 in the code).

Deadlock is not checked: after a stop nothing happens, and at its bounds a model stops.

### Fairness

`flush_store` assumes weak fairness of the command being executed, of `FlushSwap` and
`FlushReload` (the main thread goes on) and of the save thread's steps (the operating
system runs it; it takes no lock and waits for nothing).  Nothing is assumed of
clients or of SAVE, RELOAD and restarts.

`event_live`, with a selector: weak fairness of waiting and of the handlers (the main
thread goes on), strong fairness of a descriptor being reported (epoll rotates its ready
list), weak fairness of `idle_loop` (a wait that stays without events ends after five
seconds) and of peers taking their answers.  The last one is needed: sockets are
blocking, and a peer that takes nothing stops everyone.  With io_uring: weak fairness of
the main thread (submit, collect, handle), and of the kernel carrying out the operation
of each descriptor; strong fairness of accepting a peer, because the accept queue is
first in, first out, and other peers may come in between without end.

`structures`: weak fairness of SPOP and strong fairness of the clock, for `Delivered`: clients
go on asking, time goes on.  For `SweepEnds` weak fairness of the steps of a sweep: commands
run to their end, and the client goes on from the key it was answered.

## Statements the code does not meet

These properties are defined beside the others, each from a line of a document or a
comment or an assertion; no run checks them, since the code does not satisfy them.  To see a
counterexample, put the name under `INVARIANT` or `PROPERTY` in the .cfg of the module
in place of its properties.

| Property | Module | The code | Says otherwise |
|---|---|---|---|
| `WriteAlwaysInserted` | `FlushStore` | `concurrentflushlist.h:82`: an arena that is full while its list is empty refuses every write | `hm4/flushlist_guarantees.txt:3` |
| `TombstoneAlwaysInserted` (three keys) | `FlushStore` | `duallist.h:182`: a delete during the first save goes past the flush list | the same |
| `CompactionSafe` | `DiskTables` | `baselistloader.h:48`: a refresh that overlaps the renames misses tables until the next one | `README.md:198` |
| `LookupAlwaysNewest` | `DiskTables` | `filemeta.h:71`: a merged table is skipped by the time of its oldest pair | `README.md:43` |
| `Recovered` | `BinLog` | `pair.h:841`: the replay keeps the first pair of a key | `README.md:52` |
| `FsyncedDurable` (`PowerSpec`) | `BinLog` | `filewriter.h:220`: no `fsync(2)` | `db_net_options.h:139` |
| `IdleDisconnected` (`FairSpec`) | `EventLoop` | `asyncloop.h.cc:77`: a busy loop expires nobody | `db_net_options.h:143` |
| `ExpireAtHolds` | `KeyClients` | `cmd_mutable.h:706`, `716`: the clock is read for the test, for the time left and for the creation time; if a second passes in between, the key lives past its time | `commands_docs/commands_mutable.php:178` |
| `HashAnswerTrue` | `Scans` | `cmd_mutable_x.h:125`, `194`: a hash command answers 1 though its scan ended at a limit and keys remain | `commands_hash.php:208` |
| `NextExact` | `Scans` | `shared_accumulateresults.h:121`: a tail that is itself a live key is skipped by the next XNNEXT | `commands_immutable_x.php:160` |
| `ReserveEmpties` | `Sketches` | `pair_vfactory.h:63`: a value of the right size in memory is kept | `commands_bf.php:25`, `commands_hh.php:57` |
| `RadiusComplete` | `Indexes` | `common/geohash.cc:235`: four cells do not always cover the circle | `commands_geo.php:92` |
| `NoFreeCoins` | `Structures` | `cmd_tb.h:72`: a grant in the last second of a pair is not written, and the next one starts from a full bucket | the comment at `cmd_tb.h:73` |
| `NothingDropped` | `Structures` | `tdigest.cc:284`: an aggressive compression may make no room, and the number is dropped | the comment at `tdigest.cc:284` |
| `HotLineExact` | `Lists` | `disklist.cc:159`: a key shorter than the prefix is found uncompared, although the prefix is padded with NULs and keys may have NULs; `disklist.cc:191`: in a partition the rests of keys are compared, and `cmplcp.h:194` finds an empty rest equal to any | the comment at `disklist.cc:180` |
| `LastKeyKept` | `Scans` | `cmd_mutable_x.h:196`: the last key of a deletion is a view into a pair that its erasures may have flushed away | `commands_docs/commands_mutable_x.php:12` |
| `JumpsExact` | `Indexes` | `common/mortoncurve.cc:32`: `1u` is shifted by 32 at the top bit of 32-bit coordinates, nothing is wiped on x86, the next place is too far and points of the box are skipped | `commands_docs/commands_mortoncurve2d.php:147` |
| `ReadsFit` | `RedisProtocol` | `asyncloop.h.cc:177`: a failed `read(2)` is cast to `size_t` before it is looked at | the assertion at `iobuffer.h:160` |

For `HotLineExact`, take a table with the key `ab` (as long as the hot line's prefix,
`HPair::N`) and search it for `abc`: the search returns the pair of `ab`, although
`disklist.cc:180` argues that comparing the rests is enough.  Or take a table with the key
`a` and search it for `a\0`: both have the prefix `a\0`, the key is shorter than `HPair::N`
in the code, and the search returns the pair of `a`.  If the key that is searched is longer
than the prefix, `a\0b`, the rest of `a` behind it does not exist: `substr` throws in a
`noexcept` function (`Terminated`).  And a first key of NULs alone gets no entry in the line
(`filebuilder.h:77` starts from the prefix zero), so it is not found.  `SharesHKey` lists
these cases, and `SearchExact` excludes them for the hot line.

The memory lists compare prefixes too: `HPair::cmp` takes two keys for one if their prefixes
are equal and end with a NUL (`hpair.h:25`).  The assumption `DistinctHKeys` of `Lists` says
that the keys in use do not meet this, as keys without NULs do not; without it, and with
`PaddedHKeys = {0, 1}`, `ListsAgree` is violated for every linked list.

For `LastKeyKept`, delete a range whose pages stop at a pair of a table or of the list that
is being saved, with so many pairs before it that the erasures flush: the list is cleared, or
the tables are loaded again, and what is answered as the last key is what lies there now.  If
that sorts behind pairs of the range, a client that goes on from it leaves them.
`SweepSound` promises a deletion only if this did not happen (`fresh`).  `SweepEnds` holds
all the same: a key that is too small costs one more page, and each such answer comes with an
erasure.

For `JumpsExact`, a box that starts below the middle of a dimension, not at 0, and ends above
it makes `computeBigMin` load the top bit (`ShiftsOut`); `FindsExact` excludes these boxes for
the jumping search where coordinates are as wide as `unsigned` (two, three and four
dimensions).  With `ShiftedOut = 0`, what the source means, `JumpsExact` holds.

For `ReadsFit`, let a peer reset its connection between the wait and the read: -1 becomes
a huge `size_t`, `size <= 0` at `asyncloop.h.cc:181` is not true, and `finalizeBuffer` ends
the buffer one byte before what was read last.  In a buffer that was empty this is beyond
any capacity, and the assertion stops the server.

## Proofs

TLAPS checks every theorem below for all values of the constants, under the assumptions
the component's module states of them.  Each proofs module ends with `NextInv`, one lemma
per action, and the theorems that follow from `IInv`; each `IInv` (of `RedisProtocol`:
what it says beyond types) was checked by TLC on the component's run before it was proved.

### FlushStore

For every set of keys and values, every size function, arena and margin
(`SizesAssumption`, `NoneAssumption`):

* `TypeCorrect`, `InvariantHolds`, `ReadsLatestHolds`, `UnloadedInMemoryHolds`,
  `GenerationsDisjointHolds`, `SavedListFrozenHolds`;
* `StoreImplementsMap`: `FlushStore` implements `KVStore`.

`ReadsLatest` alone is not inductive.  Whether a flush may clear a list depends on
its table being finished and loaded, and whether reading the newest pair is right
depends on all of `mem1`, `mem2`, `buffer` and the tables being *generations*, each
wholly older than the next.  `IInv` says so in parts:

* `ControlInv`: what `pc`, `req` and `buffer` have to do with each other;
* `ClockInv`: what was swapped out or saved, or is about to be, is older than now;
* `GenerationInv`: tables, `mem2` and `mem1` do not overlap in time; during
  `reload` the two lists have changed roles;
* `SaveInv`: what is built so far is a part of `mem2`; an idle thread means that
  `mem2` has its table; tables not loaded are still in memory;
* `LatestInv`: the last write of a key can be found, and nothing newer.

Reads follow from `NewestIsLatest`: among the pairs found two with equal times are the same
one.  For the refinement, `ReadsLatest` makes the map a client sees equal to the values in
`latest` (`ViewIsWritten`).  So a step is a step of the map if it changes `latest` at
the requested key to the requested value, or not at all (`StepOnWritten`); which of
the two follows from the action alone.

### BinLog

For every set of keys and values and any number of writes, as long as the clock shows more
seconds since 1970 than a second has units (`TimeAssumption`): `TypeCorrect`,
`InvariantHolds`, `DurableHolds`, `LoggedOnceRecoveredHolds`.

`Durable` says where the newest pair is; that no step loses it needs to know why a log may
go away at each place where one does.  `MirrorInv` and `ErasedInv` tie a list to its log: a
key that is in the log but not in the list was really erased, and then nothing older is
anywhere, so that its log may go although its last record is in no table.  `SavedInv` says when a
list may be cleared, `UnlinkInv` when a log may be unlinked, `TimesInv` that times name
pairs.  `ReplayInv` holds per record: the only record of a key in a log is, once passed, in
a table or the list, whatever was there before and wherever the arena was full.
That is why keys written once per list are recovered: `CloneMayReplace`, which
compares units with seconds, never has to decide between two records of one log.

### DiskTables

For every finite set of keys and all limits of the compaction (`RecordsAssumption`):
`TypeCorrect`, `InvariantHolds`, `DirectoryKeepsNewestHolds`,
`QuietRefreshKeepsNewestHolds`, `GenerationLookupNewestHolds`.

`KnownInv` speaks of every table anyone has heard of, in the directory or not, since a
lookup may hold a table that db_compact has renamed.  `MergeInv`: while tables are renamed,
the merged table is among those that stay and covers them; this is all the directory needs,
so which tables `CompactPick` chooses plays no part in it.  `OpenInv`: a refresh
that nothing was renamed under still has every name it needs ahead of it or open.
`GetInv`: what a lookup holds is the newest of the tables it has passed, if these are of
flushes.

### EventLoop

For any peers, limits, lengths of requests and blocks (`LoopAssumption`):
`TypeCorrect`, `InvariantHolds`, `BlocksConservedHolds`, `EventsFreshHolds`,
`BufferMatchesInterestHolds` and the action property `AnswersInOrderHolds`.

`ConnInv` relates connections to clients, `EventInv` the events not handled yet to the
clients they were reported for, `DataInv` says whose pieces buffers and sockets hold,
`OrderInv` in which order, `BlockInv` who owns the memory.  `AnswersInOrder` is not
inductive without `OrderInv`: that an answer is to a later
request than the last one follows only from the requests in the socket being later than
those in the buffer, and these later than what was answered.  It has to hold across
requests that are dropped when a buffer is swapped (`Between`).

### CompletionLoop

For any peers, clients, descriptors, completions taken per wait and orders in which the
kernel completes operations (`RingAssumption` besides `LoopAssumption`: `"none"` is no peer,
and no peer sends without end): `RingInvariantHolds`, `CompletionsOwnedHolds`.

A completion carries a descriptor number only, so that it is about the right client must
follow from what is under way.  `RingInv` says this of each way an operation goes:

* `FlightInv`: an operation in the submission queue or the kernel was asked for by the client
  that has the descriptor now; the buffer is in the state that operation needs, and
  nothing completed is waiting for it;
* `PendingInv`: the same of a completion that is not handled yet, in the completion queue
  or among the events of this turn, and that it is the only one of its client;
* `AcceptInv`: an accepted descriptor is free when its turn comes.  The kernel may
  accept on a descriptor whose close is completed but not handled: then the close comes first;
* `SockInv`: a client's socket is its peer's until its close is completed, which is what
  keeps the kernel from reusing the descriptor under it;
* `AskedInv`: every client has something under way, or it would be forgotten.

One operation per client is also what makes the queue large enough: `RoomForRequest` counts the
entries (an operation and its timeout for each client, one accept) and finds two left whenever a
handler asks, so the flag that nobody reads is never set.  With the selector's loop
(`engine = "select"`) `RingInv` says nothing; `EventLoop`'s theorems do.

### KeyCommands, KeyClients

For any names, values, numbers, times and clients, any width of numbers and any limits of the
counter (`ConstantsAssumption`; `BufferAssumption`: the buffer of a number is large enough for
the numbers that are written; `ClientsAssumption`: a client's token is one digit):
`InvariantHolds`, `TypeCorrect`, `LockExclusiveHolds`, `CountersHoldHolds`,
`ReadsConsistentHolds`.

`Types` is inductive over the writes a command leaves: `RequestWrites` goes through all
commands and bounds what each may insert.  The rest is kept apart by what the
server is used for (`OneUse`):

* `LockInv` for the lock of SETNX, CAS and CAD.  What a client believes (`holds`) is in the
  pair (`LockHeld`), and so is what it will believe once a late answer arrives
  (`LockPromised`): without it a grant that travels while the lease is extended or
  released could make a second owner.  `LockWriting` says the same of a command between
  its test and its write, `LockReleased` that who releases has stopped believing;
* `CounterInv`: the pair, and any write under way, is the text of a number within the
  limits.  INCRLIMIT reads this text back, so the proof needs `NumberAsText`:
  `from_string` undoes `to_string` (`NextDigit`, `MagnitudeOfDigits`: digit by digit, with
  `power` as a function, which is the one induction the library's facts about
  numbers allow);
* `MovingInv`: a value that is renamed is whole under one of the two names, with a
  time to live that is not shorter, at each instant between the two writes.

`ReadersAgree`, the other half of `ReadsConsistent`, needs `Types` only: all commands
that read decide by the same clock.

### BufferMemory, RedisProtocol

`RedisProtocolProofs` first shows of each operation (`allocate`, `resize`, `clear`, `swap`, `pop`
and so on) that it takes a `Good` memory to a `Good` one, whether it succeeds or not: each
block in its free list or in one buffer, once, each buffer inside its block.
It then uses this for any tiers, clients, requests, pieces and limits
(`MemoryAssumption`, `ProtocolAssumption`, `NumberAssumption`): `TypeCorrect`,
`InvariantHolds`, `BlocksOwnedHolds`, `AnswersFitHolds`.  The theorems have the hypothesis
`HashesAreNumbers`: `murmur` and `mixer` answer with numbers of 64 bits.

`IInv` adds to `Good` what a buffer is while its connection waits: nothing taken off its
front while it reads, something left in it while it writes.  `AnswersFit` is a lemma about
values more than about steps.  `WidthGrows`: a larger number has no fewer digits, so the
buffer of a number is large enough.  `ParseFound`: the parameters the parser finds lie in the
text and are short enough.  `StringsFit` and `TakesBoth`: a response of several
texts writes no more than the sum of what each asked for.  `Execute` is then gone through
command by command.

### Structures

For any elements, limits of SPOP, buckets, prices and any number of mishaps
(`QueueAssumption`, `TBAssumption`), and any number of keys, limits of a scan and batch
(`ScansAssumption`): `InvariantHolds`, `PopOnceHolds`, `RateBoundHolds`, `SweepSoundHolds`,
`PagesExactHolds`.
What the server is not used for stays alone.

`PopOnce` needs `QueueInv`: an element that was answered and is still live waits for its
second write, with the control key on it, or its SPOP was cut.  When SPOP gives up,
`LastSeen` is the pair that has exactly the limit of pairs before it (`RankFound`: a set
of more than n numbers has one with n below it); no live element lies before it, because
the first live one is further than the limit.

`RateBound` needs `BucketInv`, which says of the moment the pair was written what the
property says of now.  It is kept because quotients lose nothing they should not:
filling up twice gives no more than filling up once for the sum of the seconds
(`RefillAdds`, from `QuotientBounds`).

`SweepSound` speaks of the end of a sweep; `SweepInv` says at each instant where the pairs are
that are still to be changed: not before the key the scan begins at (`ScanInv`), or among the
pointers collected or from the key after the last of them on (`BatchInv`).  A
pointer is used only while the version of the list is the one it was read under, and then
`at` is not gone; deletions keep keys, and what `SweepInv` says of them ends (`fresh`)
when the last key was read from a pair that is gone.  That a restarted scan harms nothing is `Applied`:
doing it twice is doing it once, wherever the pair lies by then.

`PagesExact` speaks of the end of the pages, and of the order of what was delivered; `PageInv`
says between two pages that each key the client may expect was delivered or does not lie before
the key it goes on from, which lies after all that was delivered.  One page keeps it by
`WalkIs`: whichever of the predicates and limits ends a scan, it took the live keys before the
first halt, and goes on from that halt or nothing of the range is left (`CommandIs`).  Others
may write between two pages: what they delete is no longer expected, and a flush
moves pairs without changing what is live (`DueKept`).  That the answer has the keys
that the scan took is `PairsFlat`, about `FlattenSeq`, whose recursive function is shown to
be the one written out.

`NaturalSets` has the few facts about sets of numbers the proofs need in place of an
induction (a set of numbers has a least member, and one that has 0 and
with each member the next has them all).

### Only model-checked

* Liveness (`RequestEnds`, `RequestAnswered`, `SweepEnds`, `Delivered`): ENABLED is out of
  the prover's reach.
* `AnswersExact` and `ParserExact`: the first would need the parser to be the inverse of the
  encoding, an induction over the digits of lengths and the parameters.
* `EstimatesSound` of `Structures`: registers, centroids, buckets of a histogram and
  accumulators are compared with a fold over all that was given: an induction over data.
* `SelectorsSound`: not proved; see the plan.
* `Lists`, `Sketches` and `Indexes`: recursive operators or `Bitwise` keep `AVLTree`,
  `BinarySearch`, `SkipLists`, `UnsortedLists`, `MergeIterators`, `DiskSearch`, `Spatial`,
  `RSets`, `AutoComplete`, `Filters` and what extends or instantiates them with TLC.

## Other observations

Met while modelling; the models keep the behaviour, or leave the case out as said.

* `shared_zset.h:953` writes an index pair ACEDC where the order ACEDB is meant (compare
  the 326 orders of the comment at 723): a range over the columns A, C, E, D, B finds nothing.
* The paging of points (`cmd_linearcurve.h:73`): `MC2POINT` takes the number of results for
  the start key (`cmd_mortoncurve2d.h:619`), so its second page is empty.  `MC1ADD` takes 64
  bits and `MC1POINT` 32 (`cmd_linearcurve.h:442`, `497`).
* `threewayquicksort.h:285` compares signed characters: bytes above 127 sort below the end
  of a key.  `Lists` assumes characters up to 127.
* `disklist.cc:220`: a key whose hash is zero looks like an empty cell; `disklist.cc:296`:
  `openForward_` keeps `aligned_` of whatever was open before.  `Lists` looks at aligned
  tables in that mode.
* `cmd_vectors2.h:326`: `VADD` takes one dimension for the index of longer vectors.
* `utf8tokenizer.h:100`: a text whose last character is cut off is iterated past its end.
* `BFEXISTS` and `BITMGET` read past a value that is shorter than its parameters say
  (`cmd_bf.h:195`, `cmd_bitset.h:199`): the models answer any bit there.  `SLMGET` of a missing
  list dereferences null (`cmd_sl.h:365`), `XNAVG` of an empty page divides by zero
  (`cmd_accumulators_x.h:214`): left out.
* `kqueueselector.cc`: `end()` is the end of the array and not of the results, so a turn goes
  over what earlier waits left there (`SelectorsSound` says this of kqueue less), and may read
  from a blocking socket that has nothing.  Its timeout takes the milliseconds for
  nanoseconds.
* `haikuselector.cc`: `wait_for_objects` overwrites `events`, which is what is asked for next, so a
  descriptor that had nothing to report is not waited for any more.
* `pollselector.cc`: the listening socket takes one of the places, so there is one client less
  than configured.
* `DECR` by the smallest 64-bit number negates it, which overflows (`cmd_counter.h:29`): the
  model wraps, as the compiled code does.
* `SSMERGE` into one of its sources reads it after it was cleared (`cmd_summary_stats.h:283`).
* `RENAME` and `COPY` in the last second of a key give the new key no expiration
  (`cmd_copy.h:49`, `54`).
* `EXPIRE` and `PERSIST` sweeps over more pairs than the memory list holds flush and restart
  for ever (`cmd_mutable_x.h:114`); `SweepEnds` excludes them.
* `db_compact_tombstones` may name a table under which another one, overlapping in time, has
  the pair of a tombstone (`filemeta.h:71`); tables of flushes do not overlap.
* `redisprotocol.cc:52`: `*01` that arrives in two parts after `*0` is refused as a command
  without parameters.

* `smallvector.h:374`: `copy_` destroys the elements of the target before `reserve`, which then moves
  them if it has to grow.  The program copies vectors of trivial types only, where this is
  harmless, and so does the model.
* `base64.cc:104`: a `=` in the middle of a text leaves places of the output unwritten.
* `mmapfilesbo.cc:46`: a block of the slab is lost when the file cannot be read into it (`lost` in
  `Handles`).  An empty file opens as a block, but not as a mapping.
* `disklist.cc:331`: when a part of a table cannot be opened, the parts before it stay open until
  the table is closed.
* `filewriter.h:159`: the move assignment does not close the file it had.

## Not modelled

* What a failing write (disk full) does to tables and logs: `Handles` shows that `FileWriter` gives
  up the bytes and tells nobody, the models of the store assume that writes succeed.  Clocks that step
  back, except for the queue.  Two writes of a key in one microsecond have no newest pair: the models give
  each its own time where the code relies on it.
* The letters of command names, the tokenizer, and the text forms of floating point
  numbers.  Hash functions are constants, floating point numbers small integers or
  fractions, the sphere a grid.
* `SIGPIPE`, an overflow of the completion
  queue (it is twice the submission queue).  Completions of a descriptor without a client
  (`PROBLEM_MAP_NOT_FOUND`) have no action: `CompletionsOwned` shows that there are none.
* Waits that are interrupted or fail, the generated command table, help and
  information texts, tools that only print, vendored code (`include/fmt`), and superseded
  files (`trash`, `.idea`).

## Plan

1. `AnswersExact` of `RedisProtocol`: that a parser of a whole request finds the parameters
   that were encoded, for any parameters.
2. `SelectorsSound`: that `SparseArray` finds every key it holds is inductive as it stands; what a
   turn still owes (`due`) has to be tied to the cells between `pos` and `last`.
