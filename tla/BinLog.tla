------------------------------ MODULE BinLog ------------------------------
(***************************************************************************)
(* The binlogs of db_net (BinLogList over each of the two memory lists of  *)
(* ConcurrentFlushList), crashes, and the replay when db_net starts again. *)
(*                                                                         *)
(* Each list appends what it stores to a log file of its own.  When a list *)
(* that was saved is cleared, its log is truncated.  A start that finds    *)
(* log files replays the first one, record by record, into a list that is  *)
(* saved to a table, then the second one, and only then opens, and thereby *)
(* truncates, both.                                                        *)
(***************************************************************************)
EXTENDS Naturals, Sequences, TLC

CONSTANTS Keys, Vals,
          NoVal,        \* the value of a tombstone
          NoPair,       \* nullptr
          Usecs,        \* clock units in a second
          StartTime,    \* the clock when the first process starts
          MaxTime       \* bound: no command is accepted later

Pair == [val : Vals \cup {NoVal}, created : Nat]

(* A clock that shows more seconds since 1970 than a second has units.      *)
ASSUME TimeAssumption ==
    /\ Usecs \in Nat \ {0}
    /\ StartTime \in Nat /\ StartTime >= Usecs * Usecs
    /\ MaxTime \in Nat

ASSUME NoneAssumption == NoVal \notin Vals /\ NoPair \notin Pair

List == [Keys -> Pair \cup {NoPair}]

(* A record of a log: the key and the pair.                                 *)
Entry == [key : Keys, pair : Pair]

EmptyList == [k \in Keys |-> NoPair]

VARIABLES now,      \* the clock
          act,      \* which list takes the writes: *list1_ is list[act]
          list,     \* the lists in the two arenas; the replay builds its own there
          log,      \* the two log files
          saving,   \* the save thread is writing the other list
          disk,     \* the tables in the data directory
          pc,       \* serving: "up", "clear"; stopping: "unlink2", "unlink1";
                    \* starting: "replay1", "replay2", "open"
          pos,      \* records of the log that were replayed
          latest    \* history: the last pair stored for each key

vars == <<now, act, list, log, saving, disk, pc, pos, latest>>

Lists == {1, 2}

other == 3 - act

Init ==
    /\ now = StartTime
    /\ act = 1
    /\ list = [l \in Lists |-> EmptyList]
    /\ log = [l \in Lists |-> <<>>]
    /\ saving = FALSE
    /\ disk = {}
    /\ pc = "up"
    /\ pos = 0
    /\ latest = EmptyList

----------------------------------------------------------------------------
(* Commands. *)

(* BinLogger::operator(): the log with a record of the pair at its end.     *)
Logged(l, k, p) == [log EXCEPT ![l] = Append(@, [key |-> k, pair |-> p])]

(* The log as an empty file: unlinked, or opened again.                     *)
Truncated(l) == [log EXCEPT ![l] = <<>>]

(* BinLogList::insertF: the list stores the pair, the log gets a copy.      *)
Insert(k, v) ==
    LET p == [val |-> v, created |-> now + 1]
    IN  /\ pc = "up"
        /\ now < MaxTime
        /\ now' = now + 1
        /\ list' = [list EXCEPT ![act][k] = p]
        /\ log' = Logged(act, k, p)
        /\ latest' = [latest EXCEPT ![k] = p]
        /\ UNCHANGED <<act, saving, disk, pc, pos>>

(* DualList::erase___ may drop the pair: nothing older could show up.       *)
MayEraseReally == disk = {} /\ list[other] = EmptyList

EraseTombstone(k) == ~MayEraseReally /\ Insert(k, NoVal)

(* Mutant: a pair that is really erased leaves nothing in the log.          *)
EraseUnlogged(k) ==
    LET p == [val |-> NoVal, created |-> now + 1]
    IN  /\ pc = "up"
        /\ now < MaxTime
        /\ MayEraseReally
        /\ list[act][k] # NoPair
        /\ now' = now + 1
        /\ list' = [list EXCEPT ![act][k] = NoPair]
        /\ latest' = [latest EXCEPT ![k] = p]
        /\ UNCHANGED <<act, log, saving, disk, pc, pos>>

(* BinLogList::erase___: a pair that was DELETED is logged as a tombstone.  *)
EraseReal(k) ==
    LET p == [val |-> NoVal, created |-> now + 1]
    IN  /\ pc = "up"
        /\ now < MaxTime
        /\ MayEraseReally
        /\ list[act][k] # NoPair
        /\ now' = now + 1
        /\ list' = [list EXCEPT ![act][k] = NoPair]
        /\ log' = Logged(act, k, p)
        /\ latest' = [latest EXCEPT ![k] = p]
        /\ UNCHANGED <<act, saving, disk, pc, pos>>

----------------------------------------------------------------------------
(* Flushing. *)

(* Mutant: flush does not wait for the save thread.                         *)
FlushNoJoin ==
    /\ pc = "up"
    /\ list[act] # EmptyList
    /\ act' = other
    /\ saving' = TRUE
    /\ pc' = "clear"
    /\ UNCHANGED <<now, list, log, disk, pos, latest>>

(* ConcurrentFlushList::flush: join, swap the lists, start the save thread. *)
Flush ==
    /\ pc = "up"
    /\ list[act] # EmptyList
    /\ ~saving
    /\ act' = other
    /\ saving' = TRUE
    /\ pc' = "clear"
    /\ UNCHANGED <<now, list, log, disk, pos, latest>>

(* BinLogList::clear of a list that is not empty: the list, then its log.   *)
Clear ==
    /\ pc = "clear"
    /\ pc' = "up"
    /\ IF list[act] = EmptyList
         THEN UNCHANGED <<list, log>>
         ELSE /\ list' = [list EXCEPT ![act] = EmptyList]
              /\ log' = Truncated(act)
    /\ UNCHANGED <<now, act, saving, disk, pos, latest>>

SaveFinish ==
    /\ saving
    /\ saving' = FALSE
    /\ disk' = disk \cup {list[other]}
    /\ UNCHANGED <<now, act, list, log, pc, pos, latest>>

----------------------------------------------------------------------------
(* Stopping and starting. *)

(* The list, when it is not empty, is saved as a table.                     *)
Saved(l) == IF l = EmptyList THEN disk ELSE disk \cup {l}

(* SHUTDOWN: ~ConcurrentFlushList joins and saves *list1_...                *)
Shutdown ==
    /\ pc = "up"
    /\ ~saving
    /\ disk' = Saved(list[act])
    /\ list' = [l \in Lists |-> EmptyList]
    /\ pc' = "unlink2"
    /\ UNCHANGED <<now, act, log, saving, pos, latest>>

(* ...then ~BinLogListBase of the second and of the first list unlink.      *)
Unlink2 ==
    /\ pc = "unlink2"
    /\ pc' = "unlink1"
    /\ log' = Truncated(2)
    /\ UNCHANGED <<now, act, list, saving, disk, pos, latest>>

Unlink1 ==
    /\ pc = "unlink1"
    /\ pc' = "open"
    /\ log' = Truncated(1)
    /\ UNCHANGED <<now, act, list, saving, disk, pos, latest>>

(* The process dies, while it replays too: what was in memory is gone.      *)
Crash ==
    /\ list' = [l \in Lists |-> EmptyList]
    /\ saving' = FALSE
    /\ pc' = "replay1"
    /\ pos' = 0
    /\ UNCHANGED <<now, act, log, disk, latest>>

(***************************************************************************)
(* isValidForReplace of a PairFactory::Clone.  Clone::getCreated casts the *)
(* 64 bits [seconds][units] to 32, which leaves the units, and these are   *)
(* then taken for seconds; zero stands for "now" and may replace anything. *)
(***************************************************************************)
CloneMayReplace(p, old) ==
    LET units == p.created % Usecs
    IN  units = 0 \/ units * Usecs >= old.created

(* insertF of a Clone into the AVLList of the replay.                       *)
ReplayInsert(l, e) ==
    IF l[e.key] = NoPair \/ CloneMayReplace(e.pair, l[e.key])
      THEN [l EXCEPT ![e.key] = e.pair] ELSE l

Replaying(n) == pc = IF n = 1 THEN "replay1" ELSE "replay2"

(* Mutant: the records come from the first log, whichever is replayed.      *)
ReplayFirst(n) ==
    /\ Replaying(n) /\ pos < Len(log[n])
    /\ pos' = pos + 1
    /\ list' = IF pos' > Len(log[1]) THEN list
               ELSE [list EXCEPT ![n] = ReplayInsert(@, log[1][pos'])]
    /\ UNCHANGED <<now, act, log, saving, disk, pc, latest>>

(* binlogFileReplay: insert(list, *it) for the next record.                 *)
ReplayRecord(n) ==
    /\ Replaying(n) /\ pos < Len(log[n])
    /\ pos' = pos + 1
    /\ list' = [list EXCEPT ![n] = ReplayInsert(@, log[n][pos'])]
    /\ UNCHANGED <<now, act, log, saving, disk, pc, latest>>

(* FlushList::insertF finds the arena full, at any record: save and clear.  *)
ReplayFlush(n) ==
    /\ Replaying(n) /\ pos < Len(log[n])
    /\ disk' = Saved(list[n])
    /\ list' = [list EXCEPT ![n] = EmptyList]
    /\ UNCHANGED <<now, act, log, saving, pc, pos, latest>>

(* replayBinlogFile: ~FlushList saves the list; the log stays as it is.     *)
ReplayEnd(n) ==
    /\ Replaying(n) /\ pos = Len(log[n])
    /\ disk' = Saved(list[n])
    /\ list' = [list EXCEPT ![n] = EmptyList]
    /\ pos' = 0
    /\ pc' = IF n = 1 THEN "replay2" ELSE "open"
    /\ UNCHANGED <<now, act, log, saving, latest>>

(* The pairs of key k in the tables, and the newest of them.                *)
InTables(k) == {t[k] : t \in disk} \ {NoPair}

TablesGetPair(k) ==
    IF InTables(k) = {} THEN NoPair
    ELSE CHOOSE p \in InTables(k) : \A q \in InTables(k) : q.created <= p.created

(***************************************************************************)
(* The BinLogger constructors truncate both files, the loader opens every  *)
(* table, and clients are served.  From here on, what the tables give is   *)
(* what was stored.                                                        *)
(***************************************************************************)
Open ==
    /\ pc = "open"
    /\ pc' = "up"
    /\ act' = 1
    /\ log' = [l \in Lists |-> <<>>]
    /\ latest' = [k \in Keys |-> TablesGetPair(k)]
    /\ UNCHANGED <<now, list, saving, disk, pos>>

Next ==
    \/ \E k \in Keys, v \in Vals : Insert(k, v)
    \/ \E k \in Keys : EraseTombstone(k) \/ EraseReal(k)
    \/ Flush \/ Clear \/ SaveFinish
    \/ Shutdown \/ Unlink2 \/ Unlink1
    \/ Crash
    \/ \E n \in Lists : ReplayRecord(n) \/ ReplayFlush(n) \/ ReplayEnd(n)
    \/ Open

Spec == Init /\ [][Next]_vars

----------------------------------------------------------------------------
(***************************************************************************)
(* Power loss, with binlog_fsync = 1.  After each record the logger calls  *)
(* FileWriterFD::flush, which hands buffered bytes to write(2), and there  *)
(* is no fsync(2): the end of a log may still be in the page cache only.   *)
(***************************************************************************)
PowerLoss ==
    /\ pc = "up"
    /\ \E n, m \in 0..(MaxTime - StartTime) :
         log' = [l \in Lists |->
                   LET kept == IF l = 1 THEN n ELSE m
                   IN  IF kept < Len(log[l]) THEN SubSeq(log[l], 1, kept)
                                             ELSE log[l]]
    /\ list' = [l \in Lists |-> EmptyList]
    /\ saving' = FALSE
    /\ pc' = "replay1"
    /\ pos' = 0
    /\ UNCHANGED <<now, act, disk, latest>>

PowerSpec == Init /\ [][Next \/ PowerLoss]_vars

----------------------------------------------------------------------------
(* Properties. *)

(* The variables have the types their declarations say.                     *)
TypeOK ==
    /\ now \in Nat
    /\ act \in Lists
    /\ list \in [Lists -> List]
    /\ log \in [Lists -> Seq(Entry)]
    /\ saving \in BOOLEAN
    /\ disk \subseteq List
    /\ pc \in {"up", "clear", "unlink2", "unlink1",
               "replay1", "replay2", "open"}
    /\ pos \in Nat
    /\ latest \in List

(* A tombstone and no pair at all look the same to a client.                *)
ValOf(p) == IF p = NoPair THEN NoVal ELSE p.val

(* The pairs of key k in a log, and on file at all.                         *)
InLog(l, k) == {log[l][n].pair : n \in {m \in DOMAIN log[l] : log[l][m].key = k}}

OnFile(k) == InTables(k) \cup InLog(1, k) \cup InLog(2, k)

(* Of the pairs S, p is the one stored last.                                *)
Newest(S, p) == p \in S /\ \A q \in S : q.created <= p.created

(***************************************************************************)
(* Whatever step the process dies after, of the pairs of a key in tables   *)
(* and logs the newest is the one stored last, a deletion too: no log is   *)
(* truncated before its table is finished (BinLogList, checkBinLogFile).   *)
(***************************************************************************)
Durable ==
    \A k \in Keys :
        IF OnFile(k) = {} THEN ValOf(latest[k]) = NoVal
        ELSE \E p \in OnFile(k) :
                p.val = ValOf(latest[k]) /\ Newest(OnFile(k), p)

(* No log has two records of key k.                                         *)
LoggedOnce(k) ==
    \A l \in Lists : \A m, n \in DOMAIN log[l] :
        log[l][m].key = k /\ log[l][n].key = k => m = n

KeyRecovered(k) == ValOf(TablesGetPair(k)) = ValOf(latest[k])

(***************************************************************************)
(* A key that was stored at most once in each list is recovered, although  *)
(* the logs are replayed in a fixed order, next to tables that are newer   *)
(* or older, and again after a crash during the replay (replayBinlogFile). *)
(***************************************************************************)
LoggedOnceRecovered ==
    pc = "open" => \A k \in Keys : LoggedOnce(k) => KeyRecovered(k)

(***************************************************************************)
(* "In case of power loss or system crash, memtable can re recovered from  *)
(* binlog" (README.md:52): before clients are served again, every key has  *)
(* the value stored last.                                                  *)
(***************************************************************************)
Recovered == pc = "open" => \A k \in Keys : KeyRecovered(k)

(***************************************************************************)
(* "fsync() binlog - none=0, yes=1" (db_net_options.h:139): with the       *)
(* option set, what was stored before the power failed is on the disk.     *)
(***************************************************************************)
FsyncedDurable == pc = "replay1" => Durable
----------------------------------------------------------------------------
(* The inductive invariant behind Durable and LoggedOnceRecovered. *)

Serving == pc \in {"up", "clear"}

(* What lives when: the lists while serving, the list of the replay, pos.   *)
ControlInv ==
    /\ ~Serving => ~saving
    /\ pc = "unlink1" => log[2] = <<>>
    /\ pc \notin {"replay1", "replay2"} => pos = 0
    /\ \A l \in Lists : Serving \/ Replaying(l) \/ list[l] = EmptyList
    /\ \A l \in Lists : Replaying(l) => pos <= Len(log[l])

(* No two pairs of a key were made at one time, and none in the future.     *)
TimesInv ==
    \A k \in Keys : \A p, q \in OnFile(k) :
        p.created <= now /\ (p.created = q.created => p = q)

(* A list has the pair its log ends with; a pair that is missing there was  *)
(* never stored or really erased.                                           *)
MirrorInv ==
    Serving => \A l \in Lists, k \in Keys :
        IF list[l][k] # NoPair THEN Newest(InLog(l, k), list[l][k])
        ELSE InLog(l, k) # {} =>
               \E t \in InLog(l, k) : t.val = NoVal /\ Newest(InLog(l, k), t)

(* Nothing older than a pair that was really erased is anywhere else.       *)
ErasedInv ==
    Serving => \A l \in Lists, k \in Keys : list[l][k] = NoPair =>
        \A t \in InLog(l, k) : Newest(InLog(l, k), t) =>
            \A q \in InTables(k) \cup ({list[3 - l][k]} \ {NoPair}) :
                t.created < q.created

(* A list that may be cleared is empty or in a table.                       *)
SavedInv ==
    /\ pc = "clear" => list[act] \in disk \cup {EmptyList}
    /\ Serving /\ ~saving => list[other] \in disk \cup {EmptyList}

(* The newest record of k in log l is in a table, or a deletion of a pair   *)
(* that no table has.                                                       *)
Covered(l, k) ==
    InLog(l, k) # {} =>
        \E p \in InLog(l, k) :
            /\ Newest(InLog(l, k), p)
            /\ \/ p \in InTables(k)
               \/ p.val = NoVal /\ \A q \in InTables(k) : p.created < q.created

UnlinkInv ==
    pc \in {"unlink2", "unlink1"} => \A l \in Lists, k \in Keys : Covered(l, k)

(* Record n of log l is the only one of its key there.                      *)
OnlyOne(l, n) == \A m \in DOMAIN log[l] : log[l][m].key = log[l][n].key => m = n

(* The replay of log l has the only record n of a key in a table or list.   *)
Kept(l, n) ==
    OnlyOne(l, n) =>
        log[l][n].pair \in InTables(log[l][n].key) \cup {list[l][log[l][n].key]}

ReplayInv ==
    /\ \A l \in Lists : Replaying(l) =>
         /\ \A k \in Keys : list[l][k] \in InLog(l, k) \cup {NoPair}
         /\ \A n \in 1 .. pos : Kept(l, n)
    /\ pc \in {"replay2", "open"} => \A n \in DOMAIN log[1] : Kept(1, n)
    /\ pc = "open" => \A n \in DOMAIN log[2] : Kept(2, n)

IInv ==
    /\ TypeOK /\ ControlInv /\ TimesInv /\ MirrorInv /\ ErasedInv
    /\ SavedInv /\ UnlinkInv /\ ReplayInv /\ Durable

----------------------------------------------------------------------------
(* For model checking: no step tells one key from another.                  *)
KeySymmetry == Permutations(Keys)
=============================================================================
