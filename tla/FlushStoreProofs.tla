------------------------- MODULE FlushStoreProofs -------------------------
(***************************************************************************)
(* Proofs about FlushStore, for every set of keys and values, every size   *)
(* of pairs and arena and every bound on the clock.                        *)
(***************************************************************************)
EXTENDS FlushStore, TLAPS

----------------------------------------------------------------------------
(* The operators on pairs and lists. *)

(* PairFactory makes pairs whose value is the one of the request.           *)
LEMMA PairOfType ==
    ASSUME NEW v \in Vals \cup {Missing}, NEW t \in Nat
    PROVE  /\ PairOf(v, t) \in Pair
           /\ PairOf(v, t) # NoPair
           /\ PairOf(v, t).created = t
           /\ ValOf(PairOf(v, t)) = v
BY NoneAssumption, SizesAssumption DEF PairOf, Pair, ValOf

(* What a list stores is a pair with the time and the value of the request. *)
LEMMA StoredType ==
    ASSUME NEW old \in Pair \cup {NoPair}, NEW p \in Pair
    PROVE  /\ Stored(old, p) \in Pair
           /\ Stored(old, p) # NoPair
           /\ Stored(old, p).created = p.created
           /\ ValOf(Stored(old, p)) = ValOf(p)
BY NoneAssumption DEF Stored, UpdatesInPlace, Pair, ValOf

(* An insert allocates a natural number of bytes.                           *)
LEMMA AllocatesType ==
    ASSUME NEW old \in Pair \cup {NoPair}, NEW p \in Pair
    PROVE  Allocates(old, p) \in Nat
BY DEF Allocates, Pair

----------------------------------------------------------------------------
(* The type invariant. *)

(* An empty store is well typed and serves no request.                      *)
LEMMA InitType == Init => TypeOK /\ ControlInv
BY DEF Init, TypeOK, ControlInv, List, EmptyList

(* insertF keeps the types and leaves a pair in the buffer only to flush.   *)
LEMMA InsertFType ==
    ASSUME TypeOK, ControlInv, pc = "exec",
           NEW p \in Pair, p # NoPair, ValOf(p) = req.val, InsertF(p)
    PROVE  TypeOK' /\ ControlInv'
<1>1. req \in Requests /\ req.key \in Keys /\ buffer = NoPair
  BY DEF TypeOK, ControlInv, Requests
<1>2. /\ Stored(mem1[req.key], p) \in Pair
      /\ Allocates(mem1[req.key], p) \in Nat
  BY <1>1, StoredType, AllocatesType DEF TypeOK, List
<1>3. p.created \in Nat
  BY DEF Pair
<1>4. TypeOK'
  BY <1>1, <1>2, <1>3
  DEF TypeOK, InsertF, MemInsert, Done, List, threadVars, diskVars
<1>5. ControlInv'
  BY <1>1 DEF ControlInv, TypeOK, InsertF, Done, ValOf
<1> QED
  BY <1>4, <1>5

(* No step of either thread breaks the types or the main thread's control.  *)
LEMMA NextType == TypeOK /\ ControlInv /\ [Next]_vars => TypeOK' /\ ControlInv'
<1> SUFFICES ASSUME TypeOK, ControlInv, [Next]_vars PROVE TypeOK' /\ ControlInv'
  OBVIOUS
<1> USE DEF TypeOK, ControlInv, ValOf, memVars, threadVars, diskVars
<1>0. pc = "exec" => req \in Requests /\ req.key \in Keys /\ req.val \in Vals \cup {Missing}
  BY DEF Requests
<1>1. ASSUME NEW r \in Requests, Request(r) PROVE TypeOK' /\ ControlInv'
  BY <1>1, NoneAssumption DEF Request
<1>2. CASE Set
  <2>1. PICK t \in {now, now + 1} : InsertF(PairOf(req.val, t))
    BY <1>2 DEF Set
  <2>2. /\ pc = "exec" /\ PairOf(req.val, t) \in Pair
        /\ PairOf(req.val, t) # NoPair /\ ValOf(PairOf(req.val, t)) = req.val
    BY <1>0, <1>2, PairOfType DEF Set
  <2> QED BY <2>1, <2>2, InsertFType
<1>3. CASE EraseTombstone
  <2>1. PICK t \in {now, now + 1} : InsertF(PairOf(Missing, t))
    BY <1>3 DEF EraseTombstone
  <2>2. /\ pc = "exec" /\ PairOf(Missing, t) \in Pair
        /\ PairOf(Missing, t) # NoPair /\ ValOf(PairOf(Missing, t)) = req.val
    BY <1>3, PairOfType DEF EraseTombstone
  <2> QED BY <2>1, <2>2, InsertFType
<1>4. CASE EraseReal
  BY <1>0, <1>4 DEF EraseReal, Done, List
<1>5. CASE EraseDirect
  <2>1. PICK t \in {now, now + 1} :
          /\ now' = t
          /\ \/ UNCHANGED <<mem1, used1, latest>>
             \/ MemInsert(PairOf(Missing, t))
    BY <1>5 DEF EraseDirect
  <2>2. pc = "exec" /\ PairOf(Missing, t) \in Pair
    BY <1>5, PairOfType DEF EraseDirect
  <2>3. /\ Stored(mem1[req.key], PairOf(Missing, t)) \in Pair
        /\ Allocates(mem1[req.key], PairOf(Missing, t)) \in Nat
    BY <1>0, <2>2, StoredType, AllocatesType DEF List
  <2> QED BY <1>0, <1>5, <2>1, <2>2, <2>3 DEF EraseDirect, MemInsert, Done, List
<1>6. CASE Save
  BY <1>6 DEF Save
<1>7. CASE Reload
  BY <1>7 DEF Reload
<1>8. CASE FlushSwap
  BY <1>8 DEF FlushSwap, List, EmptyList
<1>9. CASE FlushReload
  <2>1. EmptyList \in List
    BY DEF List, EmptyList
  <2>2. buffer # NoPair => /\ buffer \in Pair
                           /\ req.key \in Keys
                           /\ Allocates(NoPair, buffer) \in Nat
    BY AllocatesType DEF Requests
  <2>3. loaded' \subseteq List
    BY <1>9 DEF FlushReload
  <2>4. mem1' \in List /\ used1' \in Nat /\ latest' \in List
    BY <1>9, <2>1, <2>2 DEF FlushReload, List
  <2> QED BY <1>9, <2>3, <2>4 DEF FlushReload, Done
<1>10. CASE Restart
  BY <1>10 DEF Restart, List, EmptyList
<1>11. ASSUME NEW k \in Keys, SavePair(k) PROVE TypeOK' /\ ControlInv'
  BY <1>11 DEF SavePair, List
<1>12. CASE SaveFinish
  BY <1>12 DEF SaveFinish
<1>13. CASE UNCHANGED vars
  BY <1>13 DEF vars
<1> QED
  BY <1>1, <1>2, <1>3, <1>4, <1>5, <1>6, <1>7, <1>8, <1>9, <1>10, <1>11,
     <1>12, <1>13 DEF Next

(* The store keeps its types.                                               *)
THEOREM TypeCorrect == Spec => []TypeOK
<1>1. Init => TypeOK /\ ControlInv
  BY InitType
<1>2. TypeOK /\ ControlInv /\ [Next]_vars => TypeOK' /\ ControlInv'
  BY NextType
<1> QED
  BY <1>1, <1>2, PTL DEF Spec

----------------------------------------------------------------------------
(* Reads return the last write. *)

(* The parts of the invariant that speak of creation times and of lists.    *)
Core == ClockInv /\ GenerationInv /\ SaveInv /\ LatestInv

(* An empty store has no pair that could be out of order or lost.           *)
LEMMA InitCore == Init => Core
BY DEF Init, Core, ClockInv, GenerationInv, GenerationsDisjoint, SaveInv, LatestInv,
   Before, Older, Found, EmptyList, IsEmpty

(* A write puts a pair created now or later into mem1.                      *)
LEMMA WriteCore ==
    ASSUME IInv, pc = "exec", pc' = "ready", buffer' = buffer,
           NEW k \in Keys, NEW s \in Pair, s.created \in {now, now + 1}, now' = s.created,
           mem1' = [mem1 EXCEPT ![k] = s], latest' = [latest EXCEPT ![k] = s],
           UNCHANGED <<mem2, thread, todo, built, disk, loaded>>
    PROVE  Core'
<1> USE DEF IInv
<1>0. /\ now \in Nat /\ now' >= now /\ s # NoPair /\ buffer = NoPair
      /\ mem1 \in List /\ mem2 \in List /\ latest \in List
      /\ disk \subseteq List /\ loaded \subseteq disk
  BY NoneAssumption DEF TypeOK, ControlInv, SaveInv
<1>1. ClockInv'
  BY <1>0 DEF ClockInv, Before, List, Pair
<1>2. GenerationInv'
  BY <1>0 DEF ClockInv, Before, GenerationInv, GenerationsDisjoint, Older, List, Pair
<1>3. SaveInv'
  BY <1>0 DEF SaveInv, IsEmpty
<1>4. LatestInv'
  BY <1>0 DEF LatestInv, Found, ClockInv, Before, List, Pair
<1> QED BY <1>1, <1>2, <1>3, <1>4 DEF Core

(* insertF writes, refuses, or puts a pair aside that is newer than all.    *)
LEMMA InsertFCore ==
    ASSUME IInv, pc = "exec", NEW t \in {now, now + 1}, NEW p \in Pair,
           p.created = t, ValOf(p) = req.val, InsertF(p)
    PROVE  Core'
<1> USE DEF IInv
<1>0. /\ now \in Nat /\ p # NoPair /\ buffer = NoPair /\ req.key \in Keys
      /\ mem1 \in List /\ mem2 \in List /\ disk \subseteq List
      /\ now' = t /\ UNCHANGED <<mem2, thread, todo, built, disk, loaded>>
  BY NoneAssumption DEF TypeOK, ControlInv, Requests, InsertF, threadVars, diskVars
<1>1. CASE MemInsert(p) /\ Done /\ UNCHANGED buffer
  <2>1. /\ Stored(mem1[req.key], p) \in Pair
        /\ Stored(mem1[req.key], p).created = t
    BY <1>0, StoredType DEF List
  <2> QED BY <1>0, <1>1, <2>1, WriteCore DEF MemInsert, Done
<1>2. CASE UNCHANGED <<mem1, latest, buffer>> /\ Done
  <2>1. ClockInv'
    BY <1>0, <1>2 DEF ClockInv, Before, Done, List, Pair
  <2>2. GenerationInv' /\ SaveInv' /\ LatestInv'
    BY <1>0, <1>2 DEF GenerationInv, GenerationsDisjoint, SaveInv, LatestInv, Found,
       Older, IsEmpty, Done
  <2> QED BY <2>1, <2>2 DEF Core
<1>3. CASE /\ ~IsEmpty(mem1) /\ p.created > now /\ buffer' = p /\ pc' = "join"
           /\ UNCHANGED <<mem1, latest, req>>
  <2>1. ClockInv'
    BY <1>0, <1>3 DEF ClockInv, Before, List, Pair
  <2>2. GenerationInv' /\ SaveInv' /\ LatestInv'
    BY <1>0, <1>3 DEF GenerationInv, GenerationsDisjoint, SaveInv, LatestInv, Found,
       Older, IsEmpty
  <2> QED BY <2>1, <2>2 DEF Core
<1> QED BY <1>1, <1>2, <1>3 DEF InsertF

(* The real erase happens only where no other copy of the key can exist.    *)
LEMMA EraseRealCore == IInv /\ EraseReal => Core'
<1> SUFFICES ASSUME IInv, EraseReal PROVE Core'
  OBVIOUS
<1> USE DEF IInv, EraseReal, Done, threadVars, diskVars
<1>0. req.key \in Keys /\ mem1 \in List /\ latest \in List
  BY DEF TypeOK, ControlInv, Requests
<1>1. ClockInv' /\ GenerationInv' /\ SaveInv'
  BY <1>0 DEF ClockInv, GenerationInv, GenerationsDisjoint, SaveInv, Before, Older,
     IsEmpty, List
<1>2. LatestInv'
  BY <1>0 DEF LatestInv, Found, IsEmpty, List
<1> QED BY <1>1, <1>2 DEF Core

(* A tombstone put into list1_ itself is newer than every other pair.       *)
LEMMA EraseDirectCore == IInv /\ EraseDirect => Core'
<1> SUFFICES ASSUME IInv, EraseDirect PROVE Core'
  OBVIOUS
<1> USE DEF IInv
<1>0. /\ pc = "exec" /\ req.key \in Keys /\ now \in Nat /\ Done
      /\ mem1 \in List /\ mem2 \in List /\ disk \subseteq List
      /\ UNCHANGED <<mem2, buffer, thread, todo, built, disk, loaded>>
  BY DEF TypeOK, ControlInv, Requests, EraseDirect, threadVars, diskVars
<1>1. PICK t \in {now, now + 1} :
        /\ now' = t
        /\ \/ UNCHANGED <<mem1, used1, latest>>
           \/ MemInsert(PairOf(Missing, t))
  BY DEF EraseDirect
<1>2. CASE MemInsert(PairOf(Missing, t))
  <2>1. /\ Stored(mem1[req.key], PairOf(Missing, t)) \in Pair
        /\ Stored(mem1[req.key], PairOf(Missing, t)).created = t
    <3>1. PairOf(Missing, t) \in Pair /\ PairOf(Missing, t).created = t
      BY <1>0, <1>1, PairOfType
    <3>2. mem1[req.key] \in Pair \cup {NoPair}
      BY <1>0 DEF List
    <3> QED BY <3>1, <3>2, StoredType
  <2> QED BY <1>0, <1>1, <1>2, <2>1, WriteCore DEF MemInsert, Done
<1>3. CASE UNCHANGED <<mem1, latest>>
  <2>1. ClockInv'
    BY <1>0, <1>1, <1>3 DEF ClockInv, Before, Done, List, Pair, ControlInv
  <2>2. GenerationInv' /\ SaveInv' /\ LatestInv'
    BY <1>0, <1>3 DEF GenerationInv, GenerationsDisjoint, SaveInv, LatestInv, Found,
       Older, IsEmpty, Done
  <2> QED BY <2>1, <2>2 DEF Core
<1> QED BY <1>1, <1>2, <1>3

(* Loading every finished table adds only what mem2 holds already.          *)
LEMMA ReloadCore == IInv /\ Reload => Core'
<1> SUFFICES ASSUME IInv, Reload PROVE Core'
  OBVIOUS
<1> USE DEF IInv, Reload, memVars, threadVars
<1>1. ClockInv' /\ GenerationInv' /\ SaveInv'
  BY DEF ClockInv, GenerationInv, GenerationsDisjoint, SaveInv, Before, Older, IsEmpty
<1>2. LatestInv'
  <2>1. \A k \in Keys : Found(k)' = Found(k)
    BY DEF Found, SaveInv
  <2> QED BY <2>1 DEF LatestInv
<1> QED BY <1>1, <1>2 DEF Core

(* Swapping the lists makes mem2 the youngest generation.                   *)
LEMMA FlushSwapCore == IInv /\ FlushSwap => Core'
<1> SUFFICES ASSUME IInv, FlushSwap PROVE Core'
  OBVIOUS
<1> USE DEF IInv, FlushSwap, diskVars
<1>0. /\ now \in Nat /\ mem1 \in List /\ mem2 \in List /\ disk \subseteq List
      /\ buffer \in Pair \cup {NoPair}
  BY DEF TypeOK
<1>1. ClockInv'
  BY <1>0 DEF ClockInv, Before, List, Pair
<1>2. GenerationInv'
  BY <1>0 DEF GenerationInv, GenerationsDisjoint, Older
<1>3. SaveInv'
  BY <1>0 DEF SaveInv, IsEmpty, EmptyList, List
<1>4. LatestInv'
  <2>1. \A k \in Keys : Found(k)' = Found(k)
    BY DEF Found
  <2> QED BY <2>1 DEF LatestInv
<1> QED BY <1>1, <1>2, <1>3, <1>4 DEF Core

(***************************************************************************)
(* flush clears the list that was saved before.  Its table is on disk and  *)
(* is loaded by the same step, so every pair can still be found.           *)
(***************************************************************************)
LEMMA FlushReloadCore == IInv /\ FlushReload => Core'
<1> SUFFICES ASSUME IInv, FlushReload PROVE Core'
  OBVIOUS
<1> USE DEF IInv
<1>0. /\ now \in Nat /\ mem1 \in List /\ mem2 \in List /\ disk \subseteq List
      /\ latest \in List /\ buffer \in Pair \cup {NoPair}
      /\ pc = "reload" /\ pc' = "ready" /\ buffer' = NoPair
      /\ loaded \subseteq disk
      /\ UNCHANGED <<now, mem2, thread, todo, built, disk>>
  BY DEF TypeOK, SaveInv, FlushReload, Done, threadVars
<1>1. loaded' = IF IsEmpty(mem1) THEN loaded ELSE disk
  BY DEF FlushReload
<1>2. buffer # NoPair => req.key \in Keys
  BY DEF TypeOK, ControlInv, Requests
<1>3. \/ mem1' = EmptyList /\ latest' = latest
      \/ /\ buffer # NoPair
         /\ mem1' = [EmptyList EXCEPT ![req.key] = buffer]
         /\ latest' = [latest EXCEPT ![req.key] = buffer]
  BY DEF FlushReload
<1>4. \A k \in Keys :
        \/ mem1'[k] = NoPair /\ latest'[k] = latest[k]
        \/ buffer # NoPair /\ mem1'[k] = buffer /\ latest'[k] = buffer
  BY <1>0, <1>2, <1>3 DEF EmptyList, List
<1>5. ClockInv'
  BY <1>0, <1>4 DEF ClockInv, Before
<1>6. GenerationInv'
  <2>1. Older(mem2, mem1')
    BY <1>0, <1>4 DEF ClockInv, Before, Older
  <2>2. \A t \in disk : Older(t, mem1')
    BY <1>0, <1>4 DEF ClockInv, Before, Older
  <2> QED BY <1>0, <2>1, <2>2 DEF GenerationInv, GenerationsDisjoint, Older
<1>7. SaveInv'
  BY <1>0, <1>1, <1>4 DEF SaveInv, IsEmpty, List
<1>8. LatestInv'
  <2> SUFFICES ASSUME NEW k \in Keys
               PROVE  /\ latest'[k] # NoPair => latest'[k] \in Found(k)'
                      /\ \A p \in Found(k)' :
                            latest'[k] # NoPair /\ p.created <= latest'[k].created
    BY DEF LatestInv
  <2>1. \A p : p \in Found(k)' <=> p # NoPair /\ (p = mem1'[k] \/ p \in Found(k))
    <3>1. \A p : p \in Found(k) <=>
            p # NoPair /\ (p = mem1[k] \/ p = mem2[k] \/ \E t \in loaded : p = t[k])
      BY DEF Found
    <3>2. \A p : p \in Found(k)' <=>
            p # NoPair /\ (p = mem1'[k] \/ p = mem2[k] \/ \E t \in loaded' : p = t[k])
      BY <1>0 DEF Found
    <3>3. CASE IsEmpty(mem1)
      BY <1>1, <3>1, <3>2, <3>3 DEF IsEmpty
    <3>4. CASE ~IsEmpty(mem1)
      <4>1. mem1 \in disk /\ \A t \in disk \ loaded : t = mem1 \/ t = mem2
        BY <1>0, <3>4 DEF SaveInv
      <4> QED BY <1>0, <1>1, <3>1, <3>2, <3>4, <4>1
    <3> QED BY <3>3, <3>4
  <2>2. CASE mem1'[k] = NoPair /\ latest'[k] = latest[k]
    BY <2>1, <2>2 DEF LatestInv, Found
  <2>3. CASE buffer # NoPair /\ mem1'[k] = buffer /\ latest'[k] = buffer
    <3>1. \A p \in Found(k) : p.created <= buffer.created
      BY <1>0, <2>3 DEF Found, ClockInv, Before, List, Pair
    <3> QED BY <1>0, <2>1, <2>3, <3>1 DEF Pair
  <2> QED BY <1>4, <2>2, <2>3
<1> QED BY <1>5, <1>6, <1>7, <1>8 DEF Core

(* The destructor saves mem1; the next start loads every table.             *)
LEMMA RestartCore == IInv /\ Restart => Core'
<1> SUFFICES ASSUME IInv, Restart PROVE Core'
  OBVIOUS
<1> USE DEF IInv
<1>0. /\ now \in Nat /\ mem1 \in List /\ mem2 \in List /\ disk \subseteq List
      /\ pc = "ready" /\ pc' = pc /\ buffer = NoPair /\ buffer' = NoPair
      /\ thread = "idle" /\ thread' = thread /\ now' = now + 1
      /\ mem1' = EmptyList /\ mem2' = EmptyList
      /\ loaded' = disk' /\ latest' = latest
      /\ disk' = IF IsEmpty(mem1) THEN disk ELSE disk \cup {mem1}
  BY DEF TypeOK, ControlInv, Restart, threadVars
<1>1. \A k \in Keys : mem1'[k] = NoPair /\ mem2'[k] = NoPair
  BY <1>0 DEF EmptyList
<1>2. ClockInv'
  BY <1>0, <1>1 DEF ClockInv, Before, List, Pair
<1>3. GenerationInv'
  BY <1>0, <1>1 DEF GenerationInv, GenerationsDisjoint, Older
<1>4. SaveInv'
  BY <1>0, <1>1 DEF SaveInv, IsEmpty
<1>5. LatestInv'
  <2>1. \A k \in Keys : Found(k)' = Found(k)
    <3> SUFFICES ASSUME NEW k \in Keys PROVE Found(k)' = Found(k)
      OBVIOUS
    <3>1. /\ IsEmpty(mem2) \/ mem2 \in disk
          /\ loaded \subseteq disk
          /\ \A t \in disk \ loaded : t = mem2
      BY <1>0 DEF SaveInv
    <3>2. Found(k)' = {t[k] : t \in disk'} \ {NoPair}
      BY <1>0, <1>1 DEF Found
    <3>3. CASE IsEmpty(mem1)
      BY <1>0, <3>1, <3>2, <3>3 DEF Found, IsEmpty
    <3>4. CASE ~IsEmpty(mem1)
      BY <1>0, <3>1, <3>2, <3>4 DEF Found, IsEmpty
    <3> QED BY <3>3, <3>4
  <2> QED BY <1>0, <2>1 DEF LatestInv
<1> QED BY <1>2, <1>3, <1>4, <1>5 DEF Core

(* Copying one more pair of mem2 changes nothing a read can find.           *)
LEMMA SavePairCore ==
    ASSUME IInv, NEW k \in Keys, SavePair(k)
    PROVE  Core'
<1> USE DEF IInv, SavePair, memVars, diskVars
<1>1. ClockInv' /\ GenerationInv' /\ LatestInv'
  BY DEF ClockInv, GenerationInv, GenerationsDisjoint, LatestInv, Before, Older, Found
<1>2. SaveInv'
  BY DEF SaveInv, TypeOK, IsEmpty, List
<1> QED BY <1>1, <1>2 DEF Core

(* The finished table is exactly the swapped out list.                      *)
LEMMA SaveFinishCore == IInv /\ SaveFinish => Core'
<1> SUFFICES ASSUME IInv, SaveFinish PROVE Core'
  OBVIOUS
<1> USE DEF IInv, SaveFinish, memVars
<1>1. built = mem2
  BY DEF SaveInv, TypeOK, List
<1>2. ClockInv'
  BY <1>1 DEF ClockInv, Before
<1>3. GenerationInv'
  <2>1. pc # "reload" => Older(mem2, mem1)
    BY DEF GenerationInv
  <2> QED BY <1>1, <2>1 DEF GenerationInv, GenerationsDisjoint, Older
<1>4. SaveInv'
  BY <1>1 DEF SaveInv, IsEmpty
<1>5. LatestInv'
  BY DEF LatestInv, Found
<1> QED BY <1>2, <1>3, <1>4, <1>5 DEF Core

(* Every step of every thread keeps the whole invariant.                    *)
LEMMA NextInv == IInv /\ [Next]_vars => IInv'
<1> SUFFICES ASSUME IInv, [Next]_vars PROVE IInv'
  OBVIOUS
<1>0. TypeOK' /\ ControlInv'
  BY NextType DEF IInv
<1>t. /\ now \in Nat
      /\ pc = "exec" => req.val \in Vals \cup {Missing}
  BY DEF IInv, TypeOK, ControlInv, Requests
<1> SUFFICES Core'
  BY <1>0 DEF Core, IInv
<1>1. ASSUME NEW r \in Requests, Request(r) PROVE Core'
  BY <1>1 DEF Request, IInv, Core, ClockInv, GenerationInv, GenerationsDisjoint, SaveInv,
     LatestInv, Found, Before, Older, IsEmpty, memVars, threadVars, diskVars
<1>2. CASE Set
  <2>1. PICK t \in {now, now + 1} : InsertF(PairOf(req.val, t))
    BY <1>2 DEF Set
  <2>2. /\ pc = "exec"
        /\ PairOf(req.val, t) \in Pair /\ PairOf(req.val, t).created = t
        /\ ValOf(PairOf(req.val, t)) = req.val
    BY <1>t, <1>2, <2>1, PairOfType DEF Set
  <2> QED BY <2>1, <2>2, InsertFCore
<1>3. CASE EraseTombstone
  <2>1. PICK t \in {now, now + 1} : InsertF(PairOf(Missing, t))
    BY <1>3 DEF EraseTombstone
  <2>2. /\ pc = "exec" /\ req.val = Missing
        /\ PairOf(Missing, t) \in Pair /\ PairOf(Missing, t).created = t
        /\ ValOf(PairOf(Missing, t)) = Missing
    BY <1>t, <1>3, <2>1, PairOfType DEF EraseTombstone
  <2> QED BY <2>1, <2>2, InsertFCore
<1>4. CASE Save
  BY <1>4 DEF Save, IInv, Core, ControlInv, ClockInv, GenerationInv, GenerationsDisjoint, SaveInv,
     LatestInv, Found, Before, Older, IsEmpty, memVars, threadVars, diskVars
<1>5. CASE UNCHANGED vars
  BY <1>5 DEF vars, IInv, Core, ClockInv, GenerationInv, GenerationsDisjoint, SaveInv,
     LatestInv, Found, Before, Older, IsEmpty, memVars, threadVars, diskVars
<1> QED
  BY <1>1, <1>2, <1>3, <1>4, <1>5, EraseRealCore, EraseDirectCore, ReloadCore,
     FlushSwapCore, FlushReloadCore, RestartCore, SavePairCore, SaveFinishCore DEF Next

(* The inductive invariant holds.                                           *)
THEOREM InvariantHolds == Spec => []IInv
<1>1. Init => IInv
  BY InitType, InitCore DEF IInv, Core
<1>2. IInv /\ [Next]_vars => IInv'
  BY NextInv
<1> QED
  BY <1>1, <1>2, PTL DEF Spec

(***************************************************************************)
(* When the invariant holds, the newest pair a read finds is the last      *)
(* write: two pairs of one key with equal times are the same pair.         *)
(***************************************************************************)
LEMMA NewestIsLatest ==
    ASSUME IInv, NEW k \in Keys
    PROVE  getPair(k) = latest[k]
<1> USE DEF IInv
<1>0. /\ mem1[k] \in Pair \cup {NoPair} /\ mem2[k] \in Pair \cup {NoPair}
      /\ latest[k] \in Pair \cup {NoPair}
      /\ \A t \in disk : t[k] \in Pair \cup {NoPair}
      /\ loaded \subseteq disk
  BY DEF TypeOK, List, SaveInv
<1>1. \A p : p \in Found(k) <=>
        p # NoPair /\ (p = mem1[k] \/ p = mem2[k] \/ \E t \in loaded : p = t[k])
  BY DEF Found
<1>2. \A p \in Found(k) : p \in Pair /\ p.created \in Nat
  BY <1>0, <1>1 DEF Pair
<1>3. \A p, q \in Found(k) : p.created = q.created => p = q
  <2>1. mem1[k] # NoPair /\ mem2[k] # NoPair => mem1[k].created # mem2[k].created
    BY <1>0 DEF GenerationInv, Older, Pair
  <2>2. \A t \in loaded : mem2[k] # NoPair /\ t[k] # NoPair
          /\ t[k].created = mem2[k].created => t[k] = mem2[k]
    BY <1>0 DEF GenerationInv, Older, Pair
  <2>3. \A t \in loaded : mem1[k] # NoPair /\ t[k] # NoPair
          /\ t[k].created = mem1[k].created => t[k] = mem1[k]
    BY <1>0, <2>1 DEF GenerationInv, Older, Pair
  <2>4. \A t, u \in loaded : t[k] # NoPair /\ u[k] # NoPair
          /\ t[k].created = u[k].created => t[k] = u[k]
    BY <1>0 DEF GenerationInv, GenerationsDisjoint, Older, Pair
  <2> QED BY <1>1, <2>1, <2>2, <2>3, <2>4
<1>4. \A p \in Found(k) : /\ latest[k] # NoPair /\ latest[k] \in Found(k)
                          /\ p.created <= latest[k].created
  BY DEF LatestInv
<1>5. latest[k] # NoPair => latest[k] \in Found(k)
  BY DEF LatestInv
<1> DEFINE best == getNewestPair(mem2[k], mem1[k])
           found == ({t[k] : t \in loaded} \cup {best}) \ {NoPair}
           Newest(p) == \A q \in found : q.created <= p.created
<1>6. /\ best \in Found(k) \cup {NoPair}
      /\ mem1[k] # NoPair => best # NoPair /\ mem1[k].created <= best.created
      /\ mem2[k] # NoPair => best # NoPair /\ mem2[k].created <= best.created
  BY <1>0, <1>1, <1>2 DEF getNewestPair, Pair
<1>7. found \subseteq Found(k)
  BY <1>1, <1>6
<1>8. latest[k] # NoPair => latest[k] \in found
  <2>1. latest[k] # NoPair /\ (latest[k] = mem1[k] \/ latest[k] = mem2[k])
          => best = latest[k]
    BY <1>0, <1>2, <1>3, <1>4, <1>6 DEF Pair
  <2> QED BY <1>1, <1>5, <2>1
<1>9. latest[k] # NoPair => Newest(latest[k])
  BY <1>4, <1>7
<1>10. \A p \in found : Newest(p) => p = latest[k]
  BY <1>2, <1>3, <1>4, <1>7, <1>8, <1>9
<1>11. found = {} => latest[k] = NoPair
  BY <1>8
<1>12. found # {} => latest[k] \in found
  BY <1>4, <1>7, <1>8
<1>13. getPair(k) = IF found = {} THEN NoPair
                   ELSE IF best # NoPair /\ Newest(best) THEN best
                   ELSE CHOOSE p \in found : Newest(p)
  BY Zenon DEF getPair, TablesGetPair
<1>14. best # NoPair => best \in found
  OBVIOUS
<1> HIDE DEF best, found
<1>15. found # {} => (CHOOSE p \in found : Newest(p)) = latest[k]
  <2>1. found # {} => \E p \in found : Newest(p)
    BY <1>4, <1>7, <1>9, <1>12
  <2> QED BY <1>10, <2>1
<1> QED BY <1>10, <1>11, <1>13, <1>14, <1>15

(* Every read, at every instant, returns the last write of its key.         *)
THEOREM ReadsLatestHolds == Spec => []ReadsLatest
<1>1. IInv => ReadsLatest
  BY NewestIsLatest DEF ReadsLatest
<1> QED
  BY <1>1, InvariantHolds, PTL

(* A table that is not loaded yet is still in memory.                       *)
THEOREM UnloadedInMemoryHolds == Spec => []UnloadedInMemory
<1>1. IInv => UnloadedInMemory
  BY DEF IInv, SaveInv, UnloadedInMemory
<1> QED
  BY <1>1, InvariantHolds, PTL

(* Creation times of different tables do not overlap.                       *)
THEOREM GenerationsDisjointHolds == Spec => []GenerationsDisjoint
<1>1. IInv => GenerationsDisjoint
  BY DEF IInv, GenerationInv
<1> QED
  BY <1>1, InvariantHolds, PTL

(* The list being saved does not change under the save thread.              *)
THEOREM SavedListFrozenHolds == Spec => SavedListFrozen
<1>1. [Next]_vars => [thread = "running" => mem2' = mem2]_vars
  BY DEF Next, Request, Set, EraseTombstone, EraseReal, EraseDirect, InsertF, Save,
     Reload, FlushSwap, FlushReload, Restart, SavePair, SaveFinish, vars, memVars
<1> QED
  BY <1>1, PTL DEF Spec, SavedListFrozen

----------------------------------------------------------------------------
(* The store implements the map. *)

(* What a client sees, in terms of the history variable.                    *)
Written == [k \in Keys |-> ValOf(latest[k])]

(* A client sees the map of the last writes.                                *)
LEMMA ViewIsWritten == ReadsLatest => View = Written
BY Zenon DEF ReadsLatest, View, Written

(* MemInsert writes the request's value for the request's key.              *)
LEMMA MemInsertApplies ==
    ASSUME IInv, pc = "exec", NEW p \in Pair, ValOf(p) = req.val, MemInsert(p)
    PROVE  Written' = [Written EXCEPT ![req.key] = req.val]
<1>1. req.key \in Keys
  BY DEF IInv, TypeOK, ControlInv, Requests
<1>2. ValOf(Stored(mem1[req.key], p)) = req.val
  BY <1>1, StoredType DEF IInv, TypeOK, List
<1> QED
  BY <1>1, <1>2 DEF MemInsert, Written, IInv, TypeOK, List

(* insertF applies the request, refuses it, or puts it off.                 *)
LEMMA InsertFApplies ==
    ASSUME IInv, pc = "exec", NEW p \in Pair, ValOf(p) = req.val, InsertF(p)
    PROVE  \/ req' = NoReq /\ Written' = [Written EXCEPT ![req.key] = req.val]
           \/ req' = NoReq /\ Written' = Written
           \/ req' = req /\ Written' = Written
<1>1. \/ MemInsert(p) /\ req' = NoReq
      \/ UNCHANGED latest /\ req' = NoReq
      \/ UNCHANGED <<latest, req>>
  BY DEF InsertF, Done
<1> QED
  BY <1>1, MemInsertApplies DEF Written

(***************************************************************************)
(* What a step does to the last writes: it accepts a request, applies the  *)
(* one being executed, refuses it, or changes nothing a client can see.    *)
(***************************************************************************)
LEMMA StepOnWritten ==
    ASSUME IInv, [Next]_vars
    PROVE  \/ req = NoReq /\ req' \in Requests /\ Written' = Written
           \/ /\ req # NoReq /\ req' = NoReq
              /\ \/ Written' = [Written EXCEPT ![req.key] = req.val]
                 \/ Written' = Written
           \/ req' = req /\ Written' = Written
<1>0. pc = "exec" => /\ req # NoReq /\ req \in Requests
                     /\ req.key \in Keys /\ req.val \in Vals \cup {Missing}
  BY DEF IInv, TypeOK, ControlInv, Requests
<1>t. now \in Nat
  BY DEF IInv, TypeOK
<1>1. ASSUME NEW r \in Requests, Request(r)
      PROVE  req = NoReq /\ req' \in Requests /\ Written' = Written
  BY <1>1 DEF Request, Written, IInv, ControlInv
<1>2. CASE Set
  <2>1. PICK t \in {now, now + 1} : InsertF(PairOf(req.val, t))
    BY <1>2 DEF Set
  <2>2. /\ pc = "exec" /\ PairOf(req.val, t) \in Pair
        /\ ValOf(PairOf(req.val, t)) = req.val
    BY <1>0, <1>t, <1>2, PairOfType DEF Set
  <2> QED BY <1>0, <2>1, <2>2, InsertFApplies
<1>3. CASE EraseTombstone
  <2>1. PICK t \in {now, now + 1} : InsertF(PairOf(Missing, t))
    BY <1>3 DEF EraseTombstone
  <2>2. /\ pc = "exec" /\ PairOf(Missing, t) \in Pair
        /\ ValOf(PairOf(Missing, t)) = req.val
    BY <1>t, <1>3, PairOfType DEF EraseTombstone
  <2> QED BY <1>0, <2>1, <2>2, InsertFApplies
<1>4. CASE EraseReal
  BY <1>0, <1>4 DEF EraseReal, Done, Written, ValOf, IInv, TypeOK, List
<1>5. CASE EraseDirect
  <2>1. PICK t \in {now, now + 1} :
          UNCHANGED latest \/ MemInsert(PairOf(Missing, t))
    BY <1>5 DEF EraseDirect
  <2>2. /\ pc = "exec" /\ req' = NoReq /\ PairOf(Missing, t) \in Pair
        /\ ValOf(PairOf(Missing, t)) = req.val
    BY <1>t, <1>5, PairOfType DEF EraseDirect, Done
  <2> QED BY <1>0, <2>1, <2>2, MemInsertApplies DEF Written
<1>6. CASE FlushReload
  <2>1. CASE UNCHANGED latest
    BY <1>6, <2>1 DEF FlushReload, Done, Written, IInv, ControlInv
  <2>2. CASE /\ buffer # NoPair
             /\ latest' = [latest EXCEPT ![req.key] = buffer]
    <3>1. /\ req # NoReq /\ req.key \in Keys /\ ValOf(buffer) = req.val
      BY <1>6, <2>2 DEF FlushReload, IInv, TypeOK, ControlInv, Requests
    <3> QED
      BY <1>6, <2>2, <3>1 DEF FlushReload, Done, Written, IInv, TypeOK, List
  <2> QED BY <1>6, <2>1, <2>2 DEF FlushReload
<1>7. ASSUME \/ Save \/ Reload \/ FlushSwap \/ Restart \/ SaveFinish
             \/ \E k \in Keys : SavePair(k)
             \/ UNCHANGED vars
      PROVE  req' = req /\ Written' = Written
  BY <1>7 DEF Save, Reload, FlushSwap, Restart, SavePair, SaveFinish, vars, Written
<1> QED
  BY <1>1, <1>2, <1>3, <1>4, <1>5, <1>6, <1>7 DEF Next

(***************************************************************************)
(* The store is the map of KVStore: every request is applied at one        *)
(* instant or refused, and no flush, save, reload or restart is visible.   *)
(***************************************************************************)
THEOREM StoreImplementsMap == Spec => RefinesKVStore
<1>1. Init /\ ReadsLatest => KV!Init
  BY ViewIsWritten DEF Init, KV!Init, Written, ValOf, EmptyList
<1>2. ReadsLatest => View = Written
  BY ViewIsWritten
<1>3. ReadsLatest' => View' = Written'
  BY Zenon DEF ReadsLatest, View, Written
<1>4. IInv /\ ReadsLatest /\ ReadsLatest' /\ [Next]_vars => [KV!Next]_(KV!vars)
  <2> SUFFICES ASSUME IInv, View = Written, View' = Written', [Next]_vars
               PROVE  [KV!Next]_(KV!vars)
    BY <1>2, <1>3
  <2>1. KV!Requests = Requests
    BY DEF KV!Requests, Requests
  <2> QED
    BY <2>1, StepOnWritten
    DEF KV!Next, KV!Request, KV!Apply, KV!Refuse, KV!vars
<1> QED
  BY <1>1, <1>4, InvariantHolds, ReadsLatestHolds, PTL
  DEF Spec, RefinesKVStore, KV!Spec
=============================================================================
