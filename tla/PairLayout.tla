----------------------------- MODULE PairLayout -----------------------------
(***************************************************************************)
(* A pair in memory (pair.h): its fields, then the key and the value, each   *)
(* with a terminator behind it, in a block of just the bytes it needs.  A    *)
(* list lets a factory rewrite the block of the pair it has, if the new pair *)
(* is not longer, and else creates the pair in a new block; the commands     *)
(* that change a value in place (pair_vfactory.h) may read it from the block *)
(* that they write.                                                          *)
(***************************************************************************)
EXTENDS SmallContainers

CONSTANTS
  PairKeys, PairVals,  \* sequences of cells, the too long ones included
  Lifetimes,           \* 0, for ever, among them
  MAX_KEY_SIZE, MAX_VAL_SIZE,
  MaxPairNow           \* bound on the clock

ASSUME PairAssumption ==
  /\ {MAX_KEY_SIZE, MAX_VAL_SIZE, MaxPairNow} \subseteq Nat
  /\ 0 \in Lifetimes /\ Lifetimes \subseteq Nat

Terminator == 0
Unset      == -9       \* what was in the memory before
EXPIRES_TOMBSTONE == -1
TOMBSTONE  == <<>>

-----------------------------------------------------------------------------
(* The size of the buffer of a pair: sizeof(Pair) has room for the           *)
(* terminators.  The fields before the buffer are not counted.               *)
bytes_(keyLen, valLen) == 2 + keyLen + valLen

Block(bytes) ==
  [created |-> Unset, expires |-> Unset, keylen |-> Unset, vallen |-> Unset,
   buffer |-> [i \in 1 .. bytes |-> Unset], overrun |-> FALSE]

getKey(p)  == SubSeq(p.buffer, 1, p.keylen)
getVal(p)  == SubSeq(p.buffer, p.keylen + 2, p.keylen + 1 + p.vallen)
pairBytes(p)   == bytes_(p.keylen, p.vallen)
getBufferOverflowDetect(p) == p.buffer[p.keylen + 2 + p.vallen]

isKeyValid(key) == Len(key) \in 1 .. MAX_KEY_SIZE
isValValid(len) == len <= MAX_VAL_SIZE

isTombstone(p)  == p.expires = EXPIRES_TOMBSTONE \/ p.vallen = 0
isSystemPair(p) == p.expires = EXPIRES_TOMBSTONE /\ p.created = 0 /\ p.vallen = 0
isOK(p, now)    == ~ isTombstone(p) /\ ~ (p.expires # 0 /\ p.created + p.expires < now)

prepareCreateTime(created, now) == IF created = 0 THEN now ELSE created

memcpy(p, at, cells) ==
  [p EXCEPT !.buffer = [i \in DOMAIN @ |-> IF i - at \in DOMAIN cells THEN cells[i - at] ELSE @[i]],
            !.overrun = @ \/ at + Len(cells) > Len(p.buffer)]

-----------------------------------------------------------------------------
(* createInRawMemory: what is made and what is copied of the key and the     *)
(* value.  The lengths are masked, MAX_KEY_SIZE and MAX_VAL_SIZE are masks.  *)

Full    == {"CopyKey", "CopyVal", "MakeKey", "MakeVal"}
FullVal == {"CopyVal", "MakeVal"}
NoKeyNoVal == {}

createInRawMemory(p, make, key, val, size, expires, created) ==
  LET ofKey  == {"CopyKey", "MakeKey"} \cap make # {}
      ofVal  == {"CopyVal", "MakeVal"} \cap make # {}
      fields == [p EXCEPT !.created = created, !.expires = expires,
                          !.keylen = IF ofKey THEN Len(key) % (MAX_KEY_SIZE + 1) ELSE @,
                          !.vallen = IF ofVal THEN size % (MAX_VAL_SIZE + 1) ELSE @]
      keyIn  == IF "CopyKey" \in make THEN memcpy(fields, 0, key) ELSE fields
      keyEnd == IF ofKey THEN memcpy(keyIn, Len(key), <<Terminator>>) ELSE keyIn
      valIn  == IF "CopyVal" \in make THEN memcpy(keyEnd, Len(key) + 1, val) ELSE keyEnd
  IN  IF ofVal THEN memcpy(valIn, Len(key) + 1 + size, <<Terminator>>) ELSE valIn

cloneInRawMemory(p, src) ==
  memcpy([p EXCEPT !.created = src.created, !.expires = src.expires, !.keylen = src.keylen, !.vallen = src.vallen],
         0, SubSeq(src.buffer, 1, pairBytes(src)))

createSystemPairInRawMemory(p, key) ==
  memcpy([p EXCEPT !.created = 0, !.expires = EXPIRES_TOMBSTONE, !.keylen = Len(key) % (MAX_KEY_SIZE + 1), !.vallen = 0],
         0, key \o <<Terminator, Terminator>>)

makePairSystem(key) == createSystemPairInRawMemory(Block(bytes_(Len(key), 0)), key)

makePairTombstone(key, now) ==
  createInRawMemory(Block(bytes_(Len(key), 0)), Full, key, TOMBSTONE, 0, 0, now)

-----------------------------------------------------------------------------
(* PairFactory.  created is 0 for the time of the clock.                     *)

Normal(key, val, expires, created) ==
  [is |-> "normal", key |-> key, val |-> val, size |-> Len(val), expires |-> expires, created |-> created]
Expires(key, val, expires) == [Normal(key, val, expires, 0) EXCEPT !.is = "expires"]
Tombstone(key)             == [Normal(key, TOMBSTONE, 0, 0) EXCEPT !.is = "tombstone"]

(* A Clone answers the low half of its time for the time: low may be any.    *)
Clone(src, low) == [is |-> "clone", key |-> getKey(src), size |-> src.vallen, created |-> low, src |-> src]

(* IFactoryAction<copy_value, same_size>: puts is what action() writes, old  *)
(* tells that it was given the old pair.                                     *)
Action(copy_value, same_size, key, size, old, puts) ==
  [is |-> "action", copy_value |-> copy_value, same_size |-> same_size,
   key |-> key, size |-> size, created |-> 0, old |-> old, puts |-> puts]

ReserveFactory(key, size) == Action(TRUE, TRUE, key, size, FALSE, <<>>)

valid(f)   == f.is # "clone" => isKeyValid(f.key) /\ isValValid(f.size)
bytesOf(f) == bytes_(Len(f.key), f.size)

(* smart_memcpy                                                              *)
Resized(val, size) == [i \in 1 .. size |-> IF i <= Len(val) THEN val[i] ELSE 0]

copyPair_(f, p, old) ==
  IF ~ f.copy_value THEN p
  ELSE memcpy(p, p.keylen + 1, IF f.old THEN Resized(getVal(old), f.size) ELSE [i \in 1 .. f.size |-> 0])

action(f, p) == memcpy(p, p.keylen + 1, f.puts)

createHint(f, p, now) ==
  LET made(make) == createInRawMemory(p, make, f.key, f.val, f.size, f.expires, prepareCreateTime(f.created, now))
      sized(make) == createInRawMemory(p, make, f.key, <<>>, f.size, 0, now)
  IN  CASE f.is = "normal"    -> made(FullVal)
        [] f.is = "expires"   -> made(NoKeyNoVal)
        [] f.is = "tombstone" -> [made(NoKeyNoVal) EXCEPT !.expires = EXPIRES_TOMBSTONE]
        [] f.is = "clone"     -> cloneInRawMemory(p, f.src)
        [] f.is = "action" /\ f.same_size /\ isOK(p, now) /\ p.vallen = f.size -> action(f, sized(NoKeyNoVal))
        [] OTHER -> LET q == sized({"MakeVal"}) IN action(f, copyPair_(f, q, q))

create(f, old, now) ==
  LET p == Block(bytesOf(f))
  IN  CASE f.is = "clone"  -> cloneInRawMemory(p, f.src)
        [] f.is = "action" ->
             LET q == createInRawMemory(p, {"CopyKey", "MakeKey", "MakeVal"}, f.key, <<>>, f.size, 0, now)
             IN  action(f, copyPair_(f, q, old))
        [] OTHER -> createInRawMemory(p, Full, f.key, f.val, f.size, f.expires, prepareCreateTime(f.created, now))

(* canInsertHintAllocatorF; old_pair may be the pair that is rewritten.      *)
canInsertHint(p, mem, f) == mem /\ pairBytes(p) >= bytesOf(f)

isValidForReplace(created, old) == created = 0 \/ created >= old.created

(* insertF of a list that has the pair, or whose disk has it.                *)
Takes(b, f) == valid(f) /\ (b.mem => isValidForReplace(f.created, b.pair))

Inserted(b, f) ==
  CASE ~ Takes(b, f) -> b
    [] Takes(b, f) /\ canInsertHint(b.pair, b.mem, f)   -> [b EXCEPT !.pair = createHint(f, @, b.now)]
    [] Takes(b, f) /\ ~ canInsertHint(b.pair, b.mem, f) -> [b EXCEPT !.pair = create(f, @, b.now), !.mem = TRUE]

-----------------------------------------------------------------------------
(* One key, the pair that was last written for it, and what it says.         *)

NewPair(key) == [pair |-> makePairTombstone(key, 1), mem |-> FALSE, now |-> 1]
Said(key, val, expires, created) == [key |-> key, val |-> val, expires |-> expires, created |-> created]

Puts(f, says) == box' = Inserted(box, f) /\ plain' = IF Takes(box, f) THEN says ELSE plain

(* The value that an action works on.                                        *)
WorkedOn(f) ==
  LET kept == isOK(box.pair, box.now) /\ (f.old \/ (box.mem /\ f.same_size /\ Len(plain.val) = f.size))
  IN  IF kept THEN Resized(plain.val, f.size) ELSE [i \in 1 .. f.size |-> 0]

Acts(f) ==
  Puts(f, Said(plain.key, f.puts \o SubSeq(WorkedOn(f), Len(f.puts) + 1, f.size), 0, box.now))

PairNext ==
  LET key == plain.key
      now == box.now
      ok  == isOK(box.pair, now)
  IN
  \/ \E v \in PairVals, e \in Lifetimes, c \in 0 .. now :
       Puts(Normal(key, v, e, c), Said(key, v, e, prepareCreateTime(c, now)))
  \/ \E e \in Lifetimes : Puts(Expires(key, getVal(box.pair), e), Said(key, plain.val, e, now))
  \/ Puts(Tombstone(key), IF box.mem THEN Said(key, plain.val, EXPIRES_TOMBSTONE, now) ELSE Said(key, TOMBSTONE, 0, now))
  \/ \E v \in PairVals, e \in Lifetimes, c \in 1 .. now, low \in 0 .. now :
       /\ valid(Normal(key, v, e, c))
       /\ Puts(Clone(create(Normal(key, v, e, c), box.pair, now), low), Said(key, v, e, c))
  \/ \E size \in 0 .. MAX_VAL_SIZE + 1 :
       \/ Acts(ReserveFactory(key, size))
       \/ \E x \in Elements, old \in {ok, FALSE} :
            /\ size > 0
            /\ \/ Acts(Action(TRUE, FALSE, key, size, old, <<x>>))
               \/ Acts(Action(TRUE, TRUE, key, size, ok /\ Len(plain.val) = size, <<x>>))
               \/ \E same \in BOOLEAN : Acts(Action(FALSE, same, key, size, FALSE, [i \in 1 .. size |-> x]))
  \/ /\ box.mem
     /\ box' = [box EXCEPT !.pair = cloneInRawMemory(Block(pairBytes(@)), @), !.mem = FALSE]
     /\ UNCHANGED plain
  \/ now < MaxPairNow /\ box' = [box EXCEPT !.now = @ + 1] /\ UNCHANGED plain

-----------------------------------------------------------------------------
(* However often a pair was rewritten in its block, copied, extended or put  *)
(* into a new block, it reads as the last factory said, with terminators     *)
(* behind the key and the value, and nothing was written outside of a block. *)
PairFaithful ==
  LET p == box.pair
  IN  /\ ~ p.overrun /\ pairBytes(p) <= Len(p.buffer)
      /\ Said(getKey(p), getVal(p), p.expires, p.created) = plain
      /\ p.buffer[p.keylen + 1] = Terminator /\ getBufferOverflowDetect(p) = Terminator
      /\ ~ isSystemPair(p)
      /\ LET system == makePairSystem(plain.key)
         IN  /\ isSystemPair(system) /\ getKey(system) = plain.key
             /\ getBufferOverflowDetect(system) = Terminator
=============================================================================
