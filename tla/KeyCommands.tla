----------------------------- MODULE KeyCommands -----------------------------
(***************************************************************************)
(* The commands on single keys: cmd_mutable.h, cmd_mutable_get.h,           *)
(* cmd_cas.h, cmd_copy.h, cmd_counter.h and cmd_immutable.h.                *)
(*                                                                         *)
(* A command is checked against the database and yields the insertions it   *)
(* will do (todo) and its answer.  Commands do not overlap, but the process *)
(* may die between two insertions (TXGuard is empty), and time goes on.     *)
(*                                                                         *)
(* A string is a sequence of characters: the digits 0 .. 9, and Minus.      *)
(***************************************************************************)
EXTENDS Integers, Sequences

CONSTANTS
  Names, Subs,     \* parts of a composite key "name~sub"; a key is concat(n, s)
  Vals,            \* strings that clients send
  Numbers,         \* numbers that clients send
  Seconds,         \* expirations that clients send
  MaxLen,          \* PairConf::MAX_VAL_SIZE
  IntMin, IntMax,  \* std::numeric_limits<int64_t>
  to_string_buffer_t_size,  \* digits that a number may have
  Usecs,           \* units of the clock in a second
  MaxTime          \* bound on the clock, in units

VARIABLES
  db,       \* the newest pair of each key
  now,      \* the clock
  todo,     \* insertions the command being executed has still to do
  answer    \* its answer

kvars == <<db, now, todo, answer>>

Minus == 10
Err   == 11

NoKey  == 0
concat(n, s) == IF n = NoKey \/ s = NoKey THEN NoKey ELSE 10 * n + s
Key    == {concat(n, s) : n \in Names, s \in Subs}
TombstoneMark == -1        \* PairConf::EXPIRES_TOMBSTONE

(* Seconds of the clock.                                                     *)
now32(t) == t \div Usecs

(* 10 to the power of i, for the digits of a number.                         *)
power[i \in 0 .. to_string_buffer_t_size] == IF i = 0 THEN 1 ELSE 10 * power[i - 1]

ASSUME ConstantsAssumption ==
  /\ Names \subseteq Nat \ {NoKey} /\ Subs \subseteq 1 .. 9
  /\ Vals \subseteq Seq(0 .. Minus) /\ Seconds \subseteq Nat
  /\ IntMax \in Nat \ {0} /\ IntMin = - IntMax - 1 /\ Numbers \subseteq IntMin .. IntMax
  /\ Usecs \in Nat \ {0} /\ MaxTime \in Nat \ {0}
  /\ to_string_buffer_t_size \in Nat \ {0}
  /\ MaxLen \in Nat /\ MaxLen > to_string_buffer_t_size    \* the sign of a number, too

(* The buffer holds every number, length and time that is written.            *)
ASSUME BufferAssumption ==
  /\ - IntMin < power[to_string_buffer_t_size] /\ MaxLen < power[to_string_buffer_t_size]
  /\ \A e \in Seconds \cup {1} : now32(MaxTime) + e < power[to_string_buffer_t_size]

-----------------------------------------------------------------------------
(* Pairs and time.                                                          *)

Absent == [val |-> <<>>, exp |-> 0, created |-> 0, mem |-> FALSE]

isKeyValid(k) == k # NoKey
isValValid(v) == Len(v) <= MaxLen
isValValidNZ(v) == v # <<>> /\ isValValid(v)

(* mytime::expired                                                          *)
isExpired(p, t) == p.exp > 0 /\ p.created + p.exp * Usecs < t

(* A pair marked in place keeps its value; a new one has none.              *)
isTombstone(p) == p.exp = TombstoneMark \/ p.val = <<>>

isOK(p, t) == ~ isTombstone(p) /\ ~ isExpired(p, t)

(* Whole seconds that are left: 0 in the last one.                          *)
getTTL(p, t) ==
  LET end == p.created + p.exp * Usecs
  IN  IF p.exp = 0 \/ end < t THEN 0 ELSE now32(end - t)

getExpiresAt(p) == IF p.exp = 0 THEN 0 ELSE now32(p.created) + p.exp

getPairOK(k)  == isOK(db[k], now)
getPairVal(k) == IF getPairOK(k) THEN db[k].val ELSE <<>>

-----------------------------------------------------------------------------
(* Numbers are stored as strings.                                           *)

Digits(n) ==
  LET width == CHOOSE w \in 1 .. to_string_buffer_t_size :
                 n < power[w] /\ (w > 1 => n >= power[w - 1])
  IN  [i \in 1 .. width |-> (n \div power[width - i]) % 10]

to_string(n) == IF n < 0 THEN <<Minus>> \o Digits(- n) ELSE Digits(n)

(* The digits up to the first other character.                               *)
Magnitude(s) ==
  LET run == CHOOSE i \in 0 .. Len(s) :
               (\A j \in 1 .. i : s[j] # Minus) /\ (i < Len(s) => s[i + 1] = Minus)
      value[i \in 0 .. run] == IF i = 0 THEN 0 ELSE 10 * value[i - 1] + s[i]
  IN  value[run]

(* std::from_chars: a sign and digits; 0 if there are none, or too many for  *)
(* the type.                                                                *)
from_string(s) ==
  LET n == IF s # <<>> /\ s[1] = Minus THEN - Magnitude(Tail(s)) ELSE Magnitude(s)
  IN  IF n \in IntMin .. IntMax THEN n ELSE 0

(* The negative of the least number is that number.                          *)
times(sign, n) == IF sign * n > IntMax THEN IntMin ELSE sign * n

(* safe_overflow::incr stops at the limits of the type.                     *)
incr(a, x) ==
  IF a + x > IntMax THEN IntMax ELSE IF a + x < IntMin THEN IntMin ELSE a + x

-----------------------------------------------------------------------------
(* Insertions, by the pair factory that makes the pair.                     *)

Normal(k, v, e)  == [f |-> "normal",    k |-> k, val |-> v,    exp |-> e]
Expires(k, v, e) == [f |-> "expires",   k |-> k, val |-> v,    exp |-> e]
Tombstone(k)     == [f |-> "tombstone", k |-> k, val |-> <<>>, exp |-> 0]
Erase(k)         == [f |-> "erase",     k |-> k, val |-> <<>>, exp |-> 0]

(* canInsertHintAllocatorF: the pair is in the memory list and large enough. *)
canInsertHint(p, w) == p.mem /\ Len(p.val) >= Len(w.val)

(* What factory.createHint or factory.create leaves.                        *)
Made(p, w, t) ==
  LET hint == canInsertHint(p, w)
      new  == [val |-> w.val, exp |-> w.exp, created |-> t, mem |-> TRUE]
  IN  CASE w.f = "normal"               -> new
        [] w.f = "expires" /\ hint      -> [p EXCEPT !.exp = w.exp, !.created = t]
        [] w.f = "expires" /\ ~ hint    -> new
        [] w.f \in {"tombstone", "erase"} /\ hint
                                        -> [p EXCEPT !.exp = TombstoneMark, !.created = t]
        [] OTHER                        -> new

(* hm4::erase really erases a key that no other list may have.              *)
Outcomes(p, w, t) ==
  {Made(p, w, t)} \cup (IF w.f = "erase" THEN {Absent} ELSE {})

(* An insertion that takes memory may flush the memory list first.          *)
Flushed(d) == [k \in Key |-> [d[k] EXCEPT !.mem = FALSE]]

Insert(w) ==
  \E d \in {db} \cup (IF canInsertHint(db[w.k], w) THEN {} ELSE {Flushed(db)}) :
    \E p \in Outcomes(d[w.k], w, now) : db' = [d EXCEPT ![w.k] = p]

-----------------------------------------------------------------------------
(* What a command does: insertions, and an answer.                          *)

Bool(b) == IF b THEN <<1>> ELSE <<0>>
OK      == <<>>

Answer(a)     == [w |-> <<>>, a |-> a]
Reject        == Answer(<<Err>>)
Writes(ws, a) == [w |-> ws, a |-> a]

Execute(r) ==
  /\ todo = <<>>
  /\ todo' = r.w /\ answer' = r.a
  /\ UNCHANGED db

-----------------------------------------------------------------------------
(* cmd_mutable.h                                                            *)

SET(k, v, e) ==
  IF isKeyValid(k) /\ isValValid(v) THEN Writes(<<Normal(k, v, e)>>, OK) ELSE Reject

ValidGroup(kvs) ==
  kvs # <<>> /\ \A i \in DOMAIN kvs : isKeyValid(kvs[i][1]) /\ isValValid(kvs[i][2])

SetAll(kvs) == [i \in DOMAIN kvs |-> Normal(kvs[i][1], kvs[i][2], 0)]

MSET(kvs) == IF ValidGroup(kvs) THEN Writes(SetAll(kvs), OK) ELSE Reject

MSETNX(kvs) ==
  IF ~ ValidGroup(kvs) THEN Reject
  ELSE IF \E i \in DOMAIN kvs : getPairOK(kvs[i][1]) THEN Answer(Bool(FALSE))
  ELSE Writes(SetAll(kvs), Bool(TRUE))

(* The members of a sequence whose places are in S.                          *)
Picked(ws, S) ==
  LET upto[i \in 0 .. Len(ws)] ==
        IF i = 0 THEN <<>>
        ELSE IF i \in S THEN Append(upto[i - 1], ws[i]) ELSE upto[i - 1]
  IN  upto[Len(ws)]

(* Pairs that fit in place first: the others may flush the list.            *)
MSETXX(kvs) ==
  LET ws   == SetAll(kvs)
      fits == {i \in DOMAIN ws : canInsertHint(db[ws[i].k], ws[i])}
  IN  IF ~ ValidGroup(kvs) THEN Reject
      ELSE IF \E i \in DOMAIN kvs : ~ getPairOK(kvs[i][1]) THEN Answer(Bool(FALSE))
      ELSE Writes(Picked(ws, fits) \o Picked(ws, DOMAIN ws \ fits), Bool(TRUE))

SETEX(k, e, v) == SET(k, v, e)

HSET(n, s, v, e) == SET(concat(n, s), v, e)

HMSET(n, svs) == MSET([i \in DOMAIN svs |-> <<concat(n, svs[i][1]), svs[i][2]>>])

SETNX(k, v, e) ==
  IF ~ (isKeyValid(k) /\ isValValid(v)) THEN Reject
  ELSE IF getPairOK(k) THEN Answer(Bool(FALSE))
  ELSE Writes(<<Normal(k, v, e)>>, Bool(TRUE))

SETXX(k, v, e) ==
  IF ~ (isKeyValid(k) /\ isValValid(v)) THEN Reject
  ELSE IF getPairOK(k) THEN Writes(<<Normal(k, v, e)>>, Bool(TRUE))
  ELSE Answer(Bool(FALSE))

DEL(ks) ==
  IF \A i \in DOMAIN ks : isKeyValid(ks[i])
    THEN Writes([i \in DOMAIN ks |-> Erase(ks[i])], Bool(TRUE))
    ELSE Reject

HDEL(n, ss) == DEL([i \in DOMAIN ss |-> concat(n, ss[i])])

(* APPEND_Factory sets no expiration.                                       *)
APPEND(k, v) ==
  IF ~ isKeyValid(k) THEN Reject
  ELSE LET neo == getPairVal(k) \o v
       IN  IF isValValid(neo) THEN Writes(<<Normal(k, neo, 0)>>, to_string(Len(neo)))
           ELSE Reject

EXPIRE(k, e) ==
  IF ~ isKeyValid(k) THEN Reject
  ELSE IF getPairOK(k) THEN Writes(<<Expires(k, db[k].val, e)>>, Bool(TRUE))
  ELSE Answer(Bool(FALSE))

(* The clock is read twice, first now and then t.                           *)
ExpireAtWrite(k, time, t) ==
  IF now32(now) >= time THEN Tombstone(k)
  ELSE Expires(k, db[k].val, time - now32(t))

EXPIREAT(k, time, t) ==
  IF ~ isKeyValid(k) THEN Reject
  ELSE IF getPairOK(k) THEN Writes(<<ExpireAtWrite(k, time, t)>>, Bool(TRUE))
  ELSE Answer(Bool(FALSE))

PERSIST(k) ==
  IF ~ isKeyValid(k) THEN Reject
  ELSE IF ~ getPairOK(k) THEN Answer(Bool(FALSE))
  ELSE Writes(IF db[k].exp = 0 THEN <<>> ELSE <<Expires(k, db[k].val, 0)>>, Bool(TRUE))

(* A pair of any kind is written again with the value it still has.         *)
PERSISTDELETED(k) ==
  IF ~ isKeyValid(k) THEN Reject
  ELSE Writes(IF db[k] = Absent THEN <<>> ELSE <<Normal(k, db[k].val, 0)>>, OK)

-----------------------------------------------------------------------------
(* cmd_mutable_get.h: answer the value, then change the pair.               *)

processGet(k, hint, missing) ==
  IF ~ isKeyValid(k) THEN Reject
  ELSE Writes(IF getPairOK(k) THEN hint ELSE missing, getPairVal(k))

GETSET(k, v) ==
  IF isValValid(v) THEN processGet(k, <<Normal(k, v, 0)>>, <<Normal(k, v, 0)>>) ELSE Reject
GETDEL(k)     == processGet(k, <<Tombstone(k)>>, <<>>)
GETEX(k, e)   == processGet(k, <<Expires(k, getPairVal(k), e)>>, <<>>)
GETPERSIST(k) == processGet(k, <<Expires(k, getPairVal(k), 0)>>, <<>>)
GETEXAT(k, time, t) ==
  IF isKeyValid(k) THEN processGet(k, <<ExpireAtWrite(k, time, t)>>, <<>>) ELSE Reject

-----------------------------------------------------------------------------
(* cmd_cas.h                                                                *)

ValidCompare(k, old) == isKeyValid(k) /\ isValValidNZ(old)

CAS(k, old, v, e) ==
  IF ~ (ValidCompare(k, old) /\ isValValidNZ(v)) THEN Reject
  ELSE IF getPairOK(k) /\ db[k].val = old THEN Writes(<<Normal(k, v, e)>>, Bool(TRUE))
  ELSE Answer(Bool(FALSE))

(* Mutant: deletes whatever is there.                                       *)
CADUnchecked(k, old) ==
  IF isKeyValid(k) /\ getPairOK(k) THEN Writes(<<Tombstone(k)>>, Bool(TRUE)) ELSE Reject

CAD(k, old) ==
  IF ~ ValidCompare(k, old) THEN Reject
  ELSE IF getPairOK(k) /\ db[k].val = old THEN Writes(<<Tombstone(k)>>, Bool(TRUE))
  ELSE Answer(Bool(FALSE))

-----------------------------------------------------------------------------
(* cmd_copy.h: the time that is left is read at t.                          *)

CopyWrite(k, neo, t) == Normal(neo, db[k].val, getTTL(db[k], t))

cpmv(k, neo, nx, ws) ==
  IF ~ (isKeyValid(k) /\ isKeyValid(neo)) \/ k = neo THEN Reject
  ELSE IF (nx /\ getPairOK(neo)) \/ ~ getPairOK(k) THEN Answer(Bool(FALSE))
  ELSE Writes(ws, Bool(TRUE))

COPY(k, neo, t)     == cpmv(k, neo, FALSE, <<CopyWrite(k, neo, t)>>)
COPYNX(k, neo, t)   == cpmv(k, neo, TRUE,  <<CopyWrite(k, neo, t)>>)
RENAMEErasesFirst(k, neo, t) ==
  cpmv(k, neo, FALSE, <<Erase(k), CopyWrite(k, neo, t)>>)      \* mutant
RENAME(k, neo, t)   == cpmv(k, neo, FALSE, <<CopyWrite(k, neo, t), Erase(k)>>)
RENAMENX(k, neo, t) == cpmv(k, neo, TRUE,  <<CopyWrite(k, neo, t), Erase(k)>>)

-----------------------------------------------------------------------------
(* cmd_counter.h                                                            *)

Counted(k, n) ==
  IF getPairOK(k) THEN incr(n, from_string(db[k].val)) ELSE n

SetNumber(k, n, a) == Writes(<<Normal(k, to_string(n), 0)>>, a)

do_incr_decr(sign, k, n) ==
  IF isKeyValid(k)
    THEN SetNumber(k, Counted(k, times(sign, n)), to_string(Counted(k, times(sign, n))))
    ELSE Reject

INCR(k, n) == do_incr_decr(1, k, n)
DECR(k, n) == do_incr_decr(-1, k, n)

check_limitUp(sign, n, limit) == n <= limit                    \* mutant
check_limit(sign, n, limit) == IF sign = -1 THEN n >= limit ELSE n <= limit

do_incr_decr_limit(sign, k, n, limit) ==
  IF ~ isKeyValid(k) \/ n <= 0 THEN Reject
  ELSE IF check_limit(sign, Counted(k, times(sign, n)), limit)
    THEN SetNumber(k, Counted(k, times(sign, n)), Bool(TRUE))
    ELSE Answer(Bool(FALSE))

INCRLIMIT(k, n, limit) == do_incr_decr_limit(1, k, n, limit)
DECRLIMIT(k, n, limit) == do_incr_decr_limit(-1, k, n, limit)

do_incr_to(sign, k, n) ==
  IF ~ isKeyValid(k) THEN Reject
  ELSE IF getPairOK(k) /\ sign * n <= sign * from_string(db[k].val) THEN Answer(db[k].val)
  ELSE SetNumber(k, n, to_string(n))

INCRTO(k, n) == do_incr_to(1, k, n)
DECRTO(k, n) == do_incr_to(-1, k, n)

-----------------------------------------------------------------------------
(* cmd_immutable.h: commands that only read.                                *)

Read(k, a) == IF isKeyValid(k) THEN a ELSE <<Err>>

GET(k)        == Read(k, getPairVal(k))
MGET(ks)      == [i \in DOMAIN ks |-> GET(ks[i])]
EXISTS(k)     == Read(k, Bool(getPairOK(k)))
TTL(k)        == Read(k, to_string(IF getPairOK(k) THEN getTTL(db[k], now) ELSE 0))
EXPIRETIME(k) == Read(k, to_string(IF getPairOK(k) THEN getExpiresAt(db[k]) ELSE 0))
STRLEN(k)     == Read(k, to_string(Len(getPairVal(k))))
HGET(n, s)    == GET(concat(n, s))
HMGET(n, ss)  == [i \in DOMAIN ss |-> HGET(n, ss[i])]
HEXISTS(n, s) == EXISTS(concat(n, s))

(* substr(start, finish - start + 1), positions from 0                      *)
GETRANGE(k, start, finish) ==
  LET v == getPairVal(k)
  IN  Read(k, IF finish < start \/ start >= Len(v) THEN <<>>
              ELSE SubSeq(v, start + 1, IF finish < Len(v) THEN finish + 1 ELSE Len(v)))

(* The bytes of the pair but for its header and key.                        *)
SIZEOF(k) == Read(k, to_string(IF getPairOK(k) THEN Len(db[k].val) ELSE 0))

(* DUMP asks getPair, so it also shows a pair that is deleted or expired.    *)
DUMP(k) == Read(k, db[k].val)

-----------------------------------------------------------------------------
(* The steps of the server.                                                 *)

Init ==
  /\ db = [k \in Key |-> Absent]
  /\ now = 1
  /\ todo = <<>> /\ answer = OK

(* The command goes on with its next insertion.                             *)
Write ==
  /\ todo # <<>>
  /\ Insert(Head(todo))
  /\ todo' = Tail(todo)
  /\ UNCHANGED <<now, answer>>

(* The process dies and starts again; what was inserted is in the log.       *)
Crash ==
  /\ todo # <<>>
  /\ todo' = <<>> /\ answer' = <<Err>>
  /\ db' = Flushed(db)
  /\ UNCHANGED now

Tick ==
  /\ now < MaxTime
  /\ now' = now + 1
  /\ UNCHANGED <<db, todo, answer>>
=============================================================================
