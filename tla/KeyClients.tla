----------------------------- MODULE KeyClients -----------------------------
(***************************************************************************)
(* Clients of the commands on single keys, and what they may rely on.       *)
(*                                                                         *)
(* Three ways to use the commands, chosen in the initial state:             *)
(*   "any"      every command, with every argument, in any order;           *)
(*   "lock"     clients share a lock key: SETNX with a lease takes it, CAS  *)
(*              extends the lease, CAD gives it back; requests are late;    *)
(*   "counter"  clients move a counter between two limits, and a high mark.  *)
(***************************************************************************)
EXTENDS KeyCommands, SequencesExt

CONSTANTS
  Clients,         \* clients of the lock, numbers 1 .. 9
  Low, High,       \* limits of the counter
  MaxCommands      \* bound on the commands of an "any" behaviour

VARIABLES
  use,        \* how the commands are used
  done,       \* commands executed, in an "any" behaviour
  moving,     \* the value that the last command renames, and when it expires
  deadline,   \* key -> second after which EXPIREAT lets no one read it, or 0
  asked,      \* client -> request under way, and when it was sent
  holds,      \* client -> time until which it owns the lock
  mark        \* the largest number that INCRTO accepted

cvars == <<use, done, moving, deadline, asked, holds, mark>>
vars  == <<kvars, cvars>>

ASSUME ClientsAssumption ==
  /\ Names # {} /\ \E s, x \in Subs : s # x       \* TheKey and Other
  /\ Clients \subseteq 1 .. 9 /\ Low \in IntMin .. 0 /\ High \in 0 .. IntMax
  /\ MaxCommands \in Nat

None  == [op |-> "none", sent |-> 0]
Still == [k |-> NoKey, neo |-> NoKey, val |-> <<>>, end |-> 0]

TheKey == concat(CHOOSE n \in Names : TRUE, CHOOSE s \in Subs : \A x \in Subs : s <= x)
Other  == concat(CHOOSE n \in Names : TRUE, CHOOSE s \in Subs : \A x \in Subs : x <= s)

CInit ==
  /\ Init
  /\ use \in {"any", "lock", "counter"}
  /\ done = 0 /\ moving = Still
  /\ deadline = [k \in Key |-> 0]
  /\ asked = [c \in Clients |-> None]
  /\ holds = [c \in Clients |-> 0]
  /\ mark = IntMin

-----------------------------------------------------------------------------
(* Every command.                                                           *)

AnyKey == Key \cup {NoKey}
Groups == {<<<<k, v>>, <<l, w>>>> : k \in {TheKey}, l \in AnyKey, v \in Vals, w \in Vals}

Requests ==
  UNION {
    {SET(k, v, e) : k \in AnyKey, v \in Vals, e \in Seconds},
    {SETEX(k, e, v) : k \in AnyKey, v \in Vals, e \in Seconds},
    {SETNX(k, v, e) : k \in AnyKey, v \in Vals, e \in Seconds},
    {SETXX(k, v, e) : k \in AnyKey, v \in Vals, e \in Seconds},
    {HSET(n, s, v, e) : n \in Names, s \in Subs \cup {NoKey}, v \in Vals, e \in Seconds},
    {HMSET(n, svs) : n \in Names, svs \in {<<sv>> : sv \in Subs \X Vals}},
    {MSET(g) : g \in Groups \cup {<<>>}},
    {MSETNX(g) : g \in Groups},
    {MSETXX(g) : g \in Groups},
    {DEL(ks) : ks \in AnyKey \X AnyKey},
    {HDEL(n, ss) : n \in Names, ss \in {<<s>> : s \in Subs}},
    {APPEND(k, v) : k \in AnyKey, v \in Vals},
    {EXPIRE(k, e) : k \in AnyKey, e \in Seconds},
    {PERSIST(k) : k \in AnyKey},
    {PERSISTDELETED(k) : k \in Key},
    {GETSET(k, v) : k \in AnyKey, v \in Vals},
    {GETDEL(k) : k \in AnyKey},
    {GETEX(k, e) : k \in AnyKey, e \in Seconds},
    {GETPERSIST(k) : k \in AnyKey},
    {CAS(k, old, v, e) : k \in AnyKey, old \in Vals, v \in Vals, e \in Seconds},
    {CAD(k, old) : k \in AnyKey, old \in Vals},
    {INCR(k, n) : k \in AnyKey, n \in Numbers},
    {DECR(k, n) : k \in AnyKey, n \in Numbers},
    {INCRLIMIT(k, n, High) : k \in AnyKey, n \in Numbers},
    {DECRLIMIT(k, n, Low) : k \in AnyKey, n \in Numbers},
    {INCRTO(k, n) : k \in AnyKey, n \in Numbers},
    {DECRTO(k, n) : k \in AnyKey, n \in Numbers}}

Reads ==
  UNION {
    {Answer(GET(k)) : k \in AnyKey}, {Answer(EXISTS(k)) : k \in AnyKey},
    {Answer(TTL(k)) : k \in AnyKey}, {Answer(EXPIRETIME(k)) : k \in AnyKey},
    {Answer(STRLEN(k)) : k \in AnyKey}, {Answer(SIZEOF(k)) : k \in AnyKey},
    {Answer(DUMP(k)) : k \in Key},
    {Answer(GETRANGE(k, x, y)) : k \in AnyKey, x \in 0 .. 2, y \in 0 .. 2},
    {Answer(HGET(n, s)) : n \in Names, s \in Subs},
    {Answer(HEXISTS(n, s)) : n \in Names, s \in Subs},
    {Answer(FlattenSeq(MGET(ks))) : ks \in Key \X Key},
    {Answer(FlattenSeq(HMGET(n, ss))) : n \in Names, ss \in {<<s>> : s \in Subs}}}

(* The clients forget the promises on the keys that a command writes.        *)
Forget(r) ==
  deadline' = [k \in Key |-> IF \E i \in DOMAIN r.w : r.w[i].k = k THEN 0 ELSE deadline[k]]

Counts == done < MaxCommands /\ use = "any" /\ done' = done + 1

AnyCommand ==
  /\ Counts
  /\ \E r \in Requests : Execute(r) /\ Forget(r)
  /\ moving' = Still
  /\ UNCHANGED <<now, use, asked, holds, mark>>

AnyRead ==
  /\ use = "any"
  /\ \E r \in Reads : Execute(r)
  /\ UNCHANGED <<now, cvars>>

(* Commands that read the clock again, at t.                                 *)
AnyExpireAt ==
  /\ Counts
  /\ \E k \in Key, time \in Seconds, t \in now .. now + 1 :
       LET r == EXPIREAT(k, time, t) IN
         /\ t <= MaxTime /\ now' = t
         /\ Execute(r) \/ Execute(GETEXAT(k, time, t))
         /\ deadline' = IF r.w = <<>> THEN deadline ELSE [deadline EXCEPT ![k] = time]
  /\ moving' = Still
  /\ UNCHANGED <<use, asked, holds, mark>>

AnyCopy ==
  /\ Counts
  /\ \E k \in Key, l \in AnyKey, t \in now .. now + 1 :
       /\ t <= MaxTime /\ now' = t
       /\ \E r \in {COPY(k, l, t), COPYNX(k, l, t)} : Execute(r) /\ Forget(r)
  /\ moving' = Still
  /\ UNCHANGED <<use, asked, holds, mark>>

EndOf(p) == IF p.exp = 0 THEN MaxTime + Usecs ELSE p.created + p.exp * Usecs

AnyRename ==
  /\ Counts
  /\ \E k \in Key, l \in AnyKey, t \in now .. now + 1 :
       /\ t <= MaxTime /\ now' = t
       /\ \E r \in {RENAME(k, l, t), RENAMENX(k, l, t)} :
            /\ Execute(r) /\ Forget(r)
            /\ moving' = IF r.w = <<>> THEN Still
                         ELSE [k |-> k, neo |-> l, val |-> db[k].val, end |-> EndOf(db[k])]
  /\ UNCHANGED <<use, asked, holds, mark>>

-----------------------------------------------------------------------------
(* A lock with a lease.                                                      *)

Lease    == 1
Token(c) == <<c>>

Ask(c) ==
  /\ use = "lock" /\ asked[c] = None
  /\ \E op \in {"acquire", "extend", "release"} :
       /\ asked' = [asked EXCEPT ![c] = [op |-> op, sent |-> now]]
       /\ holds' = IF op = "release" THEN [holds EXCEPT ![c] = 0] ELSE holds
  /\ UNCHANGED <<kvars, use, done, moving, deadline, mark>>

LockResult(c) ==
  CASE asked[c].op = "acquire" -> SETNX(TheKey, Token(c), Lease)
    [] asked[c].op = "extend"  -> CAS(TheKey, Token(c), Token(c), Lease)
    [] OTHER                   -> CAD(TheKey, Token(c))

Serve(c) ==
  /\ use = "lock" /\ asked[c].op \in {"acquire", "extend", "release"}
  /\ Execute(LockResult(c))
  /\ asked' = [asked EXCEPT ![c] =
       IF asked[c].op # "release" /\ LockResult(c).a = Bool(TRUE)
         THEN [asked[c] EXCEPT !.op = "granted"] ELSE None]
  /\ UNCHANGED <<now, use, done, moving, deadline, holds, mark>>

(* The answer arrives: the lease is counted from when the request was sent.  *)
Receive(c) ==
  /\ asked[c].op = "granted" /\ todo = <<>>
  /\ holds' = [holds EXCEPT ![c] = asked[c].sent + Lease * Usecs]
  /\ asked' = [asked EXCEPT ![c] = None]
  /\ UNCHANGED <<kvars, use, done, moving, deadline, mark>>

-----------------------------------------------------------------------------
(* A counter with two limits, and a high mark.                               *)

Count ==
  /\ use = "counter"
  /\ \E n \in Numbers : \E r \in {INCRLIMIT(TheKey, n, High), DECRLIMIT(TheKey, n, Low)} : Execute(r)
  /\ UNCHANGED <<now, cvars>>

Raise ==
  /\ use = "counter"
  /\ \E n \in Numbers : Execute(INCRTO(Other, n))
  /\ UNCHANGED <<now, cvars>>

(* A client whose answer is lost with the connection does not own the lock.   *)
ServerDies ==
  /\ Crash
  /\ asked' = [c \in Clients |-> IF asked[c].op = "granted" THEN None ELSE asked[c]]
  /\ UNCHANGED <<use, done, moving, deadline, holds, mark>>

ServerWrites ==
  /\ Write
  /\ mark' = IF use = "counter" /\ Head(todo).k = Other /\ from_string(Head(todo).val) > mark
               THEN from_string(Head(todo).val) ELSE mark
  /\ UNCHANGED <<use, done, moving, deadline, asked, holds>>

TimePasses == Tick /\ UNCHANGED cvars

CNext ==
  \/ AnyCommand \/ AnyRead \/ AnyExpireAt \/ AnyCopy \/ AnyRename
  \/ \E c \in Clients : Ask(c) \/ Serve(c) \/ Receive(c)
  \/ Count \/ Raise
  \/ ServerWrites \/ ServerDies \/ TimePasses

Spec == CInit /\ [][CNext]_vars

-----------------------------------------------------------------------------
(* Pairs are pairs, numbers are in their type, and nothing else is stored.    *)
TypeOK ==
  /\ \A k \in Key :
       /\ db[k].val \in Seq(0 .. Minus) /\ Len(db[k].val) <= MaxLen
       /\ db[k].exp \in Nat \cup {TombstoneMark}
       /\ db[k].created \in 0 .. now /\ db[k].mem \in BOOLEAN
  /\ now \in 1 .. MaxTime
  /\ \A i \in DOMAIN todo : todo[i].k \in Key /\ Len(todo[i].val) <= MaxLen
  /\ asked \in [Clients -> [op : {"none", "acquire", "extend", "release", "granted"}, sent : 0 .. MaxTime]]

(* RENAME writes the new key before it erases the old one: whichever         *)
(* insertion the process dies after, the value is under one of the two keys   *)
(* until the last second of its time.                                        *)
RenameKeepsValue ==
  (moving # Still /\ now <= moving.end - Usecs) =>
    \E k \in {moving.k, moving.neo} : getPairVal(k) = moving.val

(* SETNX, CAS and CAD make a lock: no two clients own it at a time, however   *)
(* late a request of a client whose lease has ended arrives.                  *)
LockExclusive ==
  \A c, d \in Clients : (c # d /\ now <= holds[c]) => now > holds[d]

(* INCRLIMIT and DECRLIMIT keep a counter between the limits, through         *)
(* insertions under way and crashes; INCRTO keeps the largest number.         *)
CountersHold ==
  use = "counter" =>
    /\ from_string(getPairVal(TheKey)) \in Low .. High
    /\ from_string(getPairVal(Other)) >= mark

(* The commands that read agree about every key: what GET shows EXISTS        *)
(* reports, what TTL still grants is not past EXPIRETIME, and no key is read  *)
(* after that time.                                                           *)
ReadersAgree ==
  \A k \in Key :
    /\ (GET(k) # <<>>) = (EXISTS(k) = Bool(TRUE))
    /\ STRLEN(k) = to_string(Len(GET(k)))
    /\ GETRANGE(k, 0, MaxLen) = GET(k)
    /\ TTL(k) # <<0>> => EXISTS(k) = Bool(TRUE)
    /\ EXPIRETIME(k) # <<0>> =>
         /\ now32(now) <= Magnitude(EXPIRETIME(k))
         /\ now32(now) + Magnitude(TTL(k)) <= Magnitude(EXPIRETIME(k))

(* What is stored can be read, whole and by every command, between any two    *)
(* insertions and after a crash.                                              *)
ReadsConsistent == RenameKeepsValue /\ ReadersAgree

(* "so key expire at specific timestamp": after EXPIREAT no one reads the key *)
(* past that second.                                                          *)
ExpireAtHolds ==
  \A k \in Key :
    (deadline[k] # 0 /\ todo = <<>> /\ answer # <<Err>> /\ now32(now) > deadline[k])
       => ~ getPairOK(k)

-----------------------------------------------------------------------------
(* A small instance.                                                         *)

SmallestInt == -13
LowestLimit == -2
FewVals     == {<<>>, <<1>>, <<Minus, 2>>}
FewNumbers  == {-1, 0, 1, 2}

(* No step depends on the answer of the last command.                          *)
KeysView == <<db, now, todo, cvars>>
=============================================================================
