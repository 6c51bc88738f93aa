-------------------------- MODULE KeyClientsProofs --------------------------
(***************************************************************************)
(* Proofs about KeyClients: a lock has one owner at a time, counters stay   *)
(* within their limits, and a value is not lost while it is renamed, for any *)
(* keys, values, numbers, clients and times, however late a request arrives  *)
(* and wherever the process dies.                                           *)
(***************************************************************************)
EXTENDS KeyClients, NaturalSets, TLAPS

-----------------------------------------------------------------------------
(* The inductive invariant.                                                  *)

(* What the database, a command and a request are made of.                   *)
Text       == {s \in Seq(0 .. Minus) : Len(s) <= MaxLen}
Expiration == {e \in Nat : now32(MaxTime) + e < power[to_string_buffer_t_size]}
Pair       == [val : Text, exp : Expiration \cup {TombstoneMark}, created : 0 .. MaxTime, mem : BOOLEAN]
Insertion  == [f : {"normal", "expires", "tombstone", "erase"}, k : Key, val : Text, exp : Expiration]
Request    == [op : {"none", "acquire", "extend", "release", "granted"}, sent : 0 .. MaxTime]

Types ==
  /\ db \in [Key -> Pair] /\ \A k \in Key : db[k].created <= now
  /\ now \in 1 .. MaxTime
  /\ todo \in Seq(Insertion)
  /\ asked \in [Clients -> Request] /\ \A c \in Clients : asked[c].sent <= now
  /\ holds \in [Clients -> Nat] /\ \A c \in Clients : holds[c] <= now + Usecs
  /\ mark \in IntMin .. IntMax
  /\ use \in {"any", "lock", "counter"}

(* What one way to use the commands keeps, the others leave alone.           *)
OneUse ==
  /\ use # "lock" => \A c \in Clients : asked[c].op = "none" /\ holds[c] = 0
  /\ use # "any"  => moving = Still

(* The pair is c's lease of the lock, and lasts until t.                     *)
Owned(c, t) ==
  /\ db[TheKey].val = Token(c) /\ db[TheKey].exp = Lease
  /\ t <= db[TheKey].created + Usecs

(* When the lease ends that a client is told of.                             *)
Promised(c) == asked[c].sent + Usecs

(* c does not own the lock, and no answer under way makes it believe so.     *)
Free(c) ==
  /\ now > holds[c]
  /\ asked[c].op = "granted" => now > Promised(c)

LockHeld == \A c \in Clients : now <= holds[c] => Owned(c, holds[c])

LockPromised ==
  \A c \in Clients :
    (asked[c].op = "granted" /\ todo = <<>> /\ now <= Promised(c)) => Owned(c, Promised(c))

LockReleased == \A c \in Clients : asked[c].op = "release" => holds[c] = 0

LockWriting ==
  \/ todo = <<>>
  \/ todo = <<Tombstone(TheKey)>> /\ \A c \in Clients : Free(c)
  \/ \E c \in Clients :
       /\ todo = <<Normal(TheKey, Token(c), Lease)>>
       /\ asked[c].op = "granted" /\ \A d \in Clients \ {c} : Free(d)

LockInv == use = "lock" => LockHeld /\ LockPromised /\ LockReleased /\ LockWriting

(* The numbers that each counter may have.                                   *)
Allowed(k) == IF k = TheKey THEN Low .. High ELSE mark .. IntMax

CounterStored ==
  /\ \A k \in {TheKey, Other} :
       \/ db[k].val = <<>>
       \/ db[k].exp = 0 /\ \E n \in Allowed(k) : db[k].val = to_string(n)
  /\ db[Other].val = <<>> => mark = IntMin

CounterWriting ==
  \/ todo = <<>>
  \/ \E k \in {TheKey, Other} : \E n \in Allowed(k) : todo = <<Normal(k, to_string(n), 0)>>

CounterInv == use = "counter" => CounterStored /\ CounterWriting

(* The pair has the value that is renamed, for as long as it had.            *)
Lasts(e, made) == e = 0 \/ moving.end <= made + e * Usecs + Usecs

Kept(p) == p.val = moving.val /\ p.exp # TombstoneMark /\ Lasts(p.exp, p.created)

MovingInv ==
  moving # Still =>
    /\ moving.k \in Key /\ moving.neo \in Key /\ moving.k # moving.neo
    /\ moving.val # <<>> /\ moving.end \in Nat
    /\ \/ /\ todo # <<>> /\ Kept(db[moving.k])
          /\ todo = <<Normal(moving.neo, moving.val, todo[1].exp), Erase(moving.k)>>
          /\ Lasts(todo[1].exp, now)
       \/ todo = <<Erase(moving.k)>> /\ Kept(db[moving.neo])
       \/ todo = <<>> /\ (Kept(db[moving.k]) \/ Kept(db[moving.neo]))

IInv == Types /\ OneUse /\ LockInv /\ CounterInv /\ MovingInv

-----------------------------------------------------------------------------
(* Numbers as text.                                                          *)

LEMMA Powers ==
  \A i \in 0 .. to_string_buffer_t_size :
    /\ power[i] \in Nat \ {0}
    /\ power[i] = IF i = 0 THEN 1 ELSE 10 * power[i - 1]
<1>1. power = CHOOSE f : IsPower(f, to_string_buffer_t_size)
  BY DEF power, IsPower
<1> QED BY <1>1, ConstantsAssumption, PowersFound

Writable == {n \in Nat : n < power[to_string_buffer_t_size]}

(* The digits a number has.                                                  *)
Width(n) == CHOOSE w \in 1 .. to_string_buffer_t_size : n < power[w] /\ (w > 1 => n >= power[w - 1])

LEMMA WidthFound ==
  ASSUME NEW n \in Writable
  PROVE  /\ Width(n) \in 1 .. to_string_buffer_t_size
         /\ n < power[Width(n)] /\ (Width(n) > 1 => n >= power[Width(n) - 1])
<1>1. /\ to_string_buffer_t_size \in Nat \ {0} /\ n \in Nat /\ n < power[to_string_buffer_t_size]
      /\ \A i \in 0 .. to_string_buffer_t_size : power[i] \in Nat
  BY ConstantsAssumption, Powers DEF Writable
<1>2. \E w \in 1 .. to_string_buffer_t_size : n < power[w] /\ (w > 1 => n >= power[w - 1])
  BY <1>1, WidthExists
<1> QED BY <1>2 DEF Width

LEMMA DigitsFound ==
  ASSUME NEW n \in Writable
  PROVE  /\ Digits(n) \in Seq(0 .. 9) /\ Len(Digits(n)) = Width(n)
         /\ \A i \in 1 .. Width(n) : Digits(n)[i] = (n \div power[Width(n) - i]) % 10
<1> DEFINE w == Width(n)
           f == [i \in 1 .. w |-> (n \div power[w - i]) % 10]
<1>1. w \in 1 .. to_string_buffer_t_size /\ to_string_buffer_t_size \in Nat /\ n \in Nat
  BY WidthFound, ConstantsAssumption DEF Writable
<1>2. Digits(n) = f
  BY DEF Digits, Width
<1> HIDE DEF w
<1>3. ASSUME NEW i \in 1 .. w PROVE (n \div power[w - i]) % 10 \in 0 .. 9
  <2>1. w - i \in 0 .. to_string_buffer_t_size
    BY <1>1
  <2>2. power[w - i] \in Nat \ {0}
    BY <2>1, Powers
  <2>3. n \div power[w - i] \in Nat
    BY <1>1, <2>2, Quotient
  <2> QED BY <2>3
<1>4. f \in Seq(0 .. 9) /\ Len(f) = w
  BY <1>1, <1>3
<1> QED BY <1>2, <1>4 DEF w

(* The digits of a number, from the first on: what it is divided by the power *)
(* of those that follow.                                                    *)
LEMMA NextDigit ==
  ASSUME NEW n \in Nat, NEW p \in Nat \ {0}
  PROVE  n \div p = 10 * (n \div (10 * p)) + ((n \div p) % 10)
<1> DEFINE q == n \div p
           r == n \div (10 * p)
<1>1. q \in Nat /\ q * p <= n /\ n < q * p + p
  BY Quotient
<1>2. 10 * p \in Nat \ {0}
  OBVIOUS
<1>3. r \in Nat /\ r * (10 * p) <= n /\ n < r * (10 * p) + 10 * p
  BY <1>2, Quotient
<1> HIDE DEF q, r
<1>4. r * (10 * p) = (10 * r) * p /\ r * (10 * p) + 10 * p = (10 * r + 10) * p
  BY <1>3
<1>5. 10 * r <= q
  <2>1. 10 * r \in Nat /\ (10 * r) * p <= n
    BY <1>3, <1>4
  <2> QED BY <2>1, QuotientBounds DEF q
<1>6. q < 10 * r + 10
  <2> SUFFICES ASSUME 10 * r + 10 <= q PROVE FALSE
    BY <1>1, <1>3
  <2>1. (10 * r + 10) * p <= q * p /\ (10 * r + 10) * p \in Nat /\ q * p \in Nat
    BY <1>1, <1>3, Products
  <2> QED BY <1>1, <1>3, <1>4, <2>1
<1>7. q = 10 * r + (q % 10)
  BY <1>1, <1>3, <1>5, <1>6
<1> QED BY <1>7 DEF q, r

(* What is written in digits is read back.                                   *)
LEMMA MagnitudeOfDigits ==
  ASSUME NEW n \in Writable
  PROVE  Magnitude(Digits(n)) = n
<1> DEFINE s     == Digits(n)
           w     == Width(n)
           Q(i)  == (\A j \in 1 .. i : s[j] # Minus) /\ (i < Len(s) => s[i + 1] = Minus)
           run   == CHOOSE i \in 0 .. Len(s) : Q(i)
           Is(f) == f = [i \in 0 .. run |-> IF i = 0 THEN 0 ELSE 10 * f[i - 1] + s[i]]
           f0    == CHOOSE f : Is(f)
           g     == [i \in 0 .. w |-> n \div power[w - i]]
<1>1. /\ s \in Seq(0 .. 9) /\ Len(s) = w /\ \A i \in 1 .. w : s[i] = (n \div power[w - i]) % 10
      /\ w \in 1 .. to_string_buffer_t_size /\ n < power[w] /\ n \in Nat
      /\ to_string_buffer_t_size \in Nat
  BY DigitsFound, WidthFound, ConstantsAssumption DEF Writable
<1>2. Magnitude(s) = f0[run]
  BY DEF Magnitude
<1> HIDE DEF s, w
<1>3. run = w
  <2>1. \A i \in 1 .. w : s[i] \in 0 .. 9
    BY <1>1
  <2>2. \A i \in 1 .. w : s[i] # Minus
    BY <2>1 DEF Minus
  <2>3. Q(w) /\ w \in 0 .. Len(s)
    BY <1>1, <2>2
  <2>4. ASSUME NEW i \in 0 .. Len(s), Q(i) PROVE i = w
    <3>1. i + 1 \in 1 .. w \/ i = w
      BY <1>1
    <3> QED BY <1>1, <2>2, <2>4, <3>1
  <2> HIDE DEF Q
  <2>5. run \in 0 .. Len(s) /\ Q(run)
    BY <2>3
  <2> QED BY <2>4, <2>5
<1> HIDE DEF run
<1>4. \A i \in 0 .. w : w - i \in 0 .. to_string_buffer_t_size
  BY <1>1
<1>5. g[0] = 0
  <2>1. power[w] \in Nat \ {0}
    BY <1>1, Powers
  <2>2. n \div power[w] = 0
    <3>1. n \div power[w] \in Nat /\ (n \div power[w]) * power[w] <= n
      BY <1>1, <2>1, Quotient
    <3>2. ASSUME n \div power[w] >= 1 PROVE FALSE
      <4>1. 1 * power[w] <= (n \div power[w]) * power[w] /\ (n \div power[w]) * power[w] \in Nat
        BY <2>1, <3>1, <3>2, Products
      <4> QED BY <1>1, <2>1, <3>1, <4>1
    <3> QED BY <3>1, <3>2
  <2>3. 0 \in 0 .. w /\ w - 0 = w
    BY <1>1
  <2> QED BY <2>2, <2>3
<1>6. ASSUME NEW i \in 1 .. w PROVE g[i] = 10 * g[i - 1] + s[i]
  <2>1. w - i \in 0 .. to_string_buffer_t_size /\ w - (i - 1) \in 1 .. to_string_buffer_t_size
    BY <1>1
  <2>2. w - (i - 1) - 1 = w - i /\ w - (i - 1) # 0
    BY <1>1
  <2>3. power[w - i] \in Nat \ {0} /\ power[w - (i - 1)] = 10 * power[w - i]
    BY <2>1, <2>2, Powers
  <2>4. n \div power[w - i] = 10 * (n \div (10 * power[w - i])) + ((n \div power[w - i]) % 10)
    BY <1>1, <2>3, NextDigit
  <2>5. i \in 0 .. w /\ i - 1 \in 0 .. w
    BY <1>1
  <2>6. g[i] = n \div power[w - i] /\ g[i - 1] = n \div power[w - (i - 1)]
    BY <2>5
  <2> QED BY <1>1, <2>3, <2>4, <2>6
<1>7. g[w] = n
  <2>1. power[w - w] = 1
    BY <1>1, Powers
  <2>2. w \in 0 .. w /\ n \div 1 = n
    BY <1>1
  <2> QED BY <2>1, <2>2
<1>8. g = [i \in 0 .. w |-> g[i]]
  OBVIOUS
<1> HIDE DEF g
<1>9. Is(g)
  <2>1. \A i \in 0 .. w : g[i] = IF i = 0 THEN 0 ELSE 10 * g[i - 1] + s[i]
    BY <1>1, <1>5, <1>6
  <2> QED BY <1>3, <1>8, <2>1
<1>10. Is(f0)
  <2> HIDE DEF Is
  <2> QED BY <1>9
<1> HIDE DEF f0
<1>11. \A i \in 0 .. w : f0[i] = IF i = 0 THEN 0 ELSE 10 * f0[i - 1] + s[i]
  BY <1>3, <1>10
<1> DEFINE T == {i \in 0 .. w : f0[i] = g[i]}
<1>12. 0 \in T
  BY <1>1, <1>5, <1>11
<1>13. \A i \in 1 .. w : i - 1 \in T => i \in T
  BY <1>1, <1>6, <1>11
<1>14. \A i \in 0 .. w : i \in T
  <2>1. w \in Nat
    BY <1>1
  <2> HIDE DEF T
  <2> QED BY <1>12, <1>13, <2>1, UpTo
<1>15. f0[w] = n
  BY <1>1, <1>7, <1>14
<1> QED BY <1>2, <1>3, <1>15 DEF s

LEMMA ZeroAsText == to_string(0) = <<0>>
<1> DEFINE w == Width(0)
<1>1. power[to_string_buffer_t_size] \in Nat \ {0} /\ to_string_buffer_t_size \in Nat \ {0}
  BY ConstantsAssumption, Powers
<1>2. 0 \in Writable
  BY <1>1 DEF Writable
<1>3. w \in 1 .. to_string_buffer_t_size /\ (w > 1 => 0 >= power[w - 1])
  BY <1>2, WidthFound
<1>4. /\ Digits(0) \in Seq(0 .. 9) /\ Len(Digits(0)) = w
      /\ \A i \in 1 .. w : Digits(0)[i] = (0 \div power[w - i]) % 10
  BY <1>2, DigitsFound
<1> HIDE DEF w
<1>5. w = 1
  <2> SUFFICES ASSUME w > 1 PROVE FALSE
    BY <1>1, <1>3
  <2>1. w - 1 \in 0 .. to_string_buffer_t_size
    BY <1>1, <1>3
  <2> QED BY <1>3, <2>1, Powers
<1>6. power[0] = 1
  BY <1>1, Powers
<1>7. Digits(0)[1] = 0
  <2>1. Digits(0)[1] = (0 \div power[1 - 1]) % 10
    BY <1>4, <1>5
  <2> QED BY <1>6, <2>1
<1>8. Digits(0) = <<0>>
  BY <1>4, <1>5, <1>7
<1> QED BY <1>8 DEF to_string

(* A number that is stored can be read again, and has the room it needs.     *)
LEMMA NumberAsText ==
  ASSUME NEW n \in IntMin .. IntMax
  PROVE  /\ to_string(n) \in Text /\ to_string(n) # <<>>
         /\ from_string(to_string(n)) = n
<1> DEFINE m == IF n < 0 THEN - n ELSE n
           d == Digits(m)
<1>1. /\ to_string_buffer_t_size \in Nat \ {0} /\ MaxLen \in Nat /\ MaxLen > to_string_buffer_t_size
      /\ IntMin \in Int /\ IntMax \in Nat /\ IntMin = - IntMax - 1
      /\ power[to_string_buffer_t_size] \in Nat /\ - IntMin < power[to_string_buffer_t_size]
  BY ConstantsAssumption, BufferAssumption, Powers
<1>2. n \in Int /\ m \in Writable
  BY <1>1 DEF Writable
<1>3. d \in Seq(0 .. 9) /\ Len(d) \in 1 .. to_string_buffer_t_size /\ Magnitude(d) = m
  <2> HIDE DEF m
  <2> QED BY <1>2, DigitsFound, WidthFound, MagnitudeOfDigits
<1>4. to_string(n) = IF n < 0 THEN <<Minus>> \o d ELSE d
  BY DEF to_string
<1> HIDE DEF d
<1>5. d \in Seq(0 .. Minus) /\ d # <<>> /\ d[1] \in 0 .. 9
  BY <1>3 DEF Minus
<1>6. CASE n < 0
  <2>1. /\ to_string(n) \in Seq(0 .. Minus) /\ Len(to_string(n)) = 1 + Len(d)
        /\ to_string(n) # <<>> /\ to_string(n)[1] = Minus /\ Tail(to_string(n)) = d
    BY <1>4, <1>5, <1>6 DEF Minus
  <2>2. to_string(n) \in Text
    BY <1>1, <1>3, <2>1 DEF Text
  <2>3. from_string(to_string(n)) = IF - m \in IntMin .. IntMax THEN - m ELSE 0
    BY <1>3, <2>1 DEF from_string
  <2>4. - m = n
    BY <1>2, <1>6
  <2> QED BY <2>1, <2>2, <2>3, <2>4
<1>7. CASE ~ (n < 0)
  <2>1. to_string(n) = d /\ m = n /\ d[1] # Minus
    BY <1>2, <1>4, <1>5, <1>7 DEF Minus
  <2>2. d \in Text
    BY <1>1, <1>3, <1>5 DEF Text
  <2>3. from_string(d) = n
    BY <1>3, <2>1 DEF from_string
  <2> QED BY <1>5, <2>1, <2>2, <2>3
<1> QED BY <1>6, <1>7

-----------------------------------------------------------------------------
(* Keys, pairs and insertions.                                               *)

LEMMA KeysFound ==
  /\ TheKey \in Key /\ Other \in Key /\ TheKey # Other
  /\ \A k \in Key : isKeyValid(k)
  /\ \A n \in Names, s \in Subs : concat(n, s) \in Key
<1> DEFINE n0 == CHOOSE n \in Names : TRUE
           lo == CHOOSE s \in Subs : \A x \in Subs : s <= x
           hi == CHOOSE s \in Subs : \A x \in Subs : x <= s
<1>1. /\ Names \subseteq Nat \ {0} /\ Names # {} /\ Subs \subseteq 1 .. 9
      /\ \E s, x \in Subs : s # x
  BY ConstantsAssumption, ClientsAssumption DEF NoKey
<1>2. n0 \in Names
  BY <1>1
<1>3. Subs \in SUBSET Nat /\ Subs # {} /\ \A s \in Subs : s <= 9
  BY <1>1
<1>4. lo \in Subs /\ \A x \in Subs : lo <= x
  <2>1. \E s \in Subs : \A x \in Subs : s <= x
    BY <1>3, SmallestExists
  <2> QED BY <2>1
<1>5. hi \in Subs /\ \A x \in Subs : x <= hi
  <2>1. \E s \in Subs : \A x \in Subs : x <= s
    BY <1>3, LargestExists
  <2> QED BY <2>1
<1>6. TheKey = concat(n0, lo) /\ Other = concat(n0, hi)
  BY DEF TheKey, Other
<1> HIDE DEF n0, lo, hi
<1>7. ASSUME NEW n \in Names, NEW s \in Subs PROVE concat(n, s) = 10 * n + s /\ concat(n, s) # NoKey
  <2>1. n \in Nat /\ n # 0 /\ s \in 1 .. 9
    BY <1>1
  <2> QED BY <2>1 DEF concat, NoKey
<1>8. lo # hi
  <2>1. PICK s \in Subs, x \in Subs : s # x
    BY <1>1
  <2> QED BY <1>1, <1>4, <1>5, <2>1
<1>9. TheKey # Other
  BY <1>1, <1>2, <1>4, <1>5, <1>6, <1>7, <1>8
<1> QED BY <1>2, <1>4, <1>5, <1>6, <1>7, <1>9 DEF Key, isKeyValid

LEMMA NowFound ==
  /\ Usecs \in Nat \ {0} /\ MaxTime \in Nat \ {0} /\ now32(MaxTime) \in Nat
  /\ power[to_string_buffer_t_size] \in Nat
<1>1. Usecs \in Nat \ {0} /\ MaxTime \in Nat \ {0} /\ to_string_buffer_t_size \in Nat
  BY ConstantsAssumption
<1> QED BY <1>1, Powers, Quotient DEF now32

LEMMA Expirations ==
  /\ 0 \in Expiration /\ 1 \in Expiration /\ Seconds \subseteq Expiration
  /\ Expiration \subseteq Nat
  /\ \A e \in Expiration, x \in Nat : x <= e => x \in Expiration
<1>1. Seconds \subseteq Nat /\ \A e \in Seconds \cup {1} : now32(MaxTime) + e < power[to_string_buffer_t_size]
  BY ConstantsAssumption, BufferAssumption
<1>2. 1 \in Expiration /\ Seconds \subseteq Expiration
  BY <1>1 DEF Expiration
<1>3. Expiration \subseteq Nat /\ \A e \in Expiration, x \in Nat : x <= e => x \in Expiration
  BY NowFound DEF Expiration
<1>4. 0 \in Expiration
  BY <1>2, <1>3
<1> QED BY <1>2, <1>3, <1>4

LEMMA Texts ==
  /\ <<>> \in Text /\ \A v \in Text : v \in Seq(0 .. Minus) /\ isValValid(v)
  /\ \A v \in Seq(0 .. Minus) : isValValid(v) => v \in Text
  /\ Vals \subseteq Seq(0 .. Minus)
<1>1. MaxLen \in Nat /\ Vals \subseteq Seq(0 .. Minus)
  BY ConstantsAssumption
<1>2. <<>> \in Text
  BY <1>1 DEF Text
<1> QED BY <1>1, <1>2 DEF Text, isValValid

LEMMA AbsentPair == Absent \in Pair
<1>1. MaxTime \in Nat
  BY NowFound
<1> QED BY <1>1, Expirations, Texts DEF Absent, Pair

(* Each kind of insertion is one.                                            *)
LEMMA Insertions ==
  ASSUME NEW k \in Key
  PROVE  /\ \A v \in Text, e \in Expiration : Normal(k, v, e) \in Insertion /\ Expires(k, v, e) \in Insertion
         /\ Tombstone(k) \in Insertion /\ Erase(k) \in Insertion
BY Texts, Expirations DEF Normal, Expires, Tombstone, Erase, Insertion

(* What an insertion leaves of a pair.                                       *)
LEMMA PairMade ==
  ASSUME NEW p \in Pair, NEW w \in Insertion, NEW t \in 0 .. MaxTime, p.created <= t
  PROVE  /\ Made(p, w, t) \in Pair /\ Made(p, w, t).created = t
         /\ w.f = "normal" => Made(p, w, t).val = w.val /\ Made(p, w, t).exp = w.exp
<1> DEFINE new  == [val |-> w.val, exp |-> w.exp, created |-> t, mem |-> TRUE]
           hint == canInsertHint(p, w)
<1>1. /\ w.f \in {"normal", "expires", "tombstone", "erase"} /\ w.val \in Text /\ w.exp \in Expiration
      /\ p = [val |-> p.val, exp |-> p.exp, created |-> p.created, mem |-> p.mem]
      /\ p.val \in Text /\ p.mem \in BOOLEAN
  BY DEF Insertion, Pair
<1>2. new \in Pair /\ new.created = t /\ new.val = w.val /\ new.exp = w.exp
  BY <1>1 DEF Pair
<1>3. ASSUME NEW e \in Expiration \cup {TombstoneMark}
      PROVE  [p EXCEPT !.exp = e, !.created = t] \in Pair /\ [p EXCEPT !.exp = e, !.created = t].created = t
  BY <1>1 DEF Pair
<1> HIDE DEF new, hint
<1>4. CASE w.f = "normal"
  <2>1. Made(p, w, t) = new
    BY <1>4 DEF Made, new
  <2> QED BY <1>2, <2>1
<1>5. CASE w.f = "expires" /\ hint
  <2>1. Made(p, w, t) = [p EXCEPT !.exp = w.exp, !.created = t]
    BY <1>5 DEF Made, hint
  <2> QED BY <1>1, <1>3, <1>5, <2>1
<1>6. CASE w.f = "expires" /\ ~ hint
  <2>1. Made(p, w, t) = new
    BY <1>6 DEF Made, new, hint
  <2> QED BY <1>2, <1>6, <2>1
<1>7. CASE w.f \in {"tombstone", "erase"} /\ hint
  <2>1. Made(p, w, t) = [p EXCEPT !.exp = TombstoneMark, !.created = t]
    BY <1>7 DEF Made, hint
  <2> QED BY <1>3, <1>7, <2>1
<1>8. CASE w.f \in {"tombstone", "erase"} /\ ~ hint
  <2>1. Made(p, w, t) = new
    BY <1>8 DEF Made, new, hint
  <2> QED BY <1>2, <1>8, <2>1
<1> QED BY <1>1, <1>4, <1>5, <1>6, <1>7, <1>8

(* Two databases have the same pair, be it in the memory list or not.        *)
SamePair(p, q) == p.val = q.val /\ p.exp = q.exp /\ p.created = q.created

LEMMA FlushKeepsPairs ==
  ASSUME db \in [Key -> Pair]
  PROVE  /\ Flushed(db) \in [Key -> Pair]
         /\ \A k \in Key : SamePair(Flushed(db)[k], db[k])
<1>1. ASSUME NEW k \in Key PROVE [db[k] EXCEPT !.mem = FALSE] \in Pair /\ SamePair([db[k] EXCEPT !.mem = FALSE], db[k])
  <2>1. db[k] \in Pair
    OBVIOUS
  <2> QED BY <2>1 DEF Pair, SamePair
<1> QED BY <1>1 DEF Flushed

LEMMA InsertDone ==
  ASSUME Types, NEW w \in Insertion, Insert(w)
  PROVE  /\ db' \in [Key -> Pair] /\ \A k \in Key : db'[k].created <= now
         /\ \A k \in Key \ {w.k} : SamePair(db'[k], db[k])
         /\ w.f = "normal" => db'[w.k].val = w.val /\ db'[w.k].exp = w.exp /\ db'[w.k].created = now
<1>1. /\ db \in [Key -> Pair] /\ \A k \in Key : db[k].created <= now /\ db[k] \in Pair
      /\ now \in 1 .. MaxTime /\ w.k \in Key
  BY DEF Types, Insertion
<1>2. PICK d \in {db, Flushed(db)} : \E p \in Outcomes(d[w.k], w, now) : db' = [d EXCEPT ![w.k] = p]
  BY DEF Insert
<1>3. PICK p \in Outcomes(d[w.k], w, now) : db' = [d EXCEPT ![w.k] = p]
  BY <1>2
<1>4. d \in [Key -> Pair] /\ \A k \in Key : SamePair(d[k], db[k])
  BY <1>1, <1>2, FlushKeepsPairs DEF SamePair
<1>5. d[w.k] \in Pair /\ d[w.k].created <= now /\ now \in 0 .. MaxTime /\ now \in Nat
  BY <1>1, <1>4, NowFound DEF SamePair
<1>6. /\ Made(d[w.k], w, now) \in Pair /\ Made(d[w.k], w, now).created = now
      /\ w.f = "normal" => Made(d[w.k], w, now).val = w.val /\ Made(d[w.k], w, now).exp = w.exp
  BY <1>5, PairMade
<1>7. p = Made(d[w.k], w, now) \/ (p = Absent /\ w.f = "erase")
  BY <1>3 DEF Outcomes
<1>8. p \in Pair /\ p.created <= now /\ (w.f = "normal" => p.val = w.val /\ p.exp = w.exp /\ p.created = now)
  <2>1. Absent.created = 0 /\ 0 <= now
    BY <1>1 DEF Absent
  <2>2. w.f = "erase" => w.f # "normal"
    OBVIOUS
  <2> QED BY <1>1, <1>6, <1>7, <2>1, <2>2, AbsentPair
<1>9. db' \in [Key -> Pair] /\ db'[w.k] = p /\ \A k \in Key \ {w.k} : db'[k] = d[k]
  BY <1>1, <1>3, <1>4, <1>8
<1>10. \A k \in Key : db'[k].created <= now
  BY <1>1, <1>4, <1>8, <1>9 DEF SamePair
<1> QED BY <1>4, <1>8, <1>9, <1>10

-----------------------------------------------------------------------------
(* What a command does are insertions.                                       *)

Inserts(r) == r.w \in Seq(Insertion)

LEMMA Results ==
  /\ Reject.w = <<>> /\ Inserts(Reject)
  /\ \A a : Answer(a).w = <<>> /\ Answer(a).a = a /\ Inserts(Answer(a))
  /\ \A ws, a : Writes(ws, a).w = ws /\ Writes(ws, a).a = a
  /\ \A ws \in Seq(Insertion) : \A a : Inserts(Writes(ws, a))
  /\ \A w \in Insertion : \A a : Inserts(Writes(<<w>>, a))
  /\ \A a : Inserts(Writes(<<>>, a))
<1>1. <<>> \in Seq(Insertion) /\ \A w \in Insertion : <<w>> \in Seq(Insertion)
  OBVIOUS
<1> QED BY <1>1 DEF Reject, Answer, Writes, Inserts

LEMMA AnyKeys ==
  ASSUME NEW k \in AnyKey
  PROVE  isKeyValid(k) <=> k \in Key
BY KeysFound DEF AnyKey, isKeyValid

LEMMA ValuesRead ==
  ASSUME db \in [Key -> Pair], NEW k \in Key
  PROVE  db[k].val \in Text /\ getPairVal(k) \in Text
<1>1. db[k].val \in Text
  BY DEF Pair
<1> QED BY <1>1, Texts DEF getPairVal

LEMMA SETWrites ==
  ASSUME NEW k \in AnyKey, NEW v \in Vals, NEW e \in Seconds
  PROVE  /\ Inserts(SET(k, v, e)) /\ Inserts(SETEX(k, e, v))
         /\ Inserts(SETNX(k, v, e)) /\ Inserts(SETXX(k, v, e))
<1> DEFINE ok == isKeyValid(k) /\ isValValid(v)
           w  == Normal(k, v, e)
<1>1. ok => Inserts(Writes(<<w>>, OK)) /\ Inserts(Writes(<<w>>, Bool(TRUE)))
  <2> SUFFICES ASSUME ok PROVE w \in Insertion
    BY Results
  <2> QED BY AnyKeys, Insertions, Texts, Expirations
<1> HIDE DEF w
<1>2. Inserts(SET(k, v, e))
  BY <1>1, Results DEF SET, w
<1>3. Inserts(SETNX(k, v, e))
  BY <1>1, Results DEF SETNX, w
<1>4. Inserts(SETXX(k, v, e))
  BY <1>1, Results DEF SETXX, w
<1> QED BY <1>2, <1>3, <1>4 DEF SETEX

(* Those of a sequence that are picked belong to it.                         *)
LEMMA PickedFound ==
  ASSUME NEW A, NEW ws \in Seq(A), NEW S
  PROVE  Picked(ws, S) \in Seq(A)
<1> DEFINE n     == Len(ws)
           Q     == Seq(A)
           e     == <<>>
           Step  == [p \in (1 .. n) \X Q |-> IF p[1] \in S THEN Append(p[2], ws[p[1]]) ELSE p[2]]
           Is(f) == f = [i \in 0 .. n |->
                           IF i = 0 THEN <<>> ELSE IF i \in S THEN Append(f[i - 1], ws[i]) ELSE f[i - 1]]
           f0    == CHOOSE f : Is(f)
<1>1. Picked(ws, S) = f0[n]
  BY DEF Picked
<1>2. n \in Nat /\ e \in Q /\ Step \in [(1 .. n) \X Q -> Q]
  OBVIOUS
<1>3. PICK g : Steps(g, Q, e, n, Step)
  <2> HIDE DEF Q, e, n, Step
  <2> QED BY <1>2, StepsExist
<1>4. Is(g)
  <2>1. g \in [0 .. n -> Q] /\ g[0] = e /\ \A i \in 1 .. n : g[i] = Step[<<i, g[i - 1]>>]
    BY <1>3 DEF Steps
  <2>2. \A i \in 1 .. n : g[i - 1] \in Q
    BY <1>2, <2>1
  <2>3. \A i \in 1 .. n : g[i] = IF i \in S THEN Append(g[i - 1], ws[i]) ELSE g[i - 1]
    BY <2>1, <2>2
  <2> HIDE DEF Q, n, Step
  <2>4. ASSUME NEW i \in 0 .. n
        PROVE  g[i] = IF i = 0 THEN <<>> ELSE IF i \in S THEN Append(g[i - 1], ws[i]) ELSE g[i - 1]
    <3>1. CASE i = 0
      BY <2>1, <3>1
    <3>2. CASE i # 0
      <4>1. i \in 1 .. n
        BY <1>2, <3>2
      <4>2. g[i] = IF i \in S THEN Append(g[i - 1], ws[i]) ELSE g[i - 1]
        BY <2>3, <4>1
      <4> QED BY <3>2, <4>2
    <3> QED BY <3>1, <3>2
  <2> QED BY <2>1, <2>4
<1>5. Is(f0)
  <2> HIDE DEF Is
  <2> QED BY <1>4
<1> HIDE DEF f0
<1>6. \A i \in 0 .. n : f0[i] = IF i = 0 THEN <<>> ELSE IF i \in S THEN Append(f0[i - 1], ws[i]) ELSE f0[i - 1]
  BY <1>5
<1> DEFINE T == {i \in 0 .. n : f0[i] \in Q}
<1>7. 0 \in T
  <2>1. 0 \in 0 .. n
    BY <1>2
  <2>2. f0[0] = <<>>
    BY <1>6, <2>1
  <2> QED BY <1>2, <2>1, <2>2
<1>8. ASSUME NEW i \in 1 .. n, i - 1 \in T PROVE i \in T
  <2>1. ws[i] \in A /\ f0[i - 1] \in Q /\ i \in 0 .. n
    BY <1>8
  <2>2. Append(f0[i - 1], ws[i]) \in Q
    BY <2>1
  <2>3. f0[i] = IF i \in S THEN Append(f0[i - 1], ws[i]) ELSE f0[i - 1]
    BY <1>6, <2>1, <1>2
  <2> QED BY <2>1, <2>2, <2>3
<1>9. \A i \in 0 .. n : i \in T
  <2> HIDE DEF T, n
  <2> QED BY <1>2, <1>7, <1>8, UpTo
<1>10. f0[n] \in Q
  BY <1>2, <1>9
<1> QED BY <1>1, <1>10

LEMMA GroupWrites ==
  ASSUME NEW kvs \in Seq(AnyKey \X Vals)
  PROVE  Inserts(MSET(kvs)) /\ Inserts(MSETNX(kvs)) /\ Inserts(MSETXX(kvs))
<1> DEFINE ws == SetAll(kvs)
           fits == {i \in DOMAIN ws : canInsertHint(db[ws[i].k], ws[i])}
<1>1. ValidGroup(kvs) => ws \in Seq(Insertion)
  <2> SUFFICES ASSUME ValidGroup(kvs) PROVE ws \in Seq(Insertion)
    OBVIOUS
  <2>1. ASSUME NEW i \in DOMAIN kvs PROVE Normal(kvs[i][1], kvs[i][2], 0) \in Insertion
    <3>1. kvs[i] \in AnyKey \X Vals
      OBVIOUS
    <3>2. kvs[i][1] \in AnyKey /\ kvs[i][2] \in Vals
      BY <3>1
    <3>3. isKeyValid(kvs[i][1]) /\ isValValid(kvs[i][2])
      BY DEF ValidGroup
    <3> QED BY <3>2, <3>3, AnyKeys, Insertions, Texts, Expirations
  <2>2. Len(kvs) \in Nat /\ DOMAIN kvs = 1 .. Len(kvs)
    OBVIOUS
  <2> QED BY <2>1, <2>2 DEF SetAll
<1>2. ValidGroup(kvs) =>
        \A a : Inserts(Writes(ws, a)) /\ Inserts(Writes(Picked(ws, fits) \o Picked(ws, DOMAIN ws \ fits), a))
  <2> HIDE DEF ws, fits
  <2> SUFFICES ASSUME ValidGroup(kvs) PROVE Picked(ws, fits) \o Picked(ws, DOMAIN ws \ fits) \in Seq(Insertion)
    BY <1>1, Results
  <2>1. Picked(ws, fits) \in Seq(Insertion) /\ Picked(ws, DOMAIN ws \ fits) \in Seq(Insertion)
    BY <1>1, PickedFound
  <2> QED BY <2>1
<1>3. Inserts(MSET(kvs))
  BY <1>2, Results DEF MSET
<1>4. Inserts(MSETNX(kvs))
  BY <1>2, Results DEF MSETNX
<1>5. Inserts(MSETXX(kvs))
  BY <1>2, Results DEF MSETXX
<1> QED BY <1>3, <1>4, <1>5

LEMMA HashWrites ==
  ASSUME NEW n \in Names
  PROVE  /\ \A s \in Subs \cup {NoKey}, v \in Vals, e \in Seconds : Inserts(HSET(n, s, v, e))
         /\ \A svs \in {<<sv>> : sv \in Subs \X Vals} : Inserts(HMSET(n, svs))
<1>1. \A s \in Subs \cup {NoKey} : concat(n, s) \in AnyKey
  BY KeysFound DEF AnyKey, concat
<1>2. \A s \in Subs \cup {NoKey}, v \in Vals, e \in Seconds : Inserts(HSET(n, s, v, e))
  BY <1>1, SETWrites DEF HSET
<1>3. ASSUME NEW svs \in {<<sv>> : sv \in Subs \X Vals} PROVE Inserts(HMSET(n, svs))
  <2> DEFINE kvs == [i \in DOMAIN svs |-> <<concat(n, svs[i][1]), svs[i][2]>>]
  <2>1. DOMAIN svs = 1 .. 1 /\ svs[1][1] \in Subs /\ svs[1][2] \in Vals
    OBVIOUS
  <2>2. \A i \in 1 .. 1 : <<concat(n, svs[i][1]), svs[i][2]>> \in AnyKey \X Vals
    BY <1>1, <2>1
  <2>3. kvs \in Seq(AnyKey \X Vals)
    BY <2>1, <2>2
  <2> QED BY <2>3, GroupWrites DEF HMSET
<1> QED BY <1>2, <1>3

LEMMA ErasingWrites ==
  ASSUME NEW ks \in Seq(AnyKey)
  PROVE  Inserts(DEL(ks))
<1>1. CASE \A i \in DOMAIN ks : isKeyValid(ks[i])
  <2> DEFINE ws == [i \in DOMAIN ks |-> Erase(ks[i])]
  <2>1. ASSUME NEW i \in DOMAIN ks PROVE Erase(ks[i]) \in Insertion
    <3>1. ks[i] \in AnyKey
      OBVIOUS
    <3> QED BY <1>1, <3>1, AnyKeys, Insertions
  <2>2. Len(ks) \in Nat /\ DOMAIN ks = 1 .. Len(ks)
    OBVIOUS
  <2>3. ws \in Seq(Insertion)
    BY <2>1, <2>2
  <2> HIDE DEF ws
  <2>4. DEL(ks) = Writes(ws, Bool(TRUE))
    BY <1>1 DEF DEL, ws
  <2> QED BY <2>3, <2>4, Results
<1>2. CASE ~ \A i \in DOMAIN ks : isKeyValid(ks[i])
  BY <1>2, Results DEF DEL
<1> QED BY <1>1, <1>2

LEMMA ValueWrites ==
  ASSUME db \in [Key -> Pair], NEW k \in AnyKey, NEW v \in Vals
  PROVE  Inserts(APPEND(k, v)) /\ Inserts(GETSET(k, v))
<1>1. CASE ~ isKeyValid(k)
  BY <1>1, Results DEF APPEND, GETSET, processGet
<1>2. CASE isKeyValid(k)
  <2> DEFINE neo == getPairVal(k) \o v
  <2>1. k \in Key
    BY <1>2, AnyKeys
  <2>2. getPairVal(k) \in Seq(0 .. Minus) /\ v \in Seq(0 .. Minus)
    BY <2>1, ValuesRead, Texts
  <2>3. neo \in Seq(0 .. Minus)
    BY <2>2
  <2> HIDE DEF neo
  <2>4. Inserts(APPEND(k, v))
    <3>1. isValValid(neo) => Normal(k, neo, 0) \in Insertion
      BY <2>1, <2>3, Insertions, Texts, Expirations
    <3> QED BY <1>2, <3>1, Results DEF APPEND, neo
  <2>5. Inserts(GETSET(k, v))
    <3>1. isValValid(v) => Normal(k, v, 0) \in Insertion
      BY <2>1, <2>2, Insertions, Texts, Expirations
    <3> QED BY <1>2, <3>1, Results DEF GETSET, processGet
  <2> QED BY <2>4, <2>5
<1> QED BY <1>1, <1>2

LEMMA ExpiringWrites ==
  ASSUME db \in [Key -> Pair], NEW k \in AnyKey, NEW e \in Seconds
  PROVE  Inserts(EXPIRE(k, e)) /\ Inserts(GETEX(k, e))
<1>1. CASE ~ isKeyValid(k)
  BY <1>1, Results DEF EXPIRE, GETEX, processGet
<1>2. CASE isKeyValid(k)
  <2>1. k \in Key /\ db[k].val \in Text /\ getPairVal(k) \in Text
    BY <1>2, AnyKeys, ValuesRead
  <2>2. Expires(k, db[k].val, e) \in Insertion /\ Expires(k, getPairVal(k), e) \in Insertion
    BY <2>1, Insertions, Expirations
  <2>3. Inserts(EXPIRE(k, e))
    BY <1>2, <2>2, Results DEF EXPIRE
  <2>4. Inserts(GETEX(k, e))
    BY <1>2, <2>2, Results DEF GETEX, processGet
  <2> QED BY <2>3, <2>4
<1> QED BY <1>1, <1>2

LEMMA KeepingWrites ==
  ASSUME db \in [Key -> Pair], NEW k \in AnyKey
  PROVE  /\ Inserts(PERSIST(k)) /\ Inserts(GETDEL(k)) /\ Inserts(GETPERSIST(k))
         /\ k \in Key => Inserts(PERSISTDELETED(k))
<1>1. CASE ~ isKeyValid(k)
  BY <1>1, Results, AnyKeys DEF PERSIST, GETDEL, GETPERSIST, processGet
<1>2. CASE isKeyValid(k)
  <2>1. k \in Key /\ db[k].val \in Text /\ getPairVal(k) \in Text
    BY <1>2, AnyKeys, ValuesRead
  <2>2. /\ Expires(k, db[k].val, 0) \in Insertion /\ Expires(k, getPairVal(k), 0) \in Insertion
        /\ Normal(k, db[k].val, 0) \in Insertion /\ Tombstone(k) \in Insertion
    BY <2>1, Insertions, Expirations
  <2>3. Inserts(PERSIST(k))
    <3>1. CASE ~ getPairOK(k)
      BY <1>2, <3>1, Results DEF PERSIST
    <3>2. CASE getPairOK(k) /\ db[k].exp = 0
      BY <1>2, <3>2, Results DEF PERSIST
    <3>3. CASE getPairOK(k) /\ db[k].exp # 0
      BY <1>2, <2>2, <3>3, Results DEF PERSIST
    <3> QED BY <3>1, <3>2, <3>3
  <2>4. Inserts(GETDEL(k))
    BY <1>2, <2>2, Results DEF GETDEL, processGet
  <2>5. Inserts(GETPERSIST(k))
    BY <1>2, <2>2, Results DEF GETPERSIST, processGet
  <2>6. Inserts(PERSISTDELETED(k))
    <3>1. CASE db[k] = Absent
      BY <1>2, <3>1, Results DEF PERSISTDELETED
    <3>2. CASE db[k] # Absent
      BY <1>2, <2>2, <3>2, Results DEF PERSISTDELETED
    <3> QED BY <3>1, <3>2
  <2> QED BY <2>3, <2>4, <2>5, <2>6
<1> QED BY <1>1, <1>2

LEMMA ComparingWrites ==
  ASSUME NEW k \in AnyKey, NEW old \in Vals
  PROVE  /\ Inserts(CAD(k, old))
         /\ \A v \in Vals, e \in Seconds : Inserts(CAS(k, old, v, e))
<1>1. CASE ~ ValidCompare(k, old)
  BY <1>1, Results DEF CAS, CAD
<1>2. CASE ValidCompare(k, old)
  <2>1. k \in Key
    BY <1>2, AnyKeys DEF ValidCompare
  <2>2. Inserts(CAD(k, old))
    BY <1>2, <2>1, Insertions, Results DEF CAD
  <2>3. ASSUME NEW v \in Vals, NEW e \in Seconds PROVE Inserts(CAS(k, old, v, e))
    <3>1. isValValidNZ(v) => Normal(k, v, e) \in Insertion
      BY <2>1, Insertions, Texts, Expirations DEF isValValidNZ
    <3> QED BY <1>2, <3>1, Results DEF CAS
  <2> QED BY <2>2, <2>3
<1> QED BY <1>1, <1>2

(* Numbers stay in their type.                                               *)
LEMMA NumbersInRange ==
  ASSUME NEW k, NEW n \in IntMin .. IntMax
  PROVE  /\ times(1, n) = n /\ times(-1, n) \in IntMin .. IntMax
         /\ n > 0 => times(-1, n) = - n
         /\ from_string(db[k].val) \in IntMin .. IntMax
         /\ Counted(k, n) \in IntMin .. IntMax
<1>1. IntMax \in Nat \ {0} /\ IntMin = - IntMax - 1
  BY ConstantsAssumption
<1>2. 1 * n = n /\ (-1) * n = - n
  OBVIOUS
<1>3. times(1, n) = n /\ times(-1, n) \in IntMin .. IntMax /\ (n > 0 => times(-1, n) = - n)
  BY <1>1, <1>2 DEF times
<1>4. from_string(db[k].val) \in IntMin .. IntMax
  BY <1>1 DEF from_string
<1>5. incr(n, from_string(db[k].val)) \in IntMin .. IntMax
  BY <1>1, <1>4 DEF incr
<1> QED BY <1>3, <1>4, <1>5 DEF Counted

LEMMA NumberWrites ==
  ASSUME NEW k \in Key, NEW n \in IntMin .. IntMax
  PROVE  \A a : Inserts(SetNumber(k, n, a))
<1>1. Normal(k, to_string(n), 0) \in Insertion
  BY NumberAsText, Insertions, Expirations
<1> QED BY <1>1, Results DEF SetNumber

LEMMA CountingWrites ==
  ASSUME NEW k \in AnyKey, NEW n \in Numbers, NEW limit
  PROVE  /\ Inserts(INCR(k, n)) /\ Inserts(DECR(k, n))
         /\ Inserts(INCRLIMIT(k, n, limit)) /\ Inserts(DECRLIMIT(k, n, limit))
         /\ Inserts(INCRTO(k, n)) /\ Inserts(DECRTO(k, n))
<1>0. n \in IntMin .. IntMax
  BY ConstantsAssumption
<1>1. ASSUME NEW sign \in {1, -1}
      PROVE  /\ Inserts(do_incr_decr(sign, k, n)) /\ Inserts(do_incr_decr_limit(sign, k, n, limit))
             /\ Inserts(do_incr_to(sign, k, n))
  <2>1. CASE ~ isKeyValid(k)
    BY <2>1, Results DEF do_incr_decr, do_incr_decr_limit, do_incr_to
  <2>2. CASE isKeyValid(k)
    <3>1. k \in Key
      BY <2>2, AnyKeys
    <3>2. times(sign, n) \in IntMin .. IntMax
      BY <1>0, NumbersInRange
    <3>3. Counted(k, times(sign, n)) \in IntMin .. IntMax
      BY <3>2, NumbersInRange
    <3>4. \A a : Inserts(SetNumber(k, Counted(k, times(sign, n)), a)) /\ Inserts(SetNumber(k, n, a))
      BY <1>0, <3>1, <3>3, NumberWrites
    <3>5. Inserts(do_incr_decr(sign, k, n))
      BY <2>2, <3>4 DEF do_incr_decr
    <3>6. Inserts(do_incr_decr_limit(sign, k, n, limit))
      BY <2>2, <3>4, Results DEF do_incr_decr_limit
    <3>7. Inserts(do_incr_to(sign, k, n))
      BY <2>2, <3>4, Results DEF do_incr_to
    <3> QED BY <3>5, <3>6, <3>7
  <2> QED BY <2>1, <2>2
<1> QED BY <1>1 DEF INCR, DECR, INCRLIMIT, DECRLIMIT, INCRTO, DECRTO

LEMMA RequestWrites ==
  ASSUME db \in [Key -> Pair], NEW r \in Requests
  PROVE  Inserts(r)
<1>1. TheKey \in AnyKey
  BY KeysFound DEF AnyKey
<1>2. \A k \in Key : k \in AnyKey
  BY DEF AnyKey
<1>3. \A g \in Groups \cup {<<>>} : g \in Seq(AnyKey \X Vals)
  <2>1. ASSUME NEW g \in Groups PROVE g \in Seq(AnyKey \X Vals)
    <3>1. PICK k \in {TheKey}, l \in AnyKey, v \in Vals, w \in Vals : g = <<<<k, v>>, <<l, w>>>>
      BY DEF Groups
    <3>2. <<k, v>> \in AnyKey \X Vals /\ <<l, w>> \in AnyKey \X Vals
      BY <1>1, <3>1
    <3> QED BY <3>1, <3>2
  <2>2. <<>> \in Seq(AnyKey \X Vals)
    OBVIOUS
  <2> QED BY <2>1, <2>2
<1>4. ASSUME NEW ks \in AnyKey \X AnyKey PROVE Inserts(DEL(ks))
  <2>1. PICK k \in AnyKey, l \in AnyKey : ks = <<k, l>>
    OBVIOUS
  <2>2. ks \in Seq(AnyKey)
    BY <2>1
  <2> QED BY <2>2, ErasingWrites
<1>5. ASSUME NEW n \in Names, NEW ss \in {<<s>> : s \in Subs} PROVE Inserts(HDEL(n, ss))
  <2> DEFINE ks == [i \in DOMAIN ss |-> concat(n, ss[i])]
  <2>1. ks \in Seq(AnyKey)
    <3>1. DOMAIN ss = 1 .. 1 /\ ss[1] \in Subs
      OBVIOUS
    <3>2. \A i \in 1 .. 1 : concat(n, ss[i]) \in AnyKey
      BY <3>1, KeysFound DEF AnyKey
    <3> QED BY <3>1, <3>2
  <2> QED BY <2>1, ErasingWrites DEF HDEL
<1> DEFINE R1 == {SET(k, v, e) : k \in AnyKey, v \in Vals, e \in Seconds}
           R2 == {SETEX(k, e, v) : k \in AnyKey, v \in Vals, e \in Seconds}
           R3 == {SETNX(k, v, e) : k \in AnyKey, v \in Vals, e \in Seconds}
           R4 == {SETXX(k, v, e) : k \in AnyKey, v \in Vals, e \in Seconds}
           R5 == {HSET(n, s, v, e) : n \in Names, s \in Subs \cup {NoKey}, v \in Vals, e \in Seconds}
           R6 == {HMSET(n, svs) : n \in Names, svs \in {<<sv>> : sv \in Subs \X Vals}}
           R7 == {MSET(g) : g \in Groups \cup {<<>>}}
           R8 == {MSETNX(g) : g \in Groups}
           R9 == {MSETXX(g) : g \in Groups}
           R10 == {DEL(ks) : ks \in AnyKey \X AnyKey}
           R11 == {HDEL(n, ss) : n \in Names, ss \in {<<s>> : s \in Subs}}
           R12 == {APPEND(k, v) : k \in AnyKey, v \in Vals}
           R13 == {EXPIRE(k, e) : k \in AnyKey, e \in Seconds}
           R14 == {PERSIST(k) : k \in AnyKey}
           R15 == {PERSISTDELETED(k) : k \in Key}
           R16 == {GETSET(k, v) : k \in AnyKey, v \in Vals}
           R17 == {GETDEL(k) : k \in AnyKey}
           R18 == {GETEX(k, e) : k \in AnyKey, e \in Seconds}
           R19 == {GETPERSIST(k) : k \in AnyKey}
           R20 == {CAS(k, old, v, e) : k \in AnyKey, old \in Vals, v \in Vals, e \in Seconds}
           R21 == {CAD(k, old) : k \in AnyKey, old \in Vals}
           R22 == {INCR(k, n) : k \in AnyKey, n \in Numbers}
           R23 == {DECR(k, n) : k \in AnyKey, n \in Numbers}
           R24 == {INCRLIMIT(k, n, High) : k \in AnyKey, n \in Numbers}
           R25 == {DECRLIMIT(k, n, Low) : k \in AnyKey, n \in Numbers}
           R26 == {INCRTO(k, n) : k \in AnyKey, n \in Numbers}
           R27 == {DECRTO(k, n) : k \in AnyKey, n \in Numbers}
<1>6. Requests = UNION {R1, R2, R3, R4, R5, R6, R7, R8, R9, R10, R11, R12, R13, R14, R15,
                        R16, R17, R18, R19, R20, R21, R22, R23, R24, R25, R26, R27}
  BY DEF Requests
<1>7. r \in R1 \cup R2 \cup R3 \cup R4 => Inserts(r)
  BY SETWrites
<1>8. ASSUME r \in R5 PROVE Inserts(r)
  <2>1. PICK n \in Names, s \in Subs \cup {NoKey}, v \in Vals, e \in Seconds : r = HSET(n, s, v, e)
    BY <1>8
  <2> QED BY <2>1, HashWrites
<1>9. r \in R6 => Inserts(r)
  BY HashWrites
<1>10. r \in R7 \cup R8 \cup R9 => Inserts(r)
  BY <1>3, GroupWrites
<1>11. r \in R10 => Inserts(r)
  BY <1>4
<1>12. r \in R11 => Inserts(r)
  BY <1>5
<1>13. r \in R12 => Inserts(r)
  BY ValueWrites
<1>14. r \in R13 => Inserts(r)
  BY ExpiringWrites
<1>15. r \in R14 => Inserts(r)
  BY KeepingWrites
<1>16. r \in R15 => Inserts(r)
  BY <1>2, KeepingWrites
<1>17. r \in R16 => Inserts(r)
  BY ValueWrites
<1>18. r \in R17 => Inserts(r)
  BY KeepingWrites
<1>19. r \in R18 => Inserts(r)
  BY ExpiringWrites
<1>20. r \in R19 => Inserts(r)
  BY KeepingWrites
<1>21. r \in R20 \cup R21 => Inserts(r)
  BY ComparingWrites
<1>22. r \in R22 \cup R23 \cup R24 \cup R25 \cup R26 \cup R27 => Inserts(r)
  <2> SUFFICES ASSUME NEW k \in AnyKey, NEW n \in Numbers,
                      r \in {INCR(k, n), DECR(k, n), INCRLIMIT(k, n, High), DECRLIMIT(k, n, Low),
                             INCRTO(k, n), DECRTO(k, n)}
               PROVE  Inserts(r)
    OBVIOUS
  <2> QED BY CountingWrites
<1> HIDE DEF R1, R2, R3, R4, R5, R6, R7, R8, R9, R10, R11, R12, R13, R14, R15,
            R16, R17, R18, R19, R20, R21, R22, R23, R24, R25, R26, R27
<1> QED BY <1>6, <1>7, <1>8, <1>9, <1>10, <1>11, <1>12, <1>13, <1>14, <1>15, <1>16,
          <1>17, <1>18, <1>19, <1>20, <1>21, <1>22

-----------------------------------------------------------------------------
(* Times.                                                                    *)

LEMMA SecondsWritten ==
  ASSUME NEW e \in Expiration
  PROVE  e \in Nat /\ e * Usecs \in Nat
BY Expirations, NowFound, Products

(* A copy lasts as long as the pair, but for its last second, and is not      *)
(* written for longer than the pair may have.                                *)
LEMMA TimeLeft ==
  ASSUME NEW p \in Pair, p.exp # TombstoneMark, NEW t \in Nat, p.created <= t
  PROVE  /\ getTTL(p, t) \in Expiration
         /\ getTTL(p, t) = 0 \/ (/\ p.exp # 0
                                 /\ p.created + p.exp * Usecs <= t + getTTL(p, t) * Usecs + Usecs
                                 /\ t <= p.created + p.exp * Usecs
                                 /\ getTTL(p, t) = now32((p.created + p.exp * Usecs) - t))
<1> DEFINE end  == p.created + p.exp * Usecs
           left == end - t
<1>1. p.exp \in Expiration /\ p.created \in Nat /\ Usecs \in Nat \ {0}
  BY NowFound DEF Pair
<1>2. p.exp \in Nat /\ p.exp * Usecs \in Nat
  BY <1>1, SecondsWritten
<1>3. CASE p.exp = 0 \/ end < t
  BY <1>3, Expirations DEF getTTL
<1>4. CASE ~ (p.exp = 0 \/ end < t)
  <2>1. left \in Nat /\ left <= p.exp * Usecs /\ t <= end
    BY <1>1, <1>2, <1>4
  <2>2. getTTL(p, t) = left \div Usecs /\ getTTL(p, t) = now32(end - t)
    BY <1>4 DEF getTTL, now32
  <2> HIDE DEF left
  <2>3. left \div Usecs \in Nat /\ left < (left \div Usecs) * Usecs + Usecs
    BY <1>1, <2>1, Quotient
  <2>4. left \div Usecs <= p.exp
    <3>1. left \div Usecs <= (p.exp * Usecs) \div Usecs
      BY <1>1, <1>2, <2>1, QuotientGrows
    <3>2. (0 + p.exp * Usecs) \div Usecs = (0 \div Usecs) + p.exp
      BY <1>1, <1>2, QuotientOfMore
    <3>3. 0 + p.exp * Usecs = p.exp * Usecs /\ 0 \div Usecs = 0
      BY <1>1, <1>2
    <3> QED BY <1>2, <3>1, <3>2, <3>3
  <2>5. getTTL(p, t) \in Expiration
    BY <1>1, <2>2, <2>3, <2>4, Expirations
  <2>6. (left \div Usecs) * Usecs \in Nat
    BY <1>1, <2>3
  <2>7. end <= t + (left \div Usecs) * Usecs + Usecs
    BY <1>1, <1>2, <2>1, <2>3, <2>6 DEF left
  <2> QED BY <1>4, <2>1, <2>2, <2>5, <2>7
<1> QED BY <1>3, <1>4

(* The clock of the next command that reads it twice.                        *)
Later(t) == t \in now .. now + 1 /\ t <= MaxTime

LEMMA LaterFound ==
  ASSUME Types, NEW t, Later(t)
  PROVE  t \in 1 .. MaxTime /\ t \in Nat /\ now <= t /\ now \in Nat
BY NowFound DEF Types, Later

LEMMA CopyWrites ==
  ASSUME Types, NEW k \in Key, NEW neo \in Key, NEW t, Later(t), getPairOK(k)
  PROVE  CopyWrite(k, neo, t) \in Insertion
<1>1. db[k] \in Pair /\ db[k].created <= now
  BY DEF Types
<1>2. db[k].exp # TombstoneMark
  BY DEF getPairOK, isOK, isTombstone
<1>3. t \in Nat /\ db[k].created <= t
  <2>1. db[k].created \in Nat
    BY <1>1, NowFound DEF Pair
  <2> QED BY <1>1, <2>1, LaterFound
<1>4. getTTL(db[k], t) \in Expiration
  BY <1>1, <1>2, <1>3, TimeLeft
<1>5. db[k].val \in Text
  BY <1>1 DEF Pair
<1> QED BY <1>4, <1>5, Insertions DEF CopyWrite

LEMMA CopyResult ==
  ASSUME NEW k \in Key, NEW neo \in AnyKey, NEW nx, NEW ws
  PROVE  \/ cpmv(k, neo, nx, ws).w = <<>>
         \/ cpmv(k, neo, nx, ws).w = ws /\ neo \in Key /\ k # neo /\ getPairOK(k)
<1>1. CASE ~ (isKeyValid(k) /\ isKeyValid(neo)) \/ k = neo
  BY <1>1, Results DEF cpmv
<1>2. CASE ~ (~ (isKeyValid(k) /\ isKeyValid(neo)) \/ k = neo)
  <2>1. neo \in Key /\ k # neo
    BY <1>2, AnyKeys
  <2>2. CASE (nx /\ getPairOK(neo)) \/ ~ getPairOK(k)
    BY <1>2, <2>2, Results DEF cpmv
  <2>3. CASE ~ ((nx /\ getPairOK(neo)) \/ ~ getPairOK(k))
    BY <1>2, <2>1, <2>3, Results DEF cpmv
  <2> QED BY <2>2, <2>3
<1> QED BY <1>1, <1>2

LEMMA CopyInserts ==
  ASSUME Types, NEW k \in Key, NEW neo \in AnyKey, NEW t, Later(t)
  PROVE  /\ Inserts(COPY(k, neo, t)) /\ Inserts(COPYNX(k, neo, t))
         /\ Inserts(RENAME(k, neo, t)) /\ Inserts(RENAMENX(k, neo, t))
<1> DEFINE w == CopyWrite(k, neo, t)
<1>1. neo \in Key /\ getPairOK(k) => <<w>> \in Seq(Insertion) /\ <<w, Erase(k)>> \in Seq(Insertion)
  <2> SUFFICES ASSUME neo \in Key, getPairOK(k) PROVE w \in Insertion /\ Erase(k) \in Insertion
    OBVIOUS
  <2> QED BY CopyWrites, Insertions
<1> HIDE DEF w
<1>2. ASSUME NEW nx, NEW ws, neo \in Key /\ getPairOK(k) => ws \in Seq(Insertion)
      PROVE  Inserts(cpmv(k, neo, nx, ws))
  <2> DEFINE r == cpmv(k, neo, nx, ws)
  <2>1. r.w = <<>> \/ (r.w = ws /\ neo \in Key /\ k # neo /\ getPairOK(k))
    BY CopyResult
  <2> HIDE DEF r
  <2>2. <<>> \in Seq(Insertion)
    OBVIOUS
  <2>3. r.w \in Seq(Insertion)
    BY <1>2, <2>1, <2>2
  <2> QED BY <2>3 DEF Inserts, r
<1>3. \A nx : Inserts(cpmv(k, neo, nx, <<w>>)) /\ Inserts(cpmv(k, neo, nx, <<w, Erase(k)>>))
  BY <1>1, <1>2
<1> QED BY <1>3 DEF COPY, COPYNX, RENAME, RENAMENX, w

LEMMA ExpireAtWrites ==
  ASSUME Types, NEW k \in Key, NEW time \in Seconds, NEW t, Later(t)
  PROVE  Inserts(EXPIREAT(k, time, t)) /\ Inserts(GETEXAT(k, time, t))
<1>1. ExpireAtWrite(k, time, t) \in Insertion
  <2>1. db[k].val \in Text
    BY DEF Types, Pair
  <2>2. now \in Nat /\ t \in Nat /\ t \in now .. now + 1 /\ now <= t /\ Usecs \in Nat \ {0}
    BY LaterFound, NowFound DEF Later
  <2>3. CASE now32(now) >= time
    BY <2>3, Insertions DEF ExpireAtWrite
  <2>4. CASE ~ (now32(now) >= time)
    <3> DEFINE q == now \div Usecs
               r == t \div Usecs
    <3>1. q \in Nat /\ now < q * Usecs + Usecs /\ r \in Nat /\ r * Usecs <= t
      BY <2>2, Quotient
    <3>2. time \in Nat /\ time \in Expiration
      BY ConstantsAssumption, Expirations
    <3>3. q < time
      BY <2>4, <3>1, <3>2 DEF now32
    <3> HIDE DEF q, r
    <3>4. r <= q + 1
      <4> SUFFICES ASSUME q + 2 <= r PROVE FALSE
        BY <3>1
      <4>1. (q + 2) * Usecs <= r * Usecs /\ (q + 2) * Usecs \in Nat /\ r * Usecs \in Nat
        BY <2>2, <3>1, Products
      <4>2. (q + 2) * Usecs = q * Usecs + Usecs + Usecs /\ q * Usecs \in Nat
        BY <2>2, <3>1
      <4> QED BY <2>2, <3>1, <4>1, <4>2
    <3>5. time - r \in Nat /\ time - r <= time
      BY <3>1, <3>2, <3>3, <3>4
    <3>6. time - now32(t) \in Expiration
      BY <3>2, <3>5, Expirations DEF now32, r
    <3> QED BY <2>1, <2>4, <3>6, Insertions DEF ExpireAtWrite
  <2> QED BY <2>3, <2>4
<1> DEFINE w == ExpireAtWrite(k, time, t)
<1> HIDE DEF w
<1>2. isKeyValid(k)
  BY KeysFound
<1>3. w \in Insertion
  BY <1>1 DEF w
<1>4. Inserts(EXPIREAT(k, time, t))
  BY <1>2, <1>3, Results DEF EXPIREAT, w
<1>5. Inserts(GETEXAT(k, time, t))
  BY <1>2, <1>3, Results DEF GETEXAT, processGet, w
<1> QED BY <1>4, <1>5

-----------------------------------------------------------------------------
(* Types.                                                                    *)

LEMMA InitTypes == CInit => Types
<1> SUFFICES ASSUME CInit PROVE Types
  OBVIOUS
<1>1. /\ MaxTime \in Nat \ {0} /\ Usecs \in Nat \ {0} /\ IntMax \in Nat /\ IntMin = - IntMax - 1
  BY ConstantsAssumption
<1>2. db \in [Key -> Pair] /\ \A k \in Key : db[k].created <= now
  BY AbsentPair DEF CInit, Init, Absent
<1>3. asked \in [Clients -> Request] /\ \A c \in Clients : asked[c].sent <= now
  BY <1>1 DEF CInit, Init, None, Request
<1>4. holds \in [Clients -> Nat] /\ \A c \in Clients : holds[c] <= now + Usecs
  BY <1>1 DEF CInit, Init
<1>5. todo \in Seq(Insertion) /\ now \in 1 .. MaxTime /\ mark \in IntMin .. IntMax
  BY <1>1 DEF CInit, Init
<1> QED BY <1>2, <1>3, <1>4, <1>5 DEF CInit, Types

LEMMA Executed ==
  ASSUME NEW r, Inserts(r), Execute(r)
  PROVE  todo' \in Seq(Insertion) /\ db' = db
BY DEF Execute, Inserts

(* Time only adds to what is bounded by it.                                  *)
LEMMA TimeTypes ==
  ASSUME Types, now' \in now .. MaxTime
  PROVE  /\ now' \in 1 .. MaxTime /\ \A k \in Key : db[k].created <= now'
         /\ \A c \in Clients : asked[c].sent <= now' /\ holds[c] <= now' + Usecs
<1>1. /\ now \in Nat /\ now' \in Nat /\ now <= now' /\ now >= 1 /\ now' <= MaxTime /\ Usecs \in Nat
      /\ \A k \in Key : db[k].created \in Nat /\ db[k].created <= now
      /\ \A c \in Clients : asked[c].sent \in Nat /\ asked[c].sent <= now
                            /\ holds[c] \in Nat /\ holds[c] <= now + Usecs
  BY NowFound DEF Types, Pair, Request
<1> QED BY <1>1

LEMMA CommandTypes ==
  ASSUME Types, NEW r, Inserts(r), Execute(r), now' \in now .. MaxTime, UNCHANGED <<use, asked, holds, mark>>
  PROVE  Types'
<1>1. todo' \in Seq(Insertion) /\ db' = db
  BY Executed
<1> QED BY <1>1, TimeTypes DEF Types

LEMMA ServedTypes ==
  ASSUME Types, NEW c \in Clients
  PROVE  /\ Ask(c) => Types'
         /\ Serve(c) => Types'
         /\ Receive(c) => Types'
<1>1. /\ now \in 1 .. MaxTime /\ now \in Nat /\ Usecs \in Nat \ {0}
      /\ asked[c] \in Request /\ asked[c].sent \in Nat /\ asked[c].sent <= now
      /\ None \in Request /\ None.sent <= now
  <2>1. now \in 1 .. MaxTime /\ asked[c] \in Request /\ asked[c].sent <= now /\ MaxTime \in Nat /\ Usecs \in Nat \ {0}
    BY NowFound DEF Types
  <2>2. asked[c].sent \in Nat
    BY <2>1 DEF Request
  <2>3. None \in Request /\ None.sent = 0
    BY <2>1 DEF None, Request
  <2> QED BY <2>1, <2>2, <2>3
<1>2. ASSUME NEW q \in Request, q.sent <= now, asked' = [asked EXCEPT ![c] = q], now' = now
      PROVE  asked' \in [Clients -> Request] /\ \A d \in Clients : asked'[d].sent <= now'
  <2>1. asked \in [Clients -> Request] /\ \A d \in Clients : asked[d].sent <= now
    BY DEF Types
  <2>2. asked' \in [Clients -> Request] /\ \A d \in Clients : asked'[d] = IF d = c THEN q ELSE asked[d]
    BY <1>2, <2>1
  <2> QED BY <1>2, <2>1, <2>2
<1>3. ASSUME Ask(c) PROVE Types'
  <2>1. PICK op \in {"acquire", "extend", "release"} :
          /\ asked' = [asked EXCEPT ![c] = [op |-> op, sent |-> now]]
          /\ holds' = IF op = "release" THEN [holds EXCEPT ![c] = 0] ELSE holds
    BY <1>3 DEF Ask
  <2> DEFINE q == [op |-> op, sent |-> now]
  <2>2. q \in Request /\ q.sent <= now /\ asked' = [asked EXCEPT ![c] = q]
    BY <1>1, <2>1 DEF Request
  <2> HIDE DEF q
  <2>3. UNCHANGED <<db, now, todo, use, mark>>
    BY <1>3 DEF Ask, kvars
  <2>4. asked' \in [Clients -> Request] /\ \A d \in Clients : asked'[d].sent <= now'
    BY <1>2, <2>2, <2>3
  <2>5. holds' \in [Clients -> Nat] /\ \A d \in Clients : holds'[d] <= now' + Usecs
    BY <1>1, <2>1, <2>3 DEF Types
  <2> QED BY <2>3, <2>4, <2>5 DEF Types
<1>4. ASSUME Serve(c) PROVE Types'
  <2>1. UNCHANGED <<now, use, holds, mark>> /\ Execute(LockResult(c))
    BY <1>4 DEF Serve
  <2>2. Inserts(LockResult(c))
    <3>1. isKeyValid(TheKey) /\ TheKey \in Key /\ Token(c) \in Seq(0 .. Minus)
      BY KeysFound, ClientsAssumption DEF Token, Minus
    <3>2. isValValid(Token(c)) => Normal(TheKey, Token(c), Lease) \in Insertion
      BY <3>1, Texts, Insertions, Expirations DEF Lease
    <3>3. Tombstone(TheKey) \in Insertion
      BY <3>1, Insertions
    <3>4. Inserts(SETNX(TheKey, Token(c), Lease))
      BY <3>2, Results DEF SETNX
    <3>5. Inserts(CAS(TheKey, Token(c), Token(c), Lease))
      BY <3>2, Results DEF CAS, isValValidNZ
    <3>6. Inserts(CAD(TheKey, Token(c)))
      BY <3>3, Results DEF CAD
    <3> QED BY <3>4, <3>5, <3>6 DEF LockResult
  <2>3. todo' \in Seq(Insertion) /\ db' = db
    BY <2>1, <2>2, Executed
  <2>4. PICK q \in {[asked[c] EXCEPT !.op = "granted"], None} : asked' = [asked EXCEPT ![c] = q]
    BY <1>4 DEF Serve
  <2>5. q \in Request /\ q.sent <= now
    <3>1. [asked[c] EXCEPT !.op = "granted"] \in Request /\ [asked[c] EXCEPT !.op = "granted"].sent = asked[c].sent
      BY <1>1 DEF Request
    <3> QED BY <1>1, <2>4, <3>1
  <2>6. asked' \in [Clients -> Request] /\ \A d \in Clients : asked'[d].sent <= now'
    BY <1>2, <2>1, <2>4, <2>5
  <2> QED BY <2>1, <2>3, <2>6 DEF Types
<1>5. ASSUME Receive(c) PROVE Types'
  <2>1. /\ holds' = [holds EXCEPT ![c] = asked[c].sent + Usecs]
        /\ asked' = [asked EXCEPT ![c] = None]
        /\ UNCHANGED <<db, now, todo, use, mark>>
    <3>1. Lease * Usecs = Usecs
      BY <1>1 DEF Lease
    <3> QED BY <1>5, <3>1 DEF Receive, kvars
  <2>2. None \in Request /\ None.sent <= now
    BY <1>1
  <2>3. asked' \in [Clients -> Request] /\ \A d \in Clients : asked'[d].sent <= now'
    BY <1>2, <2>1, <2>2
  <2>4. holds' \in [Clients -> Nat] /\ \A d \in Clients : holds'[d] <= now' + Usecs
    BY <1>1, <2>1 DEF Types
  <2> QED BY <2>1, <2>3, <2>4 DEF Types
<1> QED BY <1>3, <1>4, <1>5

LEMMA WriteTypes ==
  ASSUME Types, ServerWrites
  PROVE  /\ Types' /\ Head(todo) \in Insertion
         /\ todo # <<>> /\ Insert(Head(todo)) /\ todo' = Tail(todo)
<1>1. /\ todo # <<>> /\ Insert(Head(todo)) /\ todo' = Tail(todo)
      /\ UNCHANGED <<now, use, asked, holds>>
  BY DEF ServerWrites, Write
<1>2. todo \in Seq(Insertion)
  BY DEF Types
<1>3. Head(todo) \in Insertion /\ todo' \in Seq(Insertion)
  BY <1>1, <1>2
<1>4. db' \in [Key -> Pair] /\ \A k \in Key : db'[k].created <= now
  BY <1>1, <1>3, InsertDone
<1>5. mark' \in IntMin .. IntMax
  <2>1. from_string(Head(todo).val) \in IntMin .. IntMax
    BY ConstantsAssumption DEF from_string
  <2> QED BY <2>1 DEF ServerWrites, Types
<1> QED BY <1>1, <1>3, <1>4, <1>5 DEF Types

LEMMA DeathTypes ==
  ASSUME Types, ServerDies
  PROVE  /\ Types' /\ todo' = <<>> /\ UNCHANGED <<now, use, holds, mark, moving>>
         /\ \A k \in Key : SamePair(db'[k], db[k])
         /\ \A c \in Clients : asked'[c] = IF asked[c].op = "granted" THEN None ELSE asked[c]
<1>1. /\ db' = Flushed(db) /\ todo' = <<>> /\ UNCHANGED <<now, use, holds, mark, moving>>
      /\ asked' = [c \in Clients |-> IF asked[c].op = "granted" THEN None ELSE asked[c]]
  BY DEF ServerDies, Crash
<1>2. db' \in [Key -> Pair] /\ \A k \in Key : SamePair(db'[k], db[k])
  BY <1>1, FlushKeepsPairs DEF Types
<1>3. \A c \in Clients : asked[c] \in Request /\ asked[c].sent <= now /\ None \in Request /\ None.sent <= now
  BY NowFound DEF Types, None, Request
<1>4. asked' \in [Clients -> Request] /\ \A c \in Clients : asked'[c].sent <= now'
  BY <1>1, <1>3
<1>5. Types'
  BY <1>1, <1>2, <1>4 DEF Types, SamePair
<1> QED BY <1>1, <1>2, <1>5

LEMMA ReadsAnswer ==
  ASSUME NEW r \in Reads
  PROVE  \E a : r = Answer(a)
<1> DEFINE A1 == {Answer(GET(k)) : k \in AnyKey}
           A2 == {Answer(EXISTS(k)) : k \in AnyKey}
           A3 == {Answer(TTL(k)) : k \in AnyKey}
           A4 == {Answer(EXPIRETIME(k)) : k \in AnyKey}
           A5 == {Answer(STRLEN(k)) : k \in AnyKey}
           A6 == {Answer(SIZEOF(k)) : k \in AnyKey}
           A7 == {Answer(DUMP(k)) : k \in Key}
           A8 == {Answer(GETRANGE(k, x, y)) : k \in AnyKey, x \in 0 .. 2, y \in 0 .. 2}
           A9 == {Answer(HGET(n, s)) : n \in Names, s \in Subs}
           A10 == {Answer(HEXISTS(n, s)) : n \in Names, s \in Subs}
           A11 == {Answer(FlattenSeq(MGET(ks))) : ks \in Key \X Key}
           A12 == {Answer(FlattenSeq(HMGET(n, ss))) : n \in Names, ss \in {<<s>> : s \in Subs}}
<1>1. Reads = UNION {A1, A2, A3, A4, A5, A6, A7, A8, A9, A10, A11, A12}
  BY DEF Reads
<1>2. r \in A1 => \E a : r = Answer(a)
  OBVIOUS
<1>3. r \in A2 => \E a : r = Answer(a)
  OBVIOUS
<1>4. r \in A3 => \E a : r = Answer(a)
  OBVIOUS
<1>5. r \in A4 => \E a : r = Answer(a)
  OBVIOUS
<1>6. r \in A5 => \E a : r = Answer(a)
  OBVIOUS
<1>7. r \in A6 => \E a : r = Answer(a)
  OBVIOUS
<1>8. r \in A7 => \E a : r = Answer(a)
  OBVIOUS
<1>9. r \in A8 => \E a : r = Answer(a)
  OBVIOUS
<1>10. r \in A9 => \E a : r = Answer(a)
  OBVIOUS
<1>11. r \in A10 => \E a : r = Answer(a)
  OBVIOUS
<1>12. r \in A11 => \E a : r = Answer(a)
  OBVIOUS
<1>13. r \in A12 => \E a : r = Answer(a)
  OBVIOUS
<1> HIDE DEF A1, A2, A3, A4, A5, A6, A7, A8, A9, A10, A11, A12
<1> QED BY <1>1, <1>2, <1>3, <1>4, <1>5, <1>6, <1>7, <1>8, <1>9, <1>10, <1>11, <1>12, <1>13

LEMMA NextTypes ==
  ASSUME Types, [CNext]_vars
  PROVE  Types'
<1>0. now \in now .. MaxTime /\ now + 1 \in Nat /\ now \in Nat
  BY NowFound DEF Types
<1>1. ASSUME AnyCommand PROVE Types'
  <2>1. PICK r \in Requests : Execute(r)
    BY <1>1 DEF AnyCommand
  <2>2. Inserts(r)
    BY RequestWrites DEF Types
  <2> QED BY <1>0, <1>1, <2>1, <2>2, CommandTypes DEF AnyCommand
<1>2. ASSUME AnyRead PROVE Types'
  <2>1. PICK r \in Reads : Execute(r)
    BY <1>2 DEF AnyRead
  <2>2. \E a : r = Answer(a)
    BY ReadsAnswer
  <2>3. Inserts(r)
    BY <2>2, Results
  <2> QED BY <1>0, <1>2, <2>1, <2>3, CommandTypes DEF AnyRead, cvars
<1>3. ASSUME AnyExpireAt PROVE Types'
  <2>1. PICK k \in Key, time \in Seconds, t \in now .. now + 1 :
          /\ t <= MaxTime /\ now' = t
          /\ Execute(EXPIREAT(k, time, t)) \/ Execute(GETEXAT(k, time, t))
    BY <1>3 DEF AnyExpireAt
  <2>2. Later(t) /\ now' \in now .. MaxTime
    BY <1>0, <2>1 DEF Later
  <2>3. Inserts(EXPIREAT(k, time, t)) /\ Inserts(GETEXAT(k, time, t))
    BY <2>2, ExpireAtWrites
  <2> QED BY <1>3, <2>1, <2>2, <2>3, CommandTypes DEF AnyExpireAt
<1>4. ASSUME AnyCopy PROVE Types'
  <2>1. PICK k \in Key, l \in AnyKey, t \in now .. now + 1 :
          /\ t <= MaxTime /\ now' = t
          /\ \E r \in {COPY(k, l, t), COPYNX(k, l, t)} : Execute(r)
    BY <1>4 DEF AnyCopy
  <2>2. Later(t) /\ now' \in now .. MaxTime
    BY <1>0, <2>1 DEF Later
  <2>3. Inserts(COPY(k, l, t)) /\ Inserts(COPYNX(k, l, t))
    BY <2>2, CopyInserts
  <2> QED BY <1>4, <2>1, <2>2, <2>3, CommandTypes DEF AnyCopy
<1>5. ASSUME AnyRename PROVE Types'
  <2>1. PICK k \in Key, l \in AnyKey, t \in now .. now + 1 :
          /\ t <= MaxTime /\ now' = t
          /\ \E r \in {RENAME(k, l, t), RENAMENX(k, l, t)} : Execute(r)
    BY <1>5 DEF AnyRename
  <2>2. Later(t) /\ now' \in now .. MaxTime
    BY <1>0, <2>1 DEF Later
  <2>3. Inserts(RENAME(k, l, t)) /\ Inserts(RENAMENX(k, l, t))
    BY <2>2, CopyInserts
  <2> QED BY <1>5, <2>1, <2>2, <2>3, CommandTypes DEF AnyRename
<1>6. ASSUME NEW c \in Clients, Ask(c) \/ Serve(c) \/ Receive(c) PROVE Types'
  BY <1>6, ServedTypes
<1>7. ASSUME Count \/ Raise PROVE Types'
  <2>1. PICK n \in Numbers :
          \E r \in {INCRLIMIT(TheKey, n, High), DECRLIMIT(TheKey, n, Low), INCRTO(Other, n)} : Execute(r)
    BY <1>7 DEF Count, Raise
  <2>2. TheKey \in AnyKey /\ Other \in AnyKey
    BY KeysFound DEF AnyKey
  <2>3. Inserts(INCRLIMIT(TheKey, n, High)) /\ Inserts(DECRLIMIT(TheKey, n, Low)) /\ Inserts(INCRTO(Other, n))
    BY <2>2, CountingWrites
  <2> QED BY <1>0, <1>7, <2>1, <2>3, CommandTypes DEF Count, Raise, cvars
<1>8. ASSUME ServerWrites PROVE Types'
  BY <1>8, WriteTypes
<1>9. ASSUME ServerDies PROVE Types'
  BY <1>9, DeathTypes
<1>10. ASSUME TimePasses PROVE Types'
  <2>1. now' \in now .. MaxTime /\ UNCHANGED <<db, todo, asked, holds, mark, use>>
    BY <1>0, <1>10, NowFound DEF TimePasses, Tick, cvars
  <2> QED BY <2>1, TimeTypes DEF Types
<1>11. CASE UNCHANGED vars
  BY <1>11 DEF vars, kvars, cvars, Types
<1> QED BY <1>1, <1>2, <1>3, <1>4, <1>5, <1>6, <1>7, <1>8, <1>9, <1>10, <1>11 DEF CNext

LEMMA OneUseKept ==
  ASSUME OneUse, [CNext]_vars
  PROVE  OneUse'
<1>1. ASSUME AnyCommand \/ AnyRead \/ AnyExpireAt \/ AnyCopy \/ AnyRename PROVE OneUse'
  <2>1. use = "any" /\ UNCHANGED <<use, asked, holds>>
    BY <1>1 DEF AnyCommand, AnyRead, AnyExpireAt, AnyCopy, AnyRename, Counts, cvars
  <2> QED BY <2>1 DEF OneUse
<1>2. ASSUME NEW c \in Clients, Ask(c) \/ Serve(c) \/ Receive(c) PROVE OneUse'
  <2>1. use = "lock" /\ UNCHANGED <<use, moving>>
    BY <1>2 DEF Ask, Serve, Receive, OneUse
  <2> QED BY <2>1 DEF OneUse
<1>3. ASSUME Count \/ Raise \/ TimePasses \/ UNCHANGED vars PROVE OneUse'
  <2>1. UNCHANGED <<use, moving, asked, holds>>
    BY <1>3 DEF Count, Raise, TimePasses, vars, cvars
  <2> QED BY <2>1 DEF OneUse
<1>4. ASSUME ServerWrites PROVE OneUse'
  BY <1>4 DEF ServerWrites, OneUse
<1>5. ASSUME ServerDies PROVE OneUse'
  BY <1>5 DEF ServerDies, OneUse
<1> QED BY <1>1, <1>2, <1>3, <1>4, <1>5 DEF CNext

-----------------------------------------------------------------------------
(* The lock.                                                                 *)

LEMMA Tokens ==
  ASSUME NEW c, NEW d, c # d
  PROVE  Token(c) # Token(d) /\ Token(c) # <<>>
BY DEF Token

LEMMA Seen ==
  ASSUME Types
  PROVE  /\ now \in Nat /\ now >= 1 /\ Usecs \in Nat \ {0}
         /\ \A c \in Clients : /\ asked[c] \in Request /\ asked[c].sent \in Nat /\ asked[c].sent <= now
                               /\ Promised(c) \in Nat /\ Promised(c) <= now + Usecs
                               /\ holds[c] \in Nat /\ holds[c] <= now + Usecs
         /\ db[TheKey].created \in Nat
BY NowFound, KeysFound DEF Types, Request, Promised, Pair

(* A lease that lasts can be read.                                           *)
LEMMA OwnedIsRead ==
  ASSUME Types, NEW c \in Clients, NEW t \in Nat, Owned(c, t), now <= t
  PROVE  getPairOK(TheKey)
<1>1. /\ db[TheKey].val = Token(c) /\ db[TheKey].exp = 1 /\ t <= db[TheKey].created + Usecs
      /\ Token(c) # <<>>
  BY DEF Owned, Lease, Token
<1>2. 1 * Usecs = Usecs /\ now \in Nat /\ db[TheKey].created \in Nat /\ Usecs \in Nat
  BY Seen
<1>3. ~ isExpired(db[TheKey], now)
  BY <1>1, <1>2 DEF isExpired
<1> QED BY <1>1, <1>3 DEF getPairOK, isOK, isTombstone, TombstoneMark

(* Where the server finds no lock, or c's own, nobody else believes to have it. *)
LEMMA OthersFree ==
  ASSUME Types, LockHeld, LockPromised, todo = <<>>,
         NEW c \in Clients, NEW d \in Clients, d # c,
         ~ getPairOK(TheKey) \/ db[TheKey].val = Token(c)
  PROVE  Free(d)
<1>1. now \in Nat /\ holds[d] \in Nat /\ Promised(d) \in Nat
  BY Seen
<1>2. ASSUME NEW t \in Nat, Owned(d, t), now <= t PROVE FALSE
  <2>1. getPairOK(TheKey)
    BY <1>2, OwnedIsRead
  <2>2. db[TheKey].val = Token(d)
    BY <1>2 DEF Owned
  <2> QED BY <2>1, <2>2, Tokens
<1>3. now > holds[d]
  BY <1>1, <1>2 DEF LockHeld
<1>4. asked[d].op = "granted" => now > Promised(d)
  BY <1>1, <1>2 DEF LockPromised
<1> QED BY <1>3, <1>4 DEF Free

(* What the server answers to a request for the lock, and does for it.       *)
LEMMA LockServed ==
  ASSUME NEW c \in Clients, asked[c].op \in {"acquire", "extend", "release"}
  PROVE  LET r == LockResult(c)
         IN  \/ /\ asked[c].op # "release" /\ r.a = Bool(TRUE)
                /\ r.w = <<Normal(TheKey, Token(c), Lease)>>
                /\ ~ getPairOK(TheKey) \/ db[TheKey].val = Token(c)
             \/ /\ asked[c].op = "release"
                /\ r.w = <<Tombstone(TheKey)>> /\ db[TheKey].val = Token(c)
             \/ r.w = <<>> /\ (asked[c].op = "release" \/ r.a # Bool(TRUE))
<1> DEFINE r == LockResult(c)
<1>1. /\ Reject.w = <<>> /\ Reject.a # Bool(TRUE)
      /\ Answer(Bool(FALSE)).w = <<>> /\ Answer(Bool(FALSE)).a # Bool(TRUE)
      /\ \A ws : Writes(ws, Bool(TRUE)).w = ws /\ Writes(ws, Bool(TRUE)).a = Bool(TRUE)
  <2>1. Bool(FALSE) # Bool(TRUE) /\ <<Err>> # Bool(TRUE) /\ Reject.a = <<Err>>
    BY Results DEF Bool, Err, Reject
  <2> QED BY <2>1, Results
<1>2. CASE asked[c].op = "acquire"
  <2>1. r = SETNX(TheKey, Token(c), Lease)
    BY <1>2 DEF LockResult
  <2>2. \/ r = Reject \/ r = Answer(Bool(FALSE))
        \/ r = Writes(<<Normal(TheKey, Token(c), Lease)>>, Bool(TRUE)) /\ ~ getPairOK(TheKey)
    BY <2>1 DEF SETNX
  <2> HIDE DEF r
  <2>3. \/ r.w = <<>> /\ r.a # Bool(TRUE)
        \/ /\ r.a = Bool(TRUE) /\ r.w = <<Normal(TheKey, Token(c), Lease)>> /\ ~ getPairOK(TheKey)
    BY <1>1, <2>2
  <2> QED BY <1>2, <2>3 DEF r
<1>3. CASE asked[c].op = "extend"
  <2>1. r = CAS(TheKey, Token(c), Token(c), Lease)
    BY <1>3 DEF LockResult
  <2>2. \/ r = Reject \/ r = Answer(Bool(FALSE))
        \/ r = Writes(<<Normal(TheKey, Token(c), Lease)>>, Bool(TRUE)) /\ db[TheKey].val = Token(c)
    BY <2>1 DEF CAS
  <2> HIDE DEF r
  <2>3. \/ r.w = <<>> /\ r.a # Bool(TRUE)
        \/ /\ r.a = Bool(TRUE) /\ r.w = <<Normal(TheKey, Token(c), Lease)>> /\ db[TheKey].val = Token(c)
    BY <1>1, <2>2
  <2> QED BY <1>3, <2>3 DEF r
<1>4. CASE asked[c].op = "release"
  <2>1. r = CAD(TheKey, Token(c))
    BY <1>4 DEF LockResult
  <2>2. \/ r = Reject \/ r = Answer(Bool(FALSE))
        \/ r = Writes(<<Tombstone(TheKey)>>, Bool(TRUE)) /\ db[TheKey].val = Token(c)
    BY <2>1 DEF CAD
  <2> HIDE DEF r
  <2>3. \/ r.w = <<>>
        \/ r.w = <<Tombstone(TheKey)>> /\ db[TheKey].val = Token(c)
    BY <1>1, <2>2
  <2> QED BY <1>4, <2>3 DEF r
<1> QED BY <1>2, <1>3, <1>4

LEMMA AskKeepsLock ==
  ASSUME Types, LockInv, NEW c \in Clients, Ask(c)
  PROVE  LockInv'
<1>1. PICK op \in {"acquire", "extend", "release"} :
        /\ asked' = [asked EXCEPT ![c] = [op |-> op, sent |-> now]]
        /\ holds' = IF op = "release" THEN [holds EXCEPT ![c] = 0] ELSE holds
  BY DEF Ask
<1>2. use = "lock" /\ asked[c].op = "none" /\ UNCHANGED <<db, now, todo, use>>
  BY DEF Ask, None, kvars
<1>3. LockHeld /\ LockPromised /\ LockReleased /\ LockWriting
  BY <1>2 DEF LockInv
<1>4. /\ asked \in [Clients -> Request] /\ holds \in [Clients -> Nat]
      /\ now \in Nat /\ now >= 1
  BY Seen DEF Types
<1>5. /\ asked'[c].op # "granted" /\ (asked'[c].op = "release" => holds'[c] = 0)
      /\ holds'[c] = holds[c] \/ holds'[c] = 0
      /\ \A d \in Clients \ {c} : asked'[d] = asked[d] /\ holds'[d] = holds[d]
  BY <1>1, <1>4
<1>6. LockHeld'
  <2>1. ASSUME NEW d \in Clients, now <= holds'[d] PROVE holds'[d] = holds[d] /\ Owned(d, holds[d])
    <3>1. holds'[d] = holds[d]
      BY <1>4, <1>5, <2>1
    <3> QED BY <1>3, <2>1, <3>1 DEF LockHeld
  <2> QED BY <1>2, <2>1 DEF LockHeld, Owned
<1>7. LockPromised'
  <2> SUFFICES ASSUME NEW d \in Clients, asked'[d].op = "granted", todo' = <<>>, now' <= Promised(d)'
               PROVE  Owned(d, Promised(d))'
    BY DEF LockPromised
  <2>1. asked'[d] = asked[d] /\ Promised(d)' = Promised(d)
    BY <1>5 DEF Promised
  <2>2. Owned(d, Promised(d))
    BY <1>2, <1>3, <2>1 DEF LockPromised
  <2> QED BY <1>2, <2>1, <2>2 DEF Owned
<1>8. LockReleased'
  BY <1>3, <1>5 DEF LockReleased
<1>9. ASSUME NEW d \in Clients, Free(d) PROVE Free(d)'
  <2>1. CASE d = c
    BY <1>2, <1>4, <1>5, <1>9, <2>1 DEF Free
  <2>2. CASE d # c
    BY <1>2, <1>5, <1>9, <2>2 DEF Free, Promised
  <2> QED BY <2>1, <2>2
<1>10. LockWriting'
  <2>1. CASE todo = <<>>
    BY <1>2, <2>1 DEF LockWriting
  <2>2. CASE todo = <<Tombstone(TheKey)>> /\ \A d \in Clients : Free(d)
    BY <1>2, <1>9, <2>2 DEF LockWriting
  <2>3. ASSUME NEW e \in Clients, todo = <<Normal(TheKey, Token(e), Lease)>>,
               asked[e].op = "granted", \A d \in Clients \ {e} : Free(d)
        PROVE  LockWriting'
    <3>1. e # c /\ asked'[e].op = "granted"
      BY <1>2, <1>5, <2>3
    <3> QED BY <1>2, <1>9, <2>3, <3>1 DEF LockWriting
  <2> QED BY <1>3, <2>1, <2>2, <2>3 DEF LockWriting
<1> QED BY <1>6, <1>7, <1>8, <1>10 DEF LockInv

LEMMA ServeKeepsLock ==
  ASSUME Types, LockInv, NEW c \in Clients, Serve(c)
  PROVE  LockInv'
<1> DEFINE r == LockResult(c)
           granted == asked[c].op # "release" /\ r.a = Bool(TRUE)
<1>1. /\ use = "lock" /\ asked[c].op \in {"acquire", "extend", "release"}
      /\ todo = <<>> /\ todo' = r.w /\ UNCHANGED <<db, now, use, holds>>
      /\ asked' = [asked EXCEPT ![c] = IF granted THEN [asked[c] EXCEPT !.op = "granted"] ELSE None]
  BY DEF Serve, Execute
<1>2. LockHeld /\ LockPromised /\ LockReleased
  BY <1>1 DEF LockInv
<1>3. /\ asked \in [Clients -> Request] /\ asked[c] \in Request /\ now \in Nat /\ now >= 1
      /\ holds[c] \in Nat
  BY Seen DEF Types
<1>4. /\ asked'[c].op = IF granted THEN "granted" ELSE "none"
      /\ \A d \in Clients \ {c} : asked'[d] = asked[d]
  BY <1>1, <1>3 DEF None, Request
<1>5. \/ /\ granted /\ r.w = <<Normal(TheKey, Token(c), Lease)>>
         /\ ~ getPairOK(TheKey) \/ db[TheKey].val = Token(c)
      \/ ~ granted /\ asked[c].op = "release" /\ r.w = <<Tombstone(TheKey)>> /\ db[TheKey].val = Token(c)
      \/ ~ granted /\ r.w = <<>>
  BY <1>1, LockServed
<1> HIDE DEF r, granted
<1>6. LockHeld' /\ LockReleased'
  <2>1. LockHeld'
    BY <1>1, <1>2 DEF LockHeld, Owned
  <2>2. LockReleased'
    BY <1>1, <1>2, <1>4 DEF LockReleased
  <2> QED BY <2>1, <2>2
<1>7. LockPromised'
  <2> SUFFICES ASSUME NEW d \in Clients, asked'[d].op = "granted", todo' = <<>>, now' <= Promised(d)'
               PROVE  Owned(d, Promised(d))'
    BY DEF LockPromised
  <2>1. d # c
    BY <1>1, <1>4, <1>5
  <2>2. Promised(d)' = Promised(d) /\ asked[d].op = "granted"
    BY <1>4, <2>1 DEF Promised
  <2>3. Owned(d, Promised(d))
    BY <1>1, <1>2, <2>2 DEF LockPromised
  <2> QED BY <1>1, <2>2, <2>3 DEF Owned
<1>8. LockWriting'
  <2>1. ASSUME ~ getPairOK(TheKey) \/ db[TheKey].val = Token(c), NEW d \in Clients, d # c
        PROVE  Free(d)'
    <3>1. Free(d)
      BY <1>1, <1>2, <2>1, OthersFree
    <3> QED BY <1>1, <1>4, <2>1, <3>1 DEF Free, Promised
  <2>2. CASE /\ granted /\ r.w = <<Normal(TheKey, Token(c), Lease)>>
             /\ ~ getPairOK(TheKey) \/ db[TheKey].val = Token(c)
    BY <1>1, <1>4, <2>1, <2>2 DEF LockWriting
  <2>3. CASE ~ granted /\ asked[c].op = "release" /\ r.w = <<Tombstone(TheKey)>> /\ db[TheKey].val = Token(c)
    <3>1. holds[c] = 0
      BY <1>2, <2>3 DEF LockReleased
    <3>2. Free(c)'
      BY <1>1, <1>3, <1>4, <2>3, <3>1 DEF Free
    <3> QED BY <1>1, <2>1, <2>3, <3>2 DEF LockWriting
  <2>4. CASE ~ granted /\ r.w = <<>>
    BY <1>1, <2>4 DEF LockWriting
  <2> QED BY <1>5, <2>2, <2>3, <2>4
<1> QED BY <1>6, <1>7, <1>8 DEF LockInv

LEMMA ReceiveKeepsLock ==
  ASSUME Types, OneUse, LockInv, NEW c \in Clients, Receive(c)
  PROVE  LockInv'
<1>1. /\ asked[c].op = "granted" /\ todo = <<>> /\ UNCHANGED <<db, now, todo, use>>
      /\ holds' = [holds EXCEPT ![c] = asked[c].sent + Lease * Usecs]
      /\ asked' = [asked EXCEPT ![c] = None]
  BY DEF Receive, kvars
<1>2. asked[c].sent + Lease * Usecs = Promised(c)
  BY Seen DEF Lease, Promised
<1>3. use = "lock"
  BY <1>1 DEF OneUse
<1>4. LockHeld /\ LockPromised /\ LockReleased
  BY <1>3 DEF LockInv
<1>5. /\ asked'[c].op = "none" /\ holds'[c] = Promised(c)
      /\ \A d \in Clients \ {c} : asked'[d] = asked[d] /\ holds'[d] = holds[d]
  BY <1>1, <1>2 DEF Types, None
<1>6. LockHeld'
  <2>1. ASSUME NEW d \in Clients, now <= holds'[d] PROVE Owned(d, holds'[d])
    BY <1>1, <1>4, <1>5, <2>1 DEF LockHeld, LockPromised
  <2> QED BY <1>1, <2>1 DEF LockHeld, Owned
<1>7. LockPromised'
  <2> SUFFICES ASSUME NEW d \in Clients, asked'[d].op = "granted", now' <= Promised(d)'
               PROVE  Owned(d, Promised(d))'
    BY DEF LockPromised
  <2>1. d # c
    BY <1>5
  <2>2. Promised(d)' = Promised(d) /\ asked[d].op = "granted"
    BY <1>5, <2>1 DEF Promised
  <2>3. Owned(d, Promised(d))
    BY <1>1, <1>4, <2>2 DEF LockPromised
  <2> QED BY <1>1, <2>2, <2>3 DEF Owned
<1>8. LockReleased' /\ LockWriting'
  BY <1>1, <1>4, <1>5 DEF LockReleased, LockWriting
<1> QED BY <1>6, <1>7, <1>8 DEF LockInv

LEMMA WriteKeepsLock ==
  ASSUME Types, LockInv, ServerWrites
  PROVE  LockInv'
<1> SUFFICES ASSUME use' = "lock" PROVE LockInv'
  BY DEF LockInv
<1>1. use = "lock" /\ UNCHANGED <<now, asked, holds>> /\ todo # <<>> /\ todo' = Tail(todo)
  BY DEF ServerWrites, Write
<1>2. LockReleased /\ LockWriting
  BY <1>1 DEF LockInv
<1>3. Head(todo) \in Insertion /\ Insert(Head(todo))
  BY WriteTypes
<1>4. /\ now \in Nat /\ Usecs \in Nat
      /\ \A d \in Clients : /\ Promised(d) \in Nat /\ Promised(d) <= now + Usecs
                            /\ holds[d] \in Nat /\ holds[d] <= now + Usecs
  BY Seen
<1>5. ASSUME todo' = <<>>,
             \A d \in Clients : Free(d) \/ (Owned(d, holds[d])' /\ Owned(d, Promised(d))')
      PROVE  LockInv'
  <2>1. \A d \in Clients : Free(d) => ~ (now <= holds[d]) /\ ~ (asked[d].op = "granted" /\ now <= Promised(d))
    BY <1>4 DEF Free
  <2>2. LockHeld'
    BY <1>1, <1>5, <2>1 DEF LockHeld, Owned
  <2>3. \A d \in Clients : Promised(d)' = Promised(d)
    BY <1>1 DEF Promised
  <2>4. LockPromised'
    BY <1>1, <1>5, <2>1, <2>3 DEF LockPromised, Owned
  <2>5. LockReleased' /\ LockWriting'
    BY <1>1, <1>2, <1>5 DEF LockReleased, LockWriting
  <2> QED BY <2>2, <2>4, <2>5 DEF LockInv
<1>6. CASE todo = <<Tombstone(TheKey)>> /\ \A d \in Clients : Free(d)
  <2>1. todo' = <<>>
    BY <1>1, <1>6
  <2> QED BY <1>5, <1>6, <2>1
<1>7. ASSUME NEW c \in Clients, todo = <<Normal(TheKey, Token(c), Lease)>>,
             \A d \in Clients \ {c} : Free(d)
      PROVE  LockInv'
  <2>1. todo' = <<>> /\ Head(todo) = Normal(TheKey, Token(c), Lease)
    BY <1>1, <1>7
  <2>2. db'[TheKey].val = Token(c) /\ db'[TheKey].exp = Lease /\ db'[TheKey].created = now
    BY <1>3, <2>1, InsertDone DEF Normal
  <2>3. \A t \in Nat : t <= now + Usecs => Owned(c, t)'
    BY <1>1, <2>2 DEF Owned
  <2>4. holds[c] \in Nat /\ holds[c] <= now + Usecs /\ Promised(c) \in Nat /\ Promised(c) <= now + Usecs
    BY <1>4
  <2>5. holds'[c] = holds[c] /\ Promised(c)' = Promised(c)
    BY <1>1 DEF Promised
  <2>6. Owned(c, holds[c])' /\ Owned(c, Promised(c))'
    BY <1>1, <2>2, <2>4, <2>5 DEF Owned
  <2> QED BY <1>5, <1>7, <2>1, <2>6
<1> QED BY <1>1, <1>2, <1>6, <1>7 DEF LockWriting

LEMMA DeathKeepsLock ==
  ASSUME Types, LockInv, ServerDies
  PROVE  LockInv'
<1> SUFFICES ASSUME use' = "lock" PROVE LockInv'
  BY DEF LockInv
<1>1. /\ todo' = <<>> /\ UNCHANGED <<now, use, holds>> /\ SamePair(db'[TheKey], db[TheKey])
      /\ \A c \in Clients : asked'[c] = IF asked[c].op = "granted" THEN None ELSE asked[c]
  BY DeathTypes, KeysFound
<1>2. LockHeld /\ LockReleased
  BY <1>1 DEF LockInv
<1>3. \A c \in Clients : asked'[c].op # "granted" /\ (asked'[c].op = "release" => asked[c].op = "release")
  BY <1>1 DEF None
<1>4. LockHeld'
  BY <1>1, <1>2 DEF LockHeld, Owned, SamePair
<1>5. LockPromised'
  BY <1>3 DEF LockPromised
<1>6. LockReleased' /\ LockWriting'
  BY <1>1, <1>2, <1>3 DEF LockReleased, LockWriting
<1> QED BY <1>4, <1>5, <1>6 DEF LockInv

LEMMA TimeKeepsLock ==
  ASSUME Types, LockInv, TimePasses
  PROVE  LockInv'
<1> SUFFICES ASSUME use' = "lock" PROVE LockInv'
  BY DEF LockInv
<1>1. now' = now + 1 /\ UNCHANGED <<db, todo, use, asked, holds>>
  BY DEF TimePasses, Tick, cvars
<1>2. LockHeld /\ LockPromised /\ LockReleased /\ LockWriting
  BY <1>1 DEF LockInv
<1>3. now \in Nat /\ \A c \in Clients : holds[c] \in Nat /\ Promised(c) \in Nat /\ Promised(c)' = Promised(c)
  BY <1>1, Seen DEF Promised
<1>4. LockHeld'
  BY <1>1, <1>2, <1>3 DEF LockHeld, Owned
<1>5. LockPromised'
  <2> SUFFICES ASSUME NEW d \in Clients, asked'[d].op = "granted", todo' = <<>>, now' <= Promised(d)'
               PROVE  Owned(d, Promised(d))'
    BY DEF LockPromised
  <2>1. Owned(d, Promised(d))
    BY <1>1, <1>2, <1>3 DEF LockPromised
  <2> QED BY <1>1, <1>3, <2>1 DEF Owned
<1>6. \A d \in Clients : Free(d) => Free(d)'
  BY <1>1, <1>3 DEF Free
<1>7. LockReleased' /\ LockWriting'
  <2>1. LockReleased'
    BY <1>1, <1>2 DEF LockReleased
  <2>2. LockWriting'
    BY <1>1, <1>2, <1>6 DEF LockWriting
  <2> QED BY <2>1, <2>2
<1> QED BY <1>4, <1>5, <1>7 DEF LockInv

LEMMA LockKept ==
  ASSUME Types, OneUse, LockInv, [CNext]_vars
  PROVE  LockInv'
<1>1. ASSUME AnyCommand \/ AnyRead \/ AnyExpireAt \/ AnyCopy \/ AnyRename \/ Count \/ Raise PROVE LockInv'
  <2>1. use' # "lock"
    BY <1>1 DEF AnyCommand, AnyRead, AnyExpireAt, AnyCopy, AnyRename, Counts, Count, Raise, cvars
  <2> QED BY <2>1 DEF LockInv
<1>2. ASSUME NEW c \in Clients, Ask(c) \/ Serve(c) \/ Receive(c) PROVE LockInv'
  BY <1>2, AskKeepsLock, ServeKeepsLock, ReceiveKeepsLock
<1>3. CASE UNCHANGED vars
  BY <1>3 DEF LockInv, LockHeld, LockPromised, LockReleased, LockWriting, Owned, Promised, Free, vars, kvars, cvars
<1> QED BY <1>1, <1>2, <1>3, WriteKeepsLock, DeathKeepsLock, TimeKeepsLock DEF CNext

-----------------------------------------------------------------------------
(* The counters.                                                             *)

LEMMA Limits ==
  /\ Low \in Int /\ High \in Int /\ Low <= 0 /\ 0 <= High /\ High <= IntMax /\ IntMin <= Low
  /\ IntMin \in Int /\ IntMax \in Nat /\ IntMin < 0
  /\ Numbers \subseteq IntMin .. IntMax
BY ConstantsAssumption, ClientsAssumption

LEMMA AllowedNumbers ==
  ASSUME Types, NEW k \in {TheKey, Other}
  PROVE  Allowed(k) \subseteq IntMin .. IntMax
BY Limits DEF Types, Allowed

(* A counter that can be read is a number it may be; one that cannot was      *)
(* never written.                                                            *)
LEMMA CounterRead ==
  ASSUME Types, CounterStored, NEW k \in {TheKey, Other}
  PROVE  /\ getPairOK(k) => from_string(db[k].val) \in Allowed(k)
         /\ ~ getPairOK(k) => db[k].val = <<>>
<1>1. CASE db[k].val = <<>>
  BY <1>1 DEF getPairOK, isOK, isTombstone
<1>2. CASE db[k].exp = 0 /\ \E n \in Allowed(k) : db[k].val = to_string(n)
  <2>1. PICK n \in Allowed(k) : db[k].val = to_string(n)
    BY <1>2
  <2>2. n \in IntMin .. IntMax
    BY AllowedNumbers
  <2>3. db[k].val # <<>> /\ from_string(db[k].val) = n
    BY <2>1, <2>2, NumberAsText
  <2>4. ~ isExpired(db[k], now) /\ ~ isTombstone(db[k])
    BY <1>2, <2>3 DEF isExpired, isTombstone, TombstoneMark
  <2> QED BY <2>3, <2>4 DEF getPairOK, isOK
<1> QED BY <1>1, <1>2 DEF CounterStored

LEMMA CountWrites ==
  ASSUME Types, CounterStored, NEW n \in Numbers,
         NEW r \in {INCRLIMIT(TheKey, n, High), DECRLIMIT(TheKey, n, Low)}
  PROVE  \/ r.w = <<>>
         \/ \E m \in Allowed(TheKey) : r.w = <<Normal(TheKey, to_string(m), 0)>>
<1> DEFINE x    == from_string(db[TheKey].val)
           m(y) == Counted(TheKey, y)
<1>1. /\ n \in IntMin .. IntMax /\ TheKey \in {TheKey, Other} /\ Allowed(TheKey) = Low .. High
      /\ times(1, n) = n /\ (n > 0 => times(-1, n) = - n)
      /\ Reject.w = <<>> /\ \A a : Answer(a).w = <<>>
      /\ \A y, a : SetNumber(TheKey, y, a).w = <<Normal(TheKey, to_string(y), 0)>>
  BY Limits, NumbersInRange, Results DEF Allowed, SetNumber
<1>2. n \in Int /\ (n > 0 => 0 < n /\ - n < 0 /\ - n \in Int)
  BY <1>1, Limits
<1>3. getPairOK(TheKey) => x \in Low .. High
  BY <1>1, CounterRead
<1>4. ASSUME NEW y \in Int
      PROVE  IF getPairOK(TheKey) THEN m(y) = incr(y, x) ELSE m(y) = y
  BY DEF Counted
<1> HIDE DEF x, m
<1>5. ASSUME NEW y \in Int
      PROVE  /\ 0 < y /\ m(y) <= High => m(y) \in Low .. High
             /\ y < 0 /\ m(y) >= Low => m(y) \in Low .. High
  <2>1. CASE getPairOK(TheKey)
    <3>1. x \in Int /\ Low <= x /\ x <= High /\ m(y) = incr(y, x)
      BY <1>3, <1>4, <2>1, Limits
    <3> QED BY <3>1, Limits DEF incr
  <2>2. CASE ~ getPairOK(TheKey)
    <3>1. m(y) = y
      BY <1>4, <2>2
    <3> QED BY <3>1, Limits
  <2> QED BY <2>1, <2>2
<1>6. ASSUME NEW sign \in {1, -1}, NEW limit
      PROVE  LET q == do_incr_decr_limit(sign, TheKey, n, limit)
                 c == m(times(sign, n))
             IN  \/ q.w = <<>>
                 \/ n > 0 /\ check_limit(sign, c, limit) /\ q.w = <<Normal(TheKey, to_string(c), 0)>>
  <2>1. CASE ~ isKeyValid(TheKey) \/ n <= 0
    BY <1>1, <2>1 DEF do_incr_decr_limit
  <2>2. CASE ~ (~ isKeyValid(TheKey) \/ n <= 0)
    <3>1. n > 0
      BY <1>1, <2>2, Limits
    <3>2. CASE check_limit(sign, m(times(sign, n)), limit)
      BY <1>1, <2>2, <3>1, <3>2 DEF do_incr_decr_limit, m
    <3>3. CASE ~ check_limit(sign, m(times(sign, n)), limit)
      BY <1>1, <2>2, <3>3 DEF do_incr_decr_limit, m
    <3> QED BY <3>2, <3>3
  <2> QED BY <2>1, <2>2
<1>7. CASE r = INCRLIMIT(TheKey, n, High)
  <2>1. \/ r.w = <<>>
        \/ n > 0 /\ check_limit(1, m(n), High) /\ r.w = <<Normal(TheKey, to_string(m(n)), 0)>>
    BY <1>1, <1>6, <1>7 DEF INCRLIMIT
  <2>2. check_limit(1, m(n), High) => m(n) <= High
    BY DEF check_limit
  <2> QED BY <1>1, <1>2, <1>5, <2>1, <2>2
<1>8. CASE r = DECRLIMIT(TheKey, n, Low)
  <2>1. \/ r.w = <<>>
        \/ n > 0 /\ check_limit(-1, m(- n), Low) /\ r.w = <<Normal(TheKey, to_string(m(- n)), 0)>>
    BY <1>1, <1>6, <1>8 DEF DECRLIMIT
  <2>2. check_limit(-1, m(- n), Low) => m(- n) >= Low
    BY DEF check_limit
  <2> QED BY <1>1, <1>2, <1>5, <2>1, <2>2
<1> QED BY <1>7, <1>8

LEMMA RaiseWrites ==
  ASSUME Types, CounterStored, NEW n \in Numbers
  PROVE  LET r == INCRTO(Other, n)
         IN  r.w = <<>> \/ (n \in Allowed(Other) /\ r.w = <<Normal(Other, to_string(n), 0)>>)
<1> DEFINE r == INCRTO(Other, n)
           x == from_string(db[Other].val)
<1>1. /\ n \in IntMin .. IntMax /\ Other \in {TheKey, Other} /\ Allowed(Other) = mark .. IntMax
      /\ mark \in IntMin .. IntMax
      /\ Reject.w = <<>> /\ \A a : Answer(a).w = <<>>
      /\ \A a : SetNumber(Other, n, a).w = <<Normal(Other, to_string(n), 0)>>
  BY Limits, Results, KeysFound DEF Allowed, SetNumber, Types
<1>2. \/ r.w = <<>>
      \/ /\ r.w = <<Normal(Other, to_string(n), 0)>>
         /\ ~ (getPairOK(Other) /\ 1 * n <= 1 * x)
  BY <1>1 DEF INCRTO, do_incr_to
<1>3. getPairOK(Other) => x \in mark .. IntMax
  BY <1>1, CounterRead
<1>4. ~ getPairOK(Other) => mark = IntMin
  BY <1>1, CounterRead DEF CounterStored
<1> HIDE DEF x, r
<1>5. ~ (getPairOK(Other) /\ 1 * n <= 1 * x) => n \in mark .. IntMax
  BY <1>1, <1>3, <1>4, Limits
<1> QED BY <1>1, <1>2, <1>5 DEF r

(* The counter holds the number that was written, and the mark follows it.   *)
LEMMA WriteKeepsCounters ==
  ASSUME Types, CounterStored, CounterWriting, use = "counter", ServerWrites
  PROVE  CounterStored' /\ CounterWriting'
<1>1. todo # <<>> /\ Head(todo) \in Insertion /\ Insert(Head(todo)) /\ todo' = Tail(todo)
  BY WriteTypes
<1>2. PICK k \in {TheKey, Other} : \E n \in Allowed(k) : todo = <<Normal(k, to_string(n), 0)>>
  BY <1>1 DEF CounterWriting
<1>3. PICK n \in Allowed(k) : todo = <<Normal(k, to_string(n), 0)>>
  BY <1>2
<1>4. n \in IntMin .. IntMax /\ from_string(to_string(n)) = n /\ to_string(n) # <<>>
  BY AllowedNumbers, NumberAsText
<1>5. /\ todo' = <<>> /\ Head(todo).k = k /\ Head(todo).val = to_string(n) /\ Head(todo).exp = 0
      /\ Head(todo).f = "normal"
  BY <1>1, <1>3 DEF Normal
<1>6. /\ db'[k].val = to_string(n) /\ db'[k].exp = 0
      /\ \A l \in Key \ {k} : SamePair(db'[l], db[l])
  BY <1>1, <1>5, InsertDone
<1>7. mark' = IF k = Other THEN n ELSE mark
  <2>1. mark' = IF k = Other /\ n > mark THEN n ELSE mark
    BY <1>4, <1>5 DEF ServerWrites
  <2>2. k = Other => n >= mark
    BY KeysFound DEF Allowed, Types
  <2> QED BY <1>4, <2>1, <2>2 DEF Types
<1>8. ASSUME NEW l \in {TheKey, Other}
      PROVE  \/ db'[l].val = <<>>
             \/ db'[l].exp = 0 /\ \E x \in Allowed(l)' : db'[l].val = to_string(x)
  <2>1. CASE l = k
    <3>1. n \in Allowed(k)'
      BY <1>4, <1>7, Limits, KeysFound DEF Allowed
    <3> QED BY <1>6, <2>1, <3>1
  <2>2. CASE l # k
    <3>1. db'[l].val = db[l].val /\ db'[l].exp = db[l].exp
      BY <1>6, <2>2, KeysFound DEF SamePair
    <3>2. Allowed(l)' = Allowed(l)
      BY <1>7, <2>2, KeysFound DEF Allowed
    <3> QED BY <3>1, <3>2 DEF CounterStored
  <2> QED BY <2>1, <2>2
<1>9. db'[Other].val = <<>> => mark' = IntMin
  <2>1. CASE k = Other
    BY <1>4, <1>6, <2>1
  <2>2. CASE k # Other
    BY <1>6, <1>7, <2>2, KeysFound DEF CounterStored, SamePair
  <2> QED BY <2>1, <2>2
<1>10. CounterWriting'
  BY <1>5 DEF CounterWriting
<1> QED BY <1>8, <1>9, <1>10 DEF CounterStored

LEMMA CountersKept ==
  ASSUME Types, OneUse, CounterInv, [CNext]_vars
  PROVE  CounterInv'
<1> SUFFICES ASSUME use' = "counter" PROVE CounterInv'
  BY DEF CounterInv
<1>1. ASSUME use = "counter", \A k \in Key : db'[k].val = db[k].val /\ db'[k].exp = db[k].exp,
             mark' = mark, CounterWriting'
      PROVE  CounterInv'
  <2>1. CounterStored
    BY <1>1 DEF CounterInv
  <2>2. \A k \in {TheKey, Other} : /\ Allowed(k)' = Allowed(k)
                                   /\ db'[k].val = db[k].val /\ db'[k].exp = db[k].exp
    BY <1>1, KeysFound DEF Allowed
  <2>3. CounterStored'
    BY <1>1, <2>1, <2>2 DEF CounterStored
  <2> QED BY <1>1, <2>3 DEF CounterInv
<1>2. CASE AnyCommand \/ AnyRead \/ AnyExpireAt \/ AnyCopy \/ AnyRename
  BY <1>2 DEF AnyCommand, AnyRead, AnyExpireAt, AnyCopy, AnyRename, Counts, cvars
<1>3. ASSUME NEW c \in Clients, Ask(c) \/ Serve(c) \/ Receive(c) PROVE FALSE
  <2>1. use' = use /\ (use = "lock" \/ asked[c].op = "granted")
    BY <1>3 DEF Ask, Serve, Receive
  <2> QED BY <2>1 DEF OneUse
<1>4. CASE Count
  <2>1. PICK n \in Numbers :
          \E r \in {INCRLIMIT(TheKey, n, High), DECRLIMIT(TheKey, n, Low)} : Execute(r)
    BY <1>4 DEF Count
  <2>2. use = "counter" /\ mark' = mark /\ db' = db
    BY <1>4, <2>1 DEF Count, cvars, Execute
  <2>3. CounterStored
    BY <2>2 DEF CounterInv
  <2>4. \/ todo' = <<>>
        \/ \E m \in Allowed(TheKey) : todo' = <<Normal(TheKey, to_string(m), 0)>>
    BY <2>1, <2>3, CountWrites DEF Execute
  <2>5. Allowed(TheKey)' = Allowed(TheKey)
    BY <2>2 DEF Allowed
  <2>6. CounterWriting'
    BY <2>2, <2>4, <2>5 DEF CounterWriting
  <2> QED BY <1>1, <2>2, <2>6
<1>5. CASE Raise
  <2>1. PICK n \in Numbers : Execute(INCRTO(Other, n))
    BY <1>5 DEF Raise
  <2>2. use = "counter" /\ mark' = mark /\ todo' = INCRTO(Other, n).w /\ db' = db
    BY <1>5, <2>1 DEF Raise, cvars, Execute
  <2>3. CounterStored
    BY <2>2 DEF CounterInv
  <2>4. \/ INCRTO(Other, n).w = <<>>
        \/ n \in Allowed(Other) /\ INCRTO(Other, n).w = <<Normal(Other, to_string(n), 0)>>
    BY <2>3, RaiseWrites
  <2>5. Allowed(Other)' = Allowed(Other)
    BY <2>2 DEF Allowed
  <2>6. CounterWriting'
    BY <2>2, <2>4, <2>5 DEF CounterWriting
  <2> QED BY <1>1, <2>2, <2>6
<1>6. CASE ServerWrites
  <2>1. use = "counter"
    BY <1>6 DEF ServerWrites
  <2>2. CounterStored' /\ CounterWriting'
    BY <1>6, <2>1, WriteKeepsCounters DEF CounterInv
  <2> QED BY <2>2 DEF CounterInv
<1>7. CASE ServerDies
  <2>1. todo' = <<>> /\ mark' = mark /\ use = "counter" /\ \A k \in Key : SamePair(db'[k], db[k])
    BY <1>7, DeathTypes
  <2>2. CounterWriting'
    BY <2>1 DEF CounterWriting
  <2> QED BY <1>1, <2>1, <2>2 DEF SamePair
<1>8. CASE TimePasses \/ UNCHANGED vars
  <2>1. UNCHANGED <<db, todo, mark, use>>
    BY <1>8 DEF TimePasses, Tick, vars, kvars, cvars
  <2>2. CounterWriting'
    BY <2>1 DEF CounterInv, CounterWriting, Allowed
  <2> QED BY <1>1, <2>1, <2>2
<1> QED BY <1>2, <1>3, <1>4, <1>5, <1>6, <1>7, <1>8 DEF CNext

-----------------------------------------------------------------------------
(* The value that is renamed.                                                *)

LEMMA KeptAlone ==
  ASSUME NEW k \in Key, UNCHANGED moving, SamePair(db'[k], db[k]), Kept(db[k])
  PROVE  Kept(db[k])'
BY DEF Kept, Lasts, SamePair

LEMMA RenameMoves ==
  ASSUME Types, AnyRename
  PROVE  MovingInv'
<1> SUFFICES ASSUME moving' # Still PROVE MovingInv'
  BY DEF MovingInv
<1>1. PICK k \in Key, l \in AnyKey, t \in now .. now + 1 :
        /\ t <= MaxTime /\ now' = t
        /\ \E r \in {RENAME(k, l, t), RENAMENX(k, l, t)} :
             /\ Execute(r)
             /\ moving' = IF r.w = <<>> THEN Still
                          ELSE [k |-> k, neo |-> l, val |-> db[k].val, end |-> EndOf(db[k])]
  BY DEF AnyRename
<1> DEFINE ws  == <<CopyWrite(k, l, t), Erase(k)>>
           ttl == getTTL(db[k], t)
<1>2. /\ todo' = ws /\ db' = db /\ l \in Key /\ k # l /\ getPairOK(k)
      /\ moving' = [k |-> k, neo |-> l, val |-> db[k].val, end |-> EndOf(db[k])]
  <2>1. PICK nx \in BOOLEAN :
          /\ Execute(cpmv(k, l, nx, ws))
          /\ moving' = IF cpmv(k, l, nx, ws).w = <<>> THEN Still
                       ELSE [k |-> k, neo |-> l, val |-> db[k].val, end |-> EndOf(db[k])]
    BY <1>1 DEF RENAME, RENAMENX
  <2>2. cpmv(k, l, nx, ws).w # <<>>
    BY <2>1
  <2>3. cpmv(k, l, nx, ws).w = ws /\ l \in Key /\ k # l /\ getPairOK(k)
    BY <2>2, CopyResult
  <2> QED BY <2>1, <2>2, <2>3 DEF Execute
<1>3. Later(t) /\ t \in Nat /\ now <= t
  BY <1>1, LaterFound DEF Later
<1>4. db[k] \in Pair /\ db[k].created <= now /\ db[k].created \in Nat /\ Usecs \in Nat /\ MaxTime \in Nat
  BY NowFound DEF Types, Pair
<1>5. db[k].val # <<>> /\ db[k].exp # TombstoneMark
  BY <1>2 DEF getPairOK, isOK, isTombstone
<1>6. db[k].exp \in Nat /\ db[k].exp * Usecs \in Nat
  BY <1>4, <1>5, SecondsWritten DEF Pair
<1>7. /\ ttl \in Expiration
      /\ ttl = 0 \/ (db[k].exp # 0 /\ db[k].created + db[k].exp * Usecs <= t + ttl * Usecs + Usecs)
  <2>1. db[k].created <= t
    BY <1>3, <1>4, LaterFound
  <2> QED BY <1>3, <1>4, <1>5, <2>1, TimeLeft
<1> HIDE DEF ttl
<1>8. /\ moving'.k = k /\ moving'.neo = l /\ moving'.val = db[k].val /\ moving'.end = EndOf(db[k])
      /\ EndOf(db[k]) \in Nat
      /\ db[k].exp = 0 \/ EndOf(db[k]) = db[k].created + db[k].exp * Usecs
  BY <1>2, <1>4, <1>6 DEF EndOf
<1>9. /\ todo' = <<Normal(l, db[k].val, ttl), Erase(k)>> /\ todo' # <<>>
      /\ todo'[1].exp = ttl
  BY <1>2 DEF CopyWrite, Normal, ttl
<1>10. Lasts(db[k].exp, db[k].created)'
  BY <1>2, <1>4, <1>6, <1>8 DEF Lasts
<1>11. ttl = 0 \/ moving'.end <= t + ttl * Usecs + Usecs
  BY <1>7, <1>8
<1>12. Kept(db[moving.k])'
  BY <1>2, <1>5, <1>8, <1>10 DEF Kept
<1>13. Lasts(todo[1].exp, now)'
  BY <1>1, <1>9, <1>11 DEF Lasts
<1>14. todo' = <<Normal(moving.neo, moving.val, todo[1].exp), Erase(moving.k)>>'
  BY <1>8, <1>9 DEF Normal, Erase
<1> QED BY <1>2, <1>5, <1>8, <1>9, <1>12, <1>13, <1>14 DEF MovingInv

LEMMA WriteMoves ==
  ASSUME Types, MovingInv, ServerWrites
  PROVE  MovingInv'
<1> SUFFICES ASSUME moving' # Still PROVE MovingInv'
  BY DEF MovingInv
<1>1. /\ todo # <<>> /\ Head(todo) \in Insertion /\ Insert(Head(todo)) /\ todo' = Tail(todo)
      /\ UNCHANGED <<now, moving>>
  BY WriteTypes DEF ServerWrites, Write
<1> DEFINE k == moving.k
           l == moving.neo
<1>2. k \in Key /\ l \in Key /\ k # l /\ moving.val # <<>> /\ moving.end \in Nat
  BY <1>1 DEF MovingInv
<1>3. CASE /\ Kept(db[k])
           /\ todo = <<Normal(l, moving.val, todo[1].exp), Erase(k)>>
           /\ Lasts(todo[1].exp, now)
  <2>1. PICK e : e = todo[1].exp /\ todo = <<Normal(l, moving.val, e), Erase(k)>>
    BY <1>3
  <2>2. Head(todo) = Normal(l, moving.val, e) /\ Tail(todo) = <<Erase(k)>>
    BY <2>1
  <2>3. e \in Expiration
    BY <1>1, <2>2 DEF Insertion, Normal
  <2>4. db'[l].val = moving.val /\ db'[l].exp = e /\ db'[l].created = now
    BY <1>1, <2>2, InsertDone DEF Normal
  <2>5. e # TombstoneMark /\ Lasts(e, now)
    BY <1>3, <2>1, <2>3, Expirations DEF TombstoneMark
  <2>6. Kept(db[l])'
    BY <1>1, <2>4, <2>5 DEF Kept, Lasts
  <2> QED BY <1>1, <1>2, <2>2, <2>6 DEF MovingInv, Erase
<1>4. CASE todo = <<Erase(k)>> /\ Kept(db[l])
  <2>1. Head(todo).k = k /\ Tail(todo) = <<>>
    BY <1>4 DEF Erase
  <2>2. SamePair(db'[l], db[l])
    BY <1>1, <1>2, <2>1, InsertDone
  <2>3. Kept(db[l])'
    BY <1>1, <1>2, <1>4, <2>2, KeptAlone
  <2> QED BY <1>1, <1>2, <2>1, <2>3 DEF MovingInv
<1> QED BY <1>1, <1>3, <1>4 DEF MovingInv

LEMMA DeathMoves ==
  ASSUME Types, MovingInv, ServerDies
  PROVE  MovingInv'
<1> SUFFICES ASSUME moving' # Still PROVE MovingInv'
  BY DEF MovingInv
<1>1. todo' = <<>> /\ UNCHANGED moving /\ \A k \in Key : SamePair(db'[k], db[k])
  BY DeathTypes
<1>2. /\ moving.k \in Key /\ moving.neo \in Key /\ moving.k # moving.neo
      /\ moving.val # <<>> /\ moving.end \in Nat
      /\ Kept(db[moving.k]) \/ Kept(db[moving.neo])
  BY <1>1 DEF MovingInv
<1>3. (Kept(db[moving.k]) => Kept(db[moving.k])') /\ (Kept(db[moving.neo]) => Kept(db[moving.neo])')
  BY <1>1, <1>2 DEF Kept, Lasts, SamePair
<1> QED BY <1>1, <1>2, <1>3 DEF MovingInv

(* A read, and the time that passes.                                         *)
LEMMA RestMoves ==
  ASSUME Types, MovingInv, UNCHANGED <<db, todo, moving>>, now' = now \/ now' = now + 1
  PROVE  MovingInv'
<1> SUFFICES ASSUME moving' # Still PROVE MovingInv'
  BY DEF MovingInv
<1>1. ASSUME todo # <<>>, todo = <<Normal(moving.neo, moving.val, todo[1].exp), Erase(moving.k)>>,
             Lasts(todo[1].exp, now), moving.end \in Nat
      PROVE  Lasts(todo[1].exp, now)'
  <2>1. todo[1] \in Insertion
    BY <1>1 DEF Types
  <2>2. todo[1].exp \in Expiration
    BY <2>1 DEF Insertion
  <2>3. todo[1].exp * Usecs \in Nat /\ now \in Nat /\ Usecs \in Nat
    BY <2>2, SecondsWritten, NowFound DEF Types
  <2> QED BY <1>1, <2>3 DEF Lasts
<1>2. Kept(db[moving.k]) => Kept(db[moving.k])'
  BY DEF Kept, Lasts
<1>3. Kept(db[moving.neo]) => Kept(db[moving.neo])'
  BY DEF Kept, Lasts
<1> QED BY <1>1, <1>2, <1>3 DEF MovingInv

LEMMA MovingKept ==
  ASSUME Types, OneUse, MovingInv, [CNext]_vars
  PROVE  MovingInv'
<1>1. ASSUME AnyCommand \/ AnyExpireAt \/ AnyCopy PROVE MovingInv'
  BY <1>1 DEF AnyCommand, AnyExpireAt, AnyCopy, MovingInv
<1>2. CASE AnyRead
  <2>1. PICK r \in Reads : Execute(r)
    BY <1>2 DEF AnyRead
  <2>2. r.w = <<>>
    BY ReadsAnswer, Results
  <2>3. UNCHANGED <<db, todo, moving, now>>
    BY <1>2, <2>1, <2>2 DEF AnyRead, cvars, Execute
  <2> QED BY <2>3, RestMoves
<1>3. ASSUME use # "any" PROVE MovingInv'
  <2>1. OneUse'
    BY OneUseKept
  <2>2. use' = use
    BY DEF CNext, vars, cvars, AnyCommand, AnyRead, AnyExpireAt, AnyCopy, AnyRename, Ask, Serve, Receive,
           Count, Raise, ServerWrites, ServerDies, TimePasses
  <2>3. moving' = Still
    BY <1>3, <2>1, <2>2 DEF OneUse
  <2> QED BY <2>3 DEF MovingInv, Still
<1>4. ASSUME use = "any", NEW c \in Clients, Ask(c) \/ Serve(c) \/ Receive(c) PROVE FALSE
  BY <1>4 DEF OneUse, Ask, Serve, Receive
<1>5. ASSUME Count \/ Raise, use = "any" PROVE FALSE
  BY <1>5 DEF Count, Raise
<1>6. CASE TimePasses
  BY <1>6, RestMoves DEF TimePasses, Tick, cvars
<1>7. CASE UNCHANGED vars
  BY <1>7, RestMoves DEF vars, kvars, cvars
<1> QED BY <1>1, <1>2, <1>3, <1>4, <1>5, <1>6, <1>7, RenameMoves, WriteMoves, DeathMoves DEF CNext

-----------------------------------------------------------------------------
(* The invariant holds.                                                      *)

LEMMA InitInv == CInit => IInv
<1> SUFFICES ASSUME CInit PROVE IInv
  OBVIOUS
<1>1. Types
  BY InitTypes
<1>2. /\ todo = <<>> /\ mark = IntMin /\ moving = Still
      /\ \A c \in Clients : asked[c] = None /\ holds[c] = 0
      /\ \A k \in Key : db[k] = Absent
      /\ now = 1
  BY DEF CInit, Init
<1>3. OneUse
  BY <1>2 DEF OneUse, None
<1>4. LockInv
  BY <1>2 DEF LockInv, LockHeld, LockPromised, LockReleased, LockWriting, None
<1>5. CounterInv
  BY <1>2, KeysFound DEF CounterInv, CounterStored, CounterWriting, Absent
<1>6. MovingInv
  BY <1>2 DEF MovingInv
<1> QED BY <1>1, <1>3, <1>4, <1>5, <1>6 DEF IInv

LEMMA NextInv == IInv /\ [CNext]_vars => IInv'
BY NextTypes, OneUseKept, LockKept, CountersKept, MovingKept DEF IInv

(* The inductive invariant holds in every state of every behaviour.           *)
THEOREM InvariantHolds == Spec => []IInv
BY InitInv, NextInv, PTL DEF Spec

-----------------------------------------------------------------------------
(* What it means: one owner at a time.                                       *)

LEMMA OwnersExclude == IInv => LockExclusive
<1> SUFFICES ASSUME IInv, NEW c \in Clients, NEW d \in Clients, c # d, now <= holds[c]
             PROVE  now > holds[d]
  BY DEF LockExclusive
<1>1. now \in Nat /\ now >= 1 /\ holds[c] \in Nat /\ holds[d] \in Nat
  BY Seen DEF IInv
<1>2. use = "lock"
  BY <1>1 DEF IInv, OneUse
<1>3. Owned(c, holds[c]) /\ (now <= holds[d] => Owned(d, holds[d]))
  BY <1>2 DEF IInv, LockInv, LockHeld
<1>4. now <= holds[d] => Token(c) = Token(d)
  BY <1>3 DEF Owned
<1> QED BY <1>1, <1>4, Tokens

-----------------------------------------------------------------------------
(* The counters are between their limits.                                    *)

LEMMA NothingAsNumber == from_string(<<>>) = 0
<1> DEFINE s     == <<>>
           Q(i)  == (\A j \in 1 .. i : s[j] # Minus) /\ (i < Len(s) => s[i + 1] = Minus)
           run   == CHOOSE i \in 0 .. Len(s) : Q(i)
           Is(f) == f = [i \in 0 .. run |-> IF i = 0 THEN 0 ELSE 10 * f[i - 1] + s[i]]
           f0    == CHOOSE f : Is(f)
           g     == [i \in 0 .. 0 |-> 0]
<1>1. Magnitude(s) = f0[run]
  BY DEF Magnitude
<1>2. run = 0
  <2>1. Len(s) = 0 /\ Q(0)
    OBVIOUS
  <2> HIDE DEF Q, s
  <2>2. run \in 0 .. 0
    BY <2>1
  <2> QED BY <2>2
<1> HIDE DEF run
<1>3. Is(g)
  <2>1. \A i \in 0 .. 0 : i = 0
    OBVIOUS
  <2> QED BY <1>2, <2>1
<1>4. Is(f0)
  <2> HIDE DEF Is
  <2> QED BY <1>3
<1> HIDE DEF f0
<1>5. f0[0] = 0
  BY <1>2, <1>4
<1>6. Magnitude(<<>>) = 0
  BY <1>1, <1>2, <1>5
<1> QED BY <1>6, Limits DEF from_string

LEMMA CountersInLimits == IInv => CountersHold
<1> SUFFICES ASSUME IInv, use = "counter"
             PROVE  /\ from_string(getPairVal(TheKey)) \in Low .. High
                    /\ from_string(getPairVal(Other)) >= mark
  BY DEF CountersHold
<1>1. Types /\ CounterStored
  BY DEF IInv, CounterInv
<1>2. /\ Allowed(TheKey) = Low .. High /\ Allowed(Other) = mark .. IntMax
      /\ mark \in IntMin .. IntMax
  BY <1>1, KeysFound DEF Allowed, Types
<1>3. \A k \in {TheKey, Other} : getPairOK(k) => from_string(getPairVal(k)) \in Allowed(k)
  BY <1>1, CounterRead DEF getPairVal
<1>4. \A k \in {TheKey, Other} : ~ getPairOK(k) => from_string(getPairVal(k)) = 0 /\ db[k].val = <<>>
  BY <1>1, CounterRead, NothingAsNumber DEF getPairVal
<1>5. from_string(getPairVal(TheKey)) \in Low .. High
  BY <1>2, <1>3, <1>4, Limits
<1>6. ~ getPairOK(Other) => mark = IntMin /\ from_string(getPairVal(Other)) = 0
  BY <1>1, <1>4 DEF CounterStored
<1>7. getPairOK(Other) => from_string(getPairVal(Other)) \in mark .. IntMax
  BY <1>2, <1>3
<1>8. from_string(getPairVal(Other)) >= mark
  BY <1>2, <1>6, <1>7, Limits
<1> QED BY <1>5, <1>8

-----------------------------------------------------------------------------
(* A value that is renamed can be read.                                      *)

LEMMA KeptIsRead ==
  ASSUME Types, NEW k \in Key, Kept(db[k]), moving.val # <<>>, moving.end \in Nat, now <= moving.end - Usecs
  PROVE  getPairVal(k) = moving.val
<1>1. /\ db[k] \in Pair /\ db[k].val = moving.val /\ db[k].exp # TombstoneMark
      /\ db[k].exp = 0 \/ moving.end <= db[k].created + db[k].exp * Usecs + Usecs
  BY DEF Kept, Lasts, Types
<1>2. db[k].exp \in Expiration /\ db[k].created \in Nat /\ now \in Nat /\ Usecs \in Nat
  BY <1>1, NowFound DEF Pair, Types
<1>3. db[k].exp * Usecs \in Nat
  BY <1>2, SecondsWritten
<1>4. ~ isExpired(db[k], now)
  BY <1>1, <1>2, <1>3 DEF isExpired
<1> QED BY <1>1, <1>4 DEF getPairVal, getPairOK, isOK, isTombstone

LEMMA RenamedIsRead == IInv => RenameKeepsValue
<1> SUFFICES ASSUME IInv, moving # Still, now <= moving.end - Usecs
             PROVE  \E k \in {moving.k, moving.neo} : getPairVal(k) = moving.val
  BY DEF RenameKeepsValue
<1>1. /\ Types /\ moving.k \in Key /\ moving.neo \in Key /\ moving.val # <<>> /\ moving.end \in Nat
      /\ Kept(db[moving.k]) \/ Kept(db[moving.neo])
  BY DEF IInv, MovingInv
<1> QED BY <1>1, KeptIsRead

-----------------------------------------------------------------------------
(* The commands that read agree.                                             *)

LEMMA TimesWritten ==
  ASSUME NEW x \in Nat, x < power[to_string_buffer_t_size]
  PROVE  Magnitude(to_string(x)) = x
<1>1. x \in Writable /\ to_string(x) = Digits(x)
  BY DEF Writable, to_string
<1> QED BY <1>1, MagnitudeOfDigits

(* When a pair expires, and how long it lasts, in seconds.                   *)
LEMMA SecondsAgree ==
  ASSUME Types, NEW k \in Key, getPairOK(k), db[k].exp # 0
  PROVE  LET x == getExpiresAt(db[k])
             y == getTTL(db[k], now)
         IN  /\ x \in Nat /\ x < power[to_string_buffer_t_size]
             /\ y \in Nat /\ y < power[to_string_buffer_t_size]
             /\ now32(now) \in Nat /\ now32(now) <= x /\ now32(now) + y <= x
<1> DEFINE p    == db[k]
           span == p.exp * Usecs
           end  == p.created + span
           left == end - now
           x    == getExpiresAt(p)
           y    == getTTL(p, now)
<1>1. /\ p \in Pair /\ p.created \in Nat /\ p.created <= now /\ p.created <= MaxTime
      /\ now \in Nat /\ now <= MaxTime /\ MaxTime \in Nat /\ Usecs \in Nat \ {0}
  BY NowFound DEF Types, Pair
<1>2. p.exp # TombstoneMark /\ ~ isExpired(p, now)
  BY DEF getPairOK, isOK, isTombstone
<1>3. p.exp \in Expiration /\ p.exp \in Nat /\ p.exp > 0 /\ span \in Nat
  BY <1>1, <1>2, SecondsWritten DEF Pair
<1>4. left \in Nat /\ end \in Nat /\ now + left = end
  BY <1>1, <1>2, <1>3 DEF isExpired
<1>5. x = now32(p.created) + p.exp /\ y = now32(left)
  BY <1>1, <1>3, <1>4 DEF getExpiresAt, getTTL
<1>6. y \in Expiration
  BY <1>1, <1>2, TimeLeft
<1> HIDE DEF p
<1>7. end \div Usecs = now32(p.created) + p.exp
  BY <1>1, <1>3, QuotientOfMore DEF now32
<1> HIDE DEF span, end, left, x, y
<1>8. now \div Usecs + left \div Usecs <= end \div Usecs
  BY <1>1, <1>4, QuotientsAdd
<1>9. now \div Usecs \in Nat /\ left \div Usecs \in Nat
  BY <1>1, <1>4, Quotient
<1>10. now32(p.created) \in Nat /\ now32(p.created) <= now32(MaxTime) /\ now32(MaxTime) \in Nat
  BY <1>1, Quotient, QuotientGrows DEF now32
<1>11. x \in Nat /\ x < power[to_string_buffer_t_size]
  BY <1>3, <1>5, <1>10, NowFound DEF Expiration
<1>12. y \in Nat /\ y < power[to_string_buffer_t_size]
  BY <1>6, <1>10, NowFound DEF Expiration
<1>13. now32(now) \in Nat /\ now32(now) + y <= x
  BY <1>5, <1>7, <1>8, <1>9 DEF now32
<1>14. now32(now) <= x
  BY <1>11, <1>12, <1>13
<1> QED BY <1>11, <1>12, <1>13, <1>14 DEF p, x, y

LEMMA ReadsAgreeAlways == IInv => ReadersAgree
<1> SUFFICES ASSUME IInv, NEW k \in Key
             PROVE  /\ (GET(k) # <<>>) = (EXISTS(k) = Bool(TRUE))
                    /\ STRLEN(k) = to_string(Len(GET(k)))
                    /\ GETRANGE(k, 0, MaxLen) = GET(k)
                    /\ TTL(k) # <<0>> => EXISTS(k) = Bool(TRUE)
                    /\ EXPIRETIME(k) # <<0>> =>
                         /\ now32(now) <= Magnitude(EXPIRETIME(k))
                         /\ now32(now) + Magnitude(TTL(k)) <= Magnitude(EXPIRETIME(k))
  BY DEF ReadersAgree
<1>1. Types /\ \A a : Read(k, a) = a
  BY KeysFound DEF IInv, Read
<1>2. GET(k) = getPairVal(k) /\ EXISTS(k) = Bool(getPairOK(k))
  BY <1>1 DEF GET, EXISTS
<1>3. Bool(TRUE) # Bool(FALSE)
  BY DEF Bool
<1>4. CASE ~ getPairOK(k)
  <2>1. getPairVal(k) = <<>> /\ EXISTS(k) = Bool(FALSE)
    BY <1>2, <1>4 DEF getPairVal, Bool
  <2>2. TTL(k) = <<0>> /\ EXPIRETIME(k) = <<0>>
    BY <1>1, <1>4, ZeroAsText DEF TTL, EXPIRETIME
  <2>3. STRLEN(k) = to_string(Len(GET(k)))
    BY <1>1, <1>2 DEF STRLEN
  <2>4. GETRANGE(k, 0, MaxLen) = <<>>
    <3>1. 0 >= Len(getPairVal(k))
      BY <2>1
    <3> QED BY <1>1, <3>1 DEF GETRANGE
  <2> QED BY <1>2, <1>3, <2>1, <2>2, <2>3, <2>4
<1>5. CASE getPairOK(k)
  <2>1. /\ getPairVal(k) = db[k].val /\ db[k].val # <<>> /\ EXISTS(k) = Bool(TRUE)
        /\ db[k].val \in Text
    BY <1>1, <1>2, <1>5, ValuesRead DEF getPairVal, getPairOK, isOK, isTombstone, Types
  <2>2. STRLEN(k) = to_string(Len(GET(k)))
    BY <1>1, <1>2 DEF STRLEN
  <2>3. GETRANGE(k, 0, MaxLen) = GET(k)
    <3> DEFINE v == db[k].val
    <3>1. v \in Seq(0 .. Minus) /\ Len(v) \in Nat /\ 0 < Len(v) /\ Len(v) <= MaxLen /\ MaxLen \in Nat
      BY <2>1, ConstantsAssumption DEF Text
    <3>2. SubSeq(v, 1, Len(v)) = v
      BY <3>1
    <3>3. ~ (MaxLen < 0 \/ 0 >= Len(v))
      BY <3>1
    <3>4. SubSeq(v, 1, IF MaxLen < Len(v) THEN MaxLen + 1 ELSE Len(v)) = v
      BY <3>1, <3>2
    <3>5. getPairVal(k) = v
      BY <2>1
    <3> HIDE DEF v
    <3> DEFINE part(i) == SubSeq(v, i, IF MaxLen < Len(v) THEN MaxLen + 1 ELSE Len(v))
    <3>6. GETRANGE(k, 0, MaxLen) = Read(k, IF MaxLen < 0 \/ 0 >= Len(v) THEN <<>> ELSE part(0 + 1))
      BY <3>5 DEF GETRANGE
    <3>7. part(0 + 1) = v
      BY <3>4
    <3> HIDE DEF part
    <3>8. GETRANGE(k, 0, MaxLen) = v
      BY <1>1, <3>3, <3>6, <3>7
    <3> QED BY <1>2, <3>5, <3>8
  <2>4. ASSUME EXPIRETIME(k) # << 0 >>
        PROVE  /\ now32(now) <= Magnitude(EXPIRETIME(k))
               /\ now32(now) + Magnitude(TTL(k)) <= Magnitude(EXPIRETIME(k))
    <3> DEFINE x == getExpiresAt(db[k])
               y == getTTL(db[k], now)
    <3>1. EXPIRETIME(k) = to_string(x) /\ TTL(k) = to_string(y)
      BY <1>1, <1>5 DEF EXPIRETIME, TTL
    <3>2. db[k].exp # 0
      BY <2>4, <3>1, ZeroAsText DEF getExpiresAt
    <3>3. /\ x \in Nat /\ x < power[to_string_buffer_t_size]
          /\ y \in Nat /\ y < power[to_string_buffer_t_size]
          /\ now32(now) <= x /\ now32(now) + y <= x
      BY <1>1, <1>5, <3>2, SecondsAgree
    <3> HIDE DEF x, y
    <3>4. Magnitude(to_string(x)) = x /\ Magnitude(to_string(y)) = y
      BY <3>3, TimesWritten
    <3> QED BY <3>1, <3>3, <3>4
  <2> QED BY <1>2, <2>1, <2>2, <2>3, <2>4
<1> QED BY <1>4, <1>5

-----------------------------------------------------------------------------
(* The theorems.                                                             *)

LEMMA TypesMean == IInv => TypeOK
<1> SUFFICES ASSUME IInv PROVE TypeOK
  OBVIOUS
<1>1. Types
  BY DEF IInv
<1>2. ASSUME NEW k \in Key
      PROVE  /\ db[k].val \in Seq(0 .. Minus) /\ Len(db[k].val) <= MaxLen
             /\ db[k].exp \in Nat \cup {TombstoneMark}
             /\ db[k].created \in 0 .. now /\ db[k].mem \in BOOLEAN
  <2>1. db[k] \in Pair /\ db[k].created <= now /\ now \in Nat /\ MaxTime \in Nat
    BY <1>1, NowFound DEF Types
  <2>2. db[k].val \in Text /\ db[k].exp \in Expiration \cup {TombstoneMark} /\ db[k].created \in 0 .. now
    BY <2>1 DEF Pair
  <2>3. db[k].mem \in BOOLEAN
    BY <2>1 DEF Pair
  <2> QED BY <2>2, <2>3, Expirations DEF Text
<1>3. ASSUME NEW i \in DOMAIN todo PROVE todo[i].k \in Key /\ Len(todo[i].val) <= MaxLen
  <2>1. todo[i] \in Insertion
    BY <1>1 DEF Types
  <2> QED BY <2>1 DEF Insertion, Text
<1> QED BY <1>1, <1>2, <1>3 DEF Types, TypeOK, Request

(* Pairs, insertions and requests are what their types say, whatever the      *)
(* commands are.                                                             *)
THEOREM TypeCorrect == Spec => []TypeOK
BY InvariantHolds, TypesMean, PTL

(* No two clients own the lock at a time, however late their requests arrive. *)
THEOREM LockExclusiveHolds == Spec => []LockExclusive
BY InvariantHolds, OwnersExclude, PTL

(* A counter stays between its limits, and INCRTO keeps the largest number.   *)
THEOREM CountersHoldHolds == Spec => []CountersHold
BY InvariantHolds, CountersInLimits, PTL

(* A value that is renamed is under one of the two keys, wherever the process *)
(* dies, and the commands that read agree about every key.                    *)
THEOREM ReadsConsistentHolds == Spec => []ReadsConsistent
<1>1. IInv => ReadsConsistent
  BY RenamedIsRead, ReadsAgreeAlways DEF ReadsConsistent
<1> QED BY <1>1, InvariantHolds, PTL
=============================================================================
