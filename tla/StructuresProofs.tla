-------------------------- MODULE StructuresProofs --------------------------
(***************************************************************************)
(* Proofs about Structures: what the queue and the rate limiter promise, for *)
(* any number of elements, any limits and prices, and any number of crashes, *)
(* lost control keys and clocks set back; and what commands on ranges of     *)
(* keys do, for any keys, ranges and limits.                                 *)
(***************************************************************************)
EXTENDS Structures, NaturalSets, TLAPS

-----------------------------------------------------------------------------
(* Numbers.                                                                  *)

LEMMA RefillNat == ASSUME NEW s \in Nat PROVE Refill(s) \in Nat
<1>1. s * MaxTokens \in Nat /\ MaxSeconds \in Nat \ {0}
  BY TBAssumption
<1> QED BY <1>1, Quotient DEF Refill

(* Filling up twice gives no more than filling up once for both.             *)
LEMMA RefillAdds ==
  ASSUME NEW s \in Nat, NEW t \in Nat
  PROVE  Refill(s) + Refill(t) <= Refill(s + t)
<1> DEFINE M == MaxTokens
           S == MaxSeconds
           x == (s * M) \div S
           y == (t * M) \div S
<1>1. M \in Nat /\ S \in Nat \ {0} /\ s * M \in Nat /\ t * M \in Nat /\ (s + t) * M \in Nat
  BY TBAssumption
<1>2. x \in Nat /\ x * S <= s * M /\ y \in Nat /\ y * S <= t * M
  BY <1>1, Quotient
<1>3. Refill(s) = x /\ Refill(t) = y /\ Refill(s + t) = ((s + t) * M) \div S
  BY DEF Refill
<1> HIDE DEF M, S, x, y
<1>4. (x + y) * S = x * S + y * S /\ (s + t) * M = s * M + t * M
  BY <1>1, <1>2
<1>5. x * S \in Nat /\ y * S \in Nat
  BY <1>1, <1>2
<1>6. x + y \in Nat /\ (x + y) * S <= (s + t) * M
  BY <1>1, <1>2, <1>4, <1>5
<1> QED BY <1>1, <1>3, <1>6, QuotientBounds

LEMMA Seconds ==
  ASSUME NEW s \in Nat, NEW t \in Nat, s <= t
  PROVE  to32(s) \in Nat /\ to32(t) \in Nat /\ to32(s) <= to32(t)
<1> DEFINE q == s \div TBUsecs
<1>1. TBUsecs \in Nat \ {0}
  BY TBAssumption
<1>2. q \in Nat /\ q * TBUsecs <= s /\ t \div TBUsecs \in Nat
  BY <1>1, Quotient
<1>3. to32(s) = q /\ to32(t) = t \div TBUsecs
  BY DEF to32
<1> HIDE DEF q
<1>4. q * TBUsecs <= t
  <2>1. q * TBUsecs \in Nat
    BY <1>1, <1>2
  <2> QED BY <1>2, <2>1
<1> QED BY <1>1, <1>2, <1>3, <1>4, QuotientBounds

LEMMA MinFound ==
  ASSUME NEW S \in SUBSET Nat, S # {}
  PROVE  Min(S) \in S /\ \A s \in S : Min(S) <= s
<1>1. \E m \in S : \A s \in S : m <= s
  BY SmallestExists
<1> QED BY <1>1 DEF Min

-----------------------------------------------------------------------------
(* The rate limiter.                                                         *)

(* TBCOUNT tells what is in the pair and was filled up since, and no more     *)
(* than the bucket holds.                                                    *)
LEMMA TokensFit ==
  ASSUME BucketTypes, BucketInv, bucket # NoBucket
  PROVE  /\ to32(bucket.created) \in Nat /\ to32(time) \in Nat
         /\ since <= to32(bucket.created) /\ to32(bucket.created) <= to32(time)
         /\ Tokens \in Nat /\ Tokens <= MaxTokens
         /\ taken + Tokens <= MaxTokens + Refill(to32(time) - since)
         /\ taken <= MaxTokens + Refill(to32(time) - since)
<1> DEFINE made == to32(bucket.created)
           now  == to32(time)
           most == MaxTokens + Refill(now - since)
           sum  == bucket.tokens + Refill(now - made)
<1>1. bucket.tokens \in Nat /\ bucket.created \in Nat /\ time \in Nat /\ since \in Nat /\ taken \in Nat
  BY DEF BucketTypes
<1>2. made \in Nat /\ now \in Nat /\ since <= made /\ made <= now
  BY <1>1, Seconds DEF BucketInv
<1>3. taken + bucket.tokens <= MaxTokens + Refill(made - since)
  BY DEF BucketInv
<1>4. MaxTokens \in Nat
  BY TBAssumption
<1>5. Tokens = Min({MaxTokens, sum})
  BY <1>2 DEF Tokens, calcTokens
<1> HIDE DEF made, now
<1>6. /\ made - since \in Nat /\ now - made \in Nat /\ now - since \in Nat
      /\ (made - since) + (now - made) = now - since
  BY <1>1, <1>2
<1>7. /\ Refill(made - since) \in Nat /\ Refill(now - made) \in Nat /\ Refill(now - since) \in Nat
      /\ Refill(made - since) + Refill(now - made) <= Refill(now - since)
  <2>1. Refill(made - since) + Refill(now - made) <= Refill((made - since) + (now - made))
    BY <1>6, RefillAdds
  <2> QED BY <1>6, <2>1, RefillNat
<1>8. sum \in Nat /\ taken + sum <= most /\ taken <= most
  BY <1>1, <1>3, <1>4, <1>7
<1> HIDE DEF most, sum
<1>9. Tokens \in Nat /\ Tokens <= MaxTokens /\ Tokens <= sum
  <2> DEFINE both == {MaxTokens, sum}
  <2>1. both \in SUBSET Nat /\ both # {}
    BY <1>4, <1>8
  <2>2. Min(both) \in both /\ \A x \in both : Min(both) <= x
    <3> HIDE DEF both
    <3> QED BY <2>1, MinFound
  <2> QED BY <1>4, <1>5, <1>8, <2>2
<1>10. taken + Tokens <= most
  <2>1. most \in Nat
    BY <1>4, <1>7 DEF most
  <2> QED BY <1>1, <1>8, <1>9, <2>1
<1> QED BY <1>2, <1>8, <1>9, <1>10 DEF most, made, now

LEMMA BucketInit == TBInit => BucketTypes /\ BucketInv
<1>1. NoBucket \in [tokens : Nat, created : Nat, exp : Nat]
  BY DEF NoBucket
<1> QED BY <1>1, TBAssumption DEF TBInit, BucketTypes, BucketInv

(* A pair that is written now keeps the promise if what it holds does.       *)
LEMMA BucketWritten ==
  ASSUME BucketTypes, NEW tokens \in Nat, NEW exp \in Nat, NEW begun \in Nat, NEW all \in Nat,
         begun <= to32(time), all + tokens <= MaxTokens + Refill(to32(time) - begun),
         tbWrite(tokens, exp), since' = begun, taken' = all, UNCHANGED time
  PROVE  BucketTypes' /\ BucketInv'
<1>1. /\ bucket' = [tokens |-> tokens, created |-> time, exp |-> exp]
      /\ time \in Nat /\ time' = time
  BY DEF tbWrite, BucketTypes
<1>2. BucketTypes'
  BY <1>1 DEF BucketTypes
<1>3. BucketInv'
  BY <1>1 DEF BucketInv, to32, Refill
<1> QED BY <1>2, <1>3

LEMMA ConsumeInv ==
  ASSUME BucketTypes, BucketInv, NEW price \in Prices, TBCONSUME(price)
  PROVE  BucketTypes' /\ BucketInv'
<1>1. /\ price \in Nat /\ price > 0 /\ price <= MaxTokens /\ MaxTokens \in Nat /\ MaxSeconds \in Nat
      /\ UNCHANGED time
  BY TBAssumption DEF TBCONSUME
<1>2. /\ time \in Nat /\ since \in Nat /\ taken \in Nat
      /\ bucket.exp \in Nat /\ bucket.created \in Nat /\ to32(time) \in Nat
  <2>1. to32(time) \in Nat
    BY Seconds DEF BucketTypes
  <2> QED BY <2>1 DEF BucketTypes
<1>3. CASE UNCHANGED <<bucket, since, taken>>
  BY <1>1, <1>3 DEF BucketTypes, BucketInv, to32, Refill
<1>4. CASE tbWrite(MaxTokens - price, MaxSeconds) /\ since' = to32(time) /\ taken' = price
  <2>1. to32(time) - to32(time) = 0 /\ Refill(0) \in Nat
    BY <1>2, RefillNat
  <2>2. MaxTokens - price \in Nat
    BY <1>1
  <2>3. price + (MaxTokens - price) <= MaxTokens + Refill(to32(time) - to32(time))
    BY <1>1, <1>2, <2>1
  <2> QED BY <1>1, <1>2, <1>4, <2>2, <2>3, BucketWritten
<1>5. CASE /\ tbOK /\ Tokens >= price /\ to32(time) < tbExpiresAt
           /\ tbWrite(Tokens - price, tbExpiresAt - to32(time))
           /\ taken' = taken + price /\ since' = since
  <2>1. bucket # NoBucket
    BY <1>5 DEF tbOK, NoBucket
  <2>2. /\ to32(bucket.created) \in Nat /\ since <= to32(time) /\ Tokens \in Nat
        /\ taken + Tokens <= MaxTokens + Refill(to32(time) - since)
    <3>1. /\ to32(bucket.created) \in Nat /\ to32(time) \in Nat /\ Tokens \in Nat
          /\ since <= to32(bucket.created) /\ to32(bucket.created) <= to32(time)
          /\ taken + Tokens <= MaxTokens + Refill(to32(time) - since)
      BY <2>1, TokensFit
    <3> QED BY <1>2, <3>1
  <2>3. tbExpiresAt - to32(time) \in Nat
    BY <1>2, <1>5, <2>2 DEF tbExpiresAt
  <2>4. Tokens - price \in Nat /\ (taken + price) + (Tokens - price) = taken + Tokens /\ taken + price \in Nat
    BY <1>1, <1>2, <1>5, <2>2
  <2> QED BY <1>1, <1>2, <1>5, <2>2, <2>3, <2>4, BucketWritten
<1> QED BY <1>3, <1>4, <1>5 DEF TBCONSUME

LEMMA TickInv == ASSUME BucketTypes, BucketInv, TBTick PROVE BucketTypes' /\ BucketInv'
BY DEF BucketTypes, BucketInv, TBTick, to32, Refill

LEMMA BucketKept ==
  ASSUME BucketTypes, BucketInv, UNCHANGED tbvars PROVE BucketTypes' /\ BucketInv'
BY DEF BucketTypes, BucketInv, tbvars, to32, Refill

(* What TBCONSUME has charged for, and what TBCOUNT promises besides.        *)
LEMMA BucketSound == BucketTypes /\ BucketInv => RateBound
<1> SUFFICES ASSUME BucketTypes, BucketInv, bucket # NoBucket
             PROVE  /\ tbOK => taken + TBCOUNT <= MaxTokens + Refill(to32(time) - since)
                    /\ taken <= MaxTokens + Refill(to32(time) - since)
  BY DEF RateBound
<1> QED BY TokensFit DEF TBCOUNT

-----------------------------------------------------------------------------
(* The queue.                                                                *)

(* Among more than n numbers there is one that n of them are smaller than.   *)
LEMMA RankFound ==
  ASSUME NEW S \in SUBSET Nat, NEW b \in Nat, \A s \in S : s <= b,
         NEW n \in Nat, n < Cardinality(S)
  PROVE  \E i \in S : Cardinality({j \in S : j < i}) = n
<1> DEFINE Before(i) == {j \in S : j < i}
           Far == {i \in S : Cardinality(Before(i)) >= n}
<1>0. IsFiniteSet(S)
  BY FS_BoundedSetOfNaturals
<1>1. ASSUME NEW i \in S
      PROVE  IsFiniteSet(Before(i)) /\ Cardinality(Before(i)) \in Nat
  <2>1. Before(i) \subseteq S
    OBVIOUS
  <2> HIDE DEF Before
  <2> QED BY <1>0, <2>1, FS_Subset, FS_CardinalityType
<1>2. ASSUME NEW p \in S, NEW U, U = Before(p) \cup {p}
      PROVE  Cardinality(U) = Cardinality(Before(p)) + 1
  <2>1. p \notin Before(p)
    OBVIOUS
  <2> HIDE DEF Before
  <2> QED BY <1>1, <1>2, <2>1, FS_AddElement
(* All the others are before the largest one of a set.                       *)
<1>3. ASSUME NEW U \in SUBSET S, U # {}
      PROVE  \E p \in U : \A s \in U : s <= p
  <2>1. U \in SUBSET Nat /\ \A s \in U : s <= b
    OBVIOUS
  <2> QED BY <1>3, <2>1, LargestExists
<1>4. Far # {}
  <2>1. S # {}
    BY FS_EmptySet
  <2>2. PICK m \in S : \A s \in S : s <= m
    BY <1>3, <2>1
  <2>3. S = Before(m) \cup {m}
    <3>1. \A s \in S : s < m \/ s = m
      BY <2>2
    <3> QED BY <2>2, <3>1
  <2>4. Cardinality(S) = Cardinality(Before(m)) + 1
    BY <1>2, <2>3
  <2>5. Cardinality(Before(m)) >= n
    BY <1>1, <2>4
  <2> QED BY <2>5
<1>5. PICK i \in Far : \A f \in Far : i <= f
  <2>1. Far \in SUBSET Nat
    OBVIOUS
  <2> HIDE DEF Far
  <2> QED BY <1>4, <2>1, SmallestExists
<1>6. ASSUME Cardinality(Before(i)) > n PROVE FALSE
  <2>1. Before(i) # {}
    <3> HIDE DEF Before
    <3> QED BY <1>6, FS_EmptySet
  <2>2. PICK p \in Before(i) : \A s \in Before(i) : s <= p
    BY <1>3, <2>1
  <2>3. p \in S /\ p \in Nat /\ p < i /\ i \in Nat
    BY <2>2
  <2>4. Before(i) = Before(p) \cup {p}
    <3>1. \A s \in S : s < i => s < p \/ s = p
      BY <2>2, <2>3
    <3>2. \A s \in S : s < p => s < i
      BY <2>3
    <3> QED BY <2>3, <3>1, <3>2
  <2>5. Cardinality(Before(i)) = Cardinality(Before(p)) + 1
    BY <1>2, <2>3, <2>4
  <2>6. Cardinality(Before(p)) >= n
    BY <1>1, <1>6, <2>3, <2>5
  <2> QED BY <1>5, <2>3, <2>6
<1>7. Cardinality(Before(i)) = n
  BY <1>1, <1>5, <1>6
<1> QED BY <1>7

LEMMA SearchSound ==
  ASSUME QueueTypes
  PROVE  /\ SearchFrom \subseteq Ids /\ Live \subseteq SearchFrom /\ Ids \subseteq Nat
         /\ IsFiniteSet(SearchFrom) /\ \A i \in SearchFrom : i <= MaxId
         /\ \A i \in Ids : iterations(i) \in Nat
         /\ \A i, j \in Ids : i <= j => iterations(i) <= iterations(j)
         /\ Live # {} => FirstLive \in Live /\ \A i \in Live : FirstLive <= i
<1>0. MaxId \in Nat
  BY QueueAssumption
<1>1. Ids \subseteq Nat /\ (\A i \in Ids : i <= MaxId) /\ SearchFrom \subseteq Ids /\ Live \subseteq SearchFrom
  BY <1>0 DEF Ids, SearchFrom, Live
<1>2. IsFiniteSet(SearchFrom)
  BY <1>0, <1>1, FS_BoundedSetOfNaturals
<1>3. ASSUME NEW i \in Ids
      PROVE  IsFiniteSet({j \in SearchFrom : j < i}) /\ iterations(i) \in Nat
  <2>1. {j \in SearchFrom : j < i} \subseteq SearchFrom
    OBVIOUS
  <2> QED BY <1>2, <2>1, FS_Subset, FS_CardinalityType DEF iterations
<1>4. ASSUME NEW i \in Ids, NEW j \in Ids, i <= j
      PROVE  iterations(i) <= iterations(j)
  <2>1. {k \in SearchFrom : k < i} \subseteq {k \in SearchFrom : k < j}
    <3>1. \A k \in SearchFrom : k \in Nat /\ i \in Nat /\ j \in Nat
      BY <1>1
    <3>2. \A k \in SearchFrom : k < i => k < j
      BY <1>4, <3>1
    <3> QED BY <3>2
  <2> QED BY <1>3, <2>1, FS_Subset DEF iterations
<1>5. ASSUME Live # {} PROVE FirstLive \in Live /\ \A i \in Live : FirstLive <= i
  <2>1. Live \in SUBSET Nat
    BY <1>1
  <2> QED BY <1>5, <2>1, MinFound DEF FirstLive
<1> QED BY <1>1, <1>2, <1>3, <1>4, <1>5

-----------------------------------------------------------------------------
(* An element the search can pop is not before the control key, unless the   *)
(* clock went back.                                                          *)
LEMMA OnlyLiveAhead ==
  ASSUME QueueTypes, PopOnce, NEW i \in Ids, item[i] = "live", i \notin Live
  PROVE  behind
<1>1. ~ (i >= control) /\ i \in Nat /\ control \in Nat
  BY QueueAssumption DEF Live, SearchFrom, QueueTypes, Ids, NoControl
<1> QED BY <1>1 DEF PopOnce

LEMMA SADDInv ==
  ASSUME QueueTypes, QueueInv, PopOnce, SADD
  PROVE  QueueTypes' /\ QueueInv' /\ PopOnce'
<1>0. clock \in Ids /\ pending = Nothing /\ MaxId \in Nat
  BY QueueAssumption DEF SADD, Idle, QueueTypes, Ids
<1>1. QueueTypes'
  BY <1>0 DEF SADD, QueueTypes
<1>2. QueueInv'
  BY <1>0 DEF SADD, QueueTypes, QueueInv
<1>3. PopOnce'
  <2> SUFFICES ASSUME NEW i \in Ids
               PROVE  /\ item'[i] = "live" /\ control' > i => behind'
                      /\ given'[i] > 1 => i \in torn'
    BY DEF PopOnce
  <2>1. CASE i = clock
    <3>1. given'[i] = 0 /\ control' = control /\ behind' = (behind \/ clock < control)
      BY <1>0, <2>1 DEF SADD, QueueTypes
    <3>2. control \in Nat /\ clock \in Nat /\ behind \in BOOLEAN
      BY <1>0 DEF QueueTypes, Ids, NoControl
    <3>3. control > i => behind'
      BY <2>1, <3>1, <3>2
    <3> QED BY <3>1, <3>3
  <2>2. CASE i # clock
    BY <1>0, <2>2 DEF SADD, QueueTypes, PopOnce
  <2> QED BY <2>1, <2>2
<1> QED BY <1>1, <1>2, <1>3

LEMMA TryAgainInv ==
  ASSUME QueueTypes, QueueInv, PopOnce, finalizeTryAgain
  PROVE  QueueTypes' /\ QueueInv' /\ PopOnce'
<1>0. ITERATIONS_LOOPS_MAX \in Nat /\ MaxId \in Nat
  BY QueueAssumption
<1>1. LastSeen \in SearchFrom /\ iterations(LastSeen) = ITERATIONS_LOOPS_MAX
  <2>1. \E i \in SearchFrom : Cardinality({j \in SearchFrom : j < i}) = ITERATIONS_LOOPS_MAX
    <3>1. ITERATIONS_LOOPS_MAX < Cardinality(SearchFrom)
      BY <1>0, SearchSound, FS_CardinalityType DEF finalizeTryAgain
    <3>2. SearchFrom \in SUBSET Nat /\ \A s \in SearchFrom : s <= MaxId
      BY SearchSound
    <3> QED BY <1>0, <3>1, <3>2, RankFound
  <2> QED BY <2>1 DEF LastSeen, iterations
<1>2. LastSeen \in Ids /\ LastSeen \in Nat
  BY <1>1, SearchSound
<1>3. /\ pending = Nothing /\ control' = LastSeen
      /\ UNCHANGED <<clock, item, pending, given, torn, behind, mishaps>>
  BY DEF finalizeTryAgain, Idle
<1>4. QueueTypes' /\ QueueInv'
  BY <1>2, <1>3 DEF QueueTypes, QueueInv
<1>5. ASSUME NEW i \in Ids, item[i] = "live", LastSeen > i PROVE behind
  <2>1. CASE i \in Live
    <3>1. FirstLive \in Live /\ FirstLive <= i /\ FirstLive \in Ids /\ i \in Nat /\ FirstLive \in Nat
      BY <2>1, SearchSound
    <3>2. iterations(FirstLive) <= iterations(LastSeen) /\ iterations(FirstLive) \in Nat
      BY <1>2, <1>5, <3>1, SearchSound
    <3>3. iterations(FirstLive) > ITERATIONS_LOOPS_MAX
      BY <2>1 DEF finalizeTryAgain, GivesUp
    <3> QED BY <1>0, <1>1, <3>2, <3>3
  <2>2. CASE i \notin Live
    BY <1>5, <2>2, OnlyLiveAhead
  <2> QED BY <2>1, <2>2
<1>6. PopOnce'
  BY <1>3, <1>5 DEF PopOnce
<1> QED BY <1>4, <1>6

LEMMA PopInv ==
  ASSUME QueueTypes, QueueInv, PopOnce, finalizeOK
  PROVE  QueueTypes' /\ QueueInv' /\ PopOnce'
<1> DEFINE f == FirstLive
<1>0. /\ pending = Nothing /\ given' = [given EXCEPT ![f] = @ + 1]
      /\ UNCHANGED <<clock, torn, behind, mishaps>>
  BY DEF finalizeOK, Idle
<1>1. Live # {}
  BY DEF finalizeOK, GivesUp
<1>2. f \in Live /\ f \in Ids /\ f \in Nat /\ item[f] = "live" /\ \A i \in Live : f <= i
  BY <1>1, SearchSound DEF Live
<1>3. ASSUME NEW i \in Ids, item[i] = "live", f > i PROVE behind
  <2>1. i \notin Live
    BY <1>2, <1>3, SearchSound
  <2> QED BY <1>3, <2>1, OnlyLiveAhead
<1>4. \/ control' = f /\ pending' = f /\ UNCHANGED item
      \/ Erased(f) /\ UNCHANGED <<control, pending>>
  BY DEF finalizeOK
<1> HIDE DEF f
<1>5. \A i \in Ids : given'[i] = IF i = f THEN given[i] + 1 ELSE given[i]
  BY <1>0, <1>2 DEF QueueTypes
(* It was not answered before, or was and its SPOP was cut.                  *)
<1>6. \A i \in Ids : given'[i] > 1 => i \in torn
  <2> SUFFICES ASSUME NEW i \in Ids, given'[i] > 1 PROVE i \in torn
    OBVIOUS
  <2>1. CASE i = f
    <3>1. given[i] \in Nat /\ given'[i] = given[i] + 1
      BY <1>5, <2>1 DEF QueueTypes
    <3>2. given[i] > 0
      BY <3>1
    <3> QED BY <1>0, <1>2, <2>1, <3>2 DEF QueueInv, Nothing, Ids
  <2>2. CASE i # f
    BY <1>5, <2>2 DEF PopOnce
  <2> QED BY <2>1, <2>2
<1>7. given' \in [Ids -> Nat]
  BY <1>0, <1>2 DEF QueueTypes
<1>8. CASE control' = f /\ pending' = f /\ UNCHANGED item
  <2>1. QueueTypes'
    BY <1>0, <1>2, <1>7, <1>8 DEF QueueTypes
  <2>2. QueueInv'
    BY <1>0, <1>2, <1>5, <1>8 DEF QueueInv, Nothing, Ids
  <2>3. PopOnce'
    BY <1>0, <1>3, <1>6, <1>8 DEF PopOnce
  <2> QED BY <2>1, <2>2, <2>3
<1>9. CASE Erased(f) /\ UNCHANGED <<control, pending>>
  <2>0. \A i \in Ids : item'[i] = "live" => i # f /\ item[i] = "live"
    BY <1>2, <1>9 DEF Erased, QueueTypes
  <2>1. QueueTypes'
    BY <1>0, <1>2, <1>7, <1>9 DEF QueueTypes, Erased
  <2>2. QueueInv'
    BY <1>0, <1>5, <1>9, <2>0 DEF QueueInv
  <2>3. PopOnce'
    BY <1>0, <1>6, <1>9, <2>0 DEF PopOnce
  <2> QED BY <2>1, <2>2, <2>3
<1> QED BY <1>4, <1>8, <1>9

LEMMA EraseInv ==
  ASSUME QueueTypes, QueueInv, PopOnce, EraseAfterControl
  PROVE  QueueTypes' /\ QueueInv' /\ PopOnce'
<1>0. /\ pending \in Ids /\ Erased(pending) /\ pending' = Nothing
      /\ UNCHANGED <<clock, control, given, torn, behind, mishaps>>
  BY DEF EraseAfterControl, Idle, QueueTypes
<1>1. \A i \in Ids : item'[i] = "live" => i # pending /\ item[i] = "live"
  BY <1>0 DEF Erased, QueueTypes
<1>2. QueueTypes'
  BY <1>0 DEF QueueTypes, Erased
<1>3. QueueInv' /\ PopOnce'
  BY <1>0, <1>1 DEF QueueInv, PopOnce
<1> QED BY <1>2, <1>3

(* An element whose SPOP was cut may be answered again; another one may be   *)
(* erased in its place.                                                      *)
LEMMA CutInv ==
  ASSUME QueueTypes, QueueInv, PopOnce, CutAfterControl
  PROVE  QueueTypes' /\ QueueInv' /\ PopOnce'
<1>0. /\ pending \in Ids /\ pending' = Nothing /\ torn' = torn \cup {pending}
      /\ mishaps' = mishaps + 1 /\ UNCHANGED <<clock, control, given, behind>>
  BY DEF CutAfterControl, Idle, Mishap, QueueTypes
<1>1. /\ item' \in [Ids -> {"none", "live", "dead"}]
      /\ \A i \in Ids : item'[i] = "live" => item[i] = "live"
  BY DEF CutAfterControl, Erased, QueueTypes
<1> QED BY <1>0, <1>1 DEF QueueTypes, QueueInv, PopOnce

LEMMA ClockInv ==
  ASSUME QueueTypes, QueueInv, PopOnce, Tick \/ SetBack
  PROVE  QueueTypes' /\ QueueInv' /\ PopOnce'
<1>1. clock' \in Nat \ {0} /\ mishaps' \in Nat
  BY DEF Tick, SetBack, Mishap, QueueTypes
<1>2. UNCHANGED <<item, control, pending, given, torn, behind>>
  BY DEF Tick, SetBack
<1> QED BY <1>1, <1>2 DEF QueueTypes, QueueInv, PopOnce

LEMMA ControlLostInv ==
  ASSUME QueueTypes, QueueInv, PopOnce, ControlLost
  PROVE  QueueTypes' /\ QueueInv' /\ PopOnce'
<1>1. /\ pending = Nothing /\ control' = NoControl /\ mishaps' = mishaps + 1
      /\ UNCHANGED <<clock, item, pending, given, torn, behind>>
  BY DEF ControlLost, Idle, Mishap
<1>2. QueueTypes' /\ QueueInv'
  BY <1>1 DEF QueueTypes, QueueInv
<1>3. \A i \in Ids : ~ (NoControl > i)
  BY QueueAssumption DEF Ids, NoControl
<1>4. PopOnce'
  BY <1>1, <1>3 DEF PopOnce
<1> QED BY <1>2, <1>4

LEMMA ItemInv ==
  ASSUME QueueTypes, QueueInv, PopOnce, NEW i \in Ids, ItemExpires(i) \/ ItemCompacted(i)
  PROVE  QueueTypes' /\ QueueInv' /\ PopOnce'
<1>1. /\ pending = Nothing
      /\ UNCHANGED <<clock, control, pending, given, torn, behind, mishaps>>
  BY DEF ItemExpires, ItemCompacted, Idle
<1>2. /\ item' \in [Ids -> {"none", "live", "dead"}]
      /\ \A j \in Ids : item'[j] = "live" => item[j] = "live"
  BY DEF ItemExpires, ItemCompacted, Erased, QueueTypes
<1> QED BY <1>1, <1>2 DEF QueueTypes, QueueInv, PopOnce

LEMMA QueueKept ==
  ASSUME QueueTypes, QueueInv, PopOnce, UNCHANGED qvars
  PROVE  QueueTypes' /\ QueueInv' /\ PopOnce'
BY DEF QueueTypes, QueueInv, PopOnce, qvars

LEMMA QueueNextInv ==
  ASSUME QueueTypes, QueueInv, PopOnce, QueueNext
  PROVE  QueueTypes' /\ QueueInv' /\ PopOnce'
<1>1. CASE finalizeEnd
  BY <1>1, QueueKept DEF finalizeEnd
<1> QED
  BY <1>1, SADDInv, TryAgainInv, PopInv, EraseInv, CutInv, ClockInv, ControlLostInv, ItemInv
  DEF QueueNext, SPOP

-----------------------------------------------------------------------------
(* Sweeps.                                                                   *)

LEMMA KeysAre ==
  /\ IsFiniteSet(Key) /\ Key \subseteq Nat \ {0} /\ Cardinality(Key) \in Nat
  /\ \A k \in Key : k <= Cardinality(Key)
<1>1. IsFiniteSet(Key) /\ Key = 1 .. Cardinality(Key)
  BY ScansAssumption
<1>2. Cardinality(Key) \in Nat
  BY <1>1, FS_CardinalityType
<1> QED BY <1>1, <1>2

(* A list of a set has every member of it, and no other, in ascending order. *)
LEMMA ListedIs ==
  ASSUME NEW S \in SUBSET Key
  PROVE  /\ Listed(S) \in Seq(S) /\ ToSet(Listed(S)) = S
         /\ \A i, j \in DOMAIN Listed(S) : i < j => Listed(S)[i] < Listed(S)[j]
<1> DEFINE Smaller(k) == {j \in S : j < k}
           n == Cardinality(S)
           L == [i \in 1 .. n |-> CHOOSE k \in S : Cardinality(Smaller(k)) = i - 1]
<1>0. S \in SUBSET Nat /\ (\A k \in S : k <= Cardinality(Key)) /\ Cardinality(Key) \in Nat
  BY KeysAre
<1>1. IsFiniteSet(S) /\ n \in Nat
  BY KeysAre, FS_Subset, FS_CardinalityType
<1>2. \A i \in 1 .. n : L[i] \in S /\ Cardinality(Smaller(L[i])) = i - 1
  <2> SUFFICES ASSUME NEW i \in 1 .. n PROVE \E k \in S : Cardinality(Smaller(k)) = i - 1
    OBVIOUS
  <2>1. i - 1 \in Nat /\ i - 1 < n
    BY <1>1
  <2> HIDE DEF n
  <2> QED BY <1>0, <2>1, RankFound DEF n
<1>3. ASSUME NEW k \in S PROVE Cardinality(Smaller(k)) \in Nat /\ Cardinality(Smaller(k)) < n
  <2>1. Smaller(k) \subseteq S /\ k \in S \ Smaller(k)
    BY <1>0
  <2> HIDE DEF Smaller
  <2>2. IsFiniteSet(Smaller(k)) /\ Cardinality(Smaller(k)) \in Nat /\ Cardinality(Smaller(k)) <= n
    BY <1>1, <2>1, FS_Subset, FS_CardinalityType
  <2>3. Cardinality(Smaller(k)) # n
    BY <1>1, <2>1, FS_Subset
  <2> QED BY <1>1, <2>2, <2>3
<1>4. ASSUME NEW j \in S, NEW k \in S, j < k PROVE Cardinality(Smaller(j)) < Cardinality(Smaller(k))
  <2>0. /\ j \in Nat /\ k \in Nat /\ ~ (j < j)
        /\ \A s \in S : s < j => s < k
    <3>1. j \in Nat /\ k \in Nat /\ \A s \in S : s \in Nat
      BY <1>0
    <3> QED BY <1>4, <3>1
  <2>1. Smaller(j) \subseteq Smaller(k) /\ j \in Smaller(k) \ Smaller(j) /\ Smaller(k) \subseteq S
    BY <1>4, <2>0
  <2> HIDE DEF Smaller
  <2>2. IsFiniteSet(Smaller(k))
    BY <1>1, <2>1, FS_Subset
  <2>3. Cardinality(Smaller(j)) <= Cardinality(Smaller(k)) /\ Cardinality(Smaller(j)) # Cardinality(Smaller(k))
    BY <2>1, <2>2, FS_Subset
  <2> QED BY <1>3, <2>3
<1>5. ASSUME NEW k \in S PROVE \E i \in 1 .. n : L[i] = k
  <2> DEFINE i == Cardinality(Smaller(k)) + 1
  <2>1. i \in 1 .. n
    BY <1>1, <1>3
  <2> DEFINE l == L[i]
  <2>2. l \in S /\ Cardinality(Smaller(l)) = i - 1
    BY <1>2, <2>1
  <2>3. Cardinality(Smaller(l)) = Cardinality(Smaller(k)) /\ Cardinality(Smaller(k)) \in Nat
    BY <1>3, <2>2
  <2> HIDE DEF l, i, n, Smaller
  <2>4. ASSUME l < k PROVE FALSE
    BY <1>4, <2>2, <2>3, <2>4
  <2>5. ASSUME k < l PROVE FALSE
    BY <1>4, <2>2, <2>3, <2>5
  <2>6. l \in Nat /\ k \in Nat
    BY <1>0, <2>2
  <2>7. l = k
    BY <2>4, <2>5, <2>6
  <2> QED BY <2>1, <2>7 DEF l
<1>6. Listed(S) = L
  BY DEF Listed
<1>7. L \in [1 .. n -> S]
  BY <1>2
<1>8. ASSUME NEW i \in 1 .. n, NEW j \in 1 .. n, i < j PROVE L[i] < L[j]
  <2> DEFINE a == L[i]
             b == L[j]
  <2>1. a \in S /\ b \in S /\ Cardinality(Smaller(a)) = i - 1 /\ Cardinality(Smaller(b)) = j - 1
    BY <1>2
  <2> HIDE DEF a, b, L, n, Smaller
  <2>2. ASSUME b < a PROVE FALSE
    <3>1. Cardinality(Smaller(b)) < Cardinality(Smaller(a))
      BY <1>4, <2>1, <2>2
    <3> QED BY <1>1, <1>8, <2>1, <3>1
  <2>3. a # b
    BY <1>1, <1>8, <2>1
  <2>4. a \in Nat /\ b \in Nat
    BY <1>0, <2>1
  <2>5. a < b
    BY <2>2, <2>3, <2>4
  <2> QED BY <2>5 DEF a, b
<1> HIDE DEF L, n
<1> QED BY <1>1, <1>2, <1>5, <1>6, <1>7, <1>8 DEF ToSet

(* Doing it twice is doing it once, and it does not matter where a pair is.   *)
LEMMA Applied ==
  ASSUME SweepTypes, NEW p \in [st : {"none", "dead", "ok"}, val : Int, exp : Int, mem : BOOLEAN]
  PROVE  LET q == Apply(sweep.op, sweep.arg, p)
         IN  /\ q \in [st : {"none", "dead", "ok"}, val : Int, exp : Int, mem : BOOLEAN]
             /\ Apply(sweep.op, sweep.arg, q) = q
             /\ \A m \in BOOLEAN :
                  Apply(sweep.op, sweep.arg, [p EXCEPT !.mem = m]) = [q EXCEPT !.mem = m]
<1>1. sweep.arg \in Int /\ Now \in Int /\ sweep.op \in {"delete", "persist", "expire", "expireat"}
  BY ScansAssumption DEF SweepTypes
<1> DEFINE A(q) == Apply(sweep.op, sweep.arg, q)
           Good == /\ A(p) \in [st : {"none", "dead", "ok"}, val : Int, exp : Int, mem : BOOLEAN]
                   /\ A(A(p)) = A(p)
                   /\ \A m \in BOOLEAN : A([p EXCEPT !.mem = m]) = [A(p) EXCEPT !.mem = m]
           Kills   == \A q : A(q) = [q EXCEPT !.st = "dead"]
           Sets(e) == \A q : A(q) = [q EXCEPT !.exp = e]
<1>2. ASSUME Kills PROVE Good
  <2>1. /\ A(p) = [p EXCEPT !.st = "dead"] /\ A(A(p)) = [A(p) EXCEPT !.st = "dead"]
        /\ \A m : A([p EXCEPT !.mem = m]) = [[p EXCEPT !.mem = m] EXCEPT !.st = "dead"]
    BY ONLY <1>2
  <2> HIDE DEF A
  <2>2. \A m \in BOOLEAN : A([p EXCEPT !.mem = m]) = [A(p) EXCEPT !.mem = m]
    <3> SUFFICES ASSUME NEW m \in BOOLEAN PROVE A([p EXCEPT !.mem = m]) = [A(p) EXCEPT !.mem = m]
      OBVIOUS
    <3>1. A([p EXCEPT !.mem = m]) = [[p EXCEPT !.mem = m] EXCEPT !.st = "dead"]
      BY <2>1
    <3>2. [[p EXCEPT !.mem = m] EXCEPT !.st = "dead"] = [[p EXCEPT !.st = "dead"] EXCEPT !.mem = m]
      OBVIOUS
    <3>3. [A(p) EXCEPT !.mem = m] = [[p EXCEPT !.st = "dead"] EXCEPT !.mem = m]
      BY <2>1
    <3> QED BY <3>1, <3>2, <3>3
  <2>3. [p EXCEPT !.st = "dead"] \in [st : {"none", "dead", "ok"}, val : Int, exp : Int, mem : BOOLEAN]
        /\ [[p EXCEPT !.st = "dead"] EXCEPT !.st = "dead"] = [p EXCEPT !.st = "dead"]
    OBVIOUS
  <2>4. A(p) \in [st : {"none", "dead", "ok"}, val : Int, exp : Int, mem : BOOLEAN] /\ A(A(p)) = A(p)
    BY <2>1, <2>3
  <2> QED BY <2>2, <2>4
<1>3. ASSUME NEW e \in Int, Sets(e) PROVE Good
  <2>1. /\ A(p) = [p EXCEPT !.exp = e] /\ A(A(p)) = [A(p) EXCEPT !.exp = e]
        /\ \A m : A([p EXCEPT !.mem = m]) = [[p EXCEPT !.mem = m] EXCEPT !.exp = e]
    BY ONLY <1>3
  <2> HIDE DEF A
  <2>2. \A m \in BOOLEAN : A([p EXCEPT !.mem = m]) = [A(p) EXCEPT !.mem = m]
    <3> SUFFICES ASSUME NEW m \in BOOLEAN PROVE A([p EXCEPT !.mem = m]) = [A(p) EXCEPT !.mem = m]
      OBVIOUS
    <3>1. A([p EXCEPT !.mem = m]) = [[p EXCEPT !.mem = m] EXCEPT !.exp = e]
      BY <2>1
    <3>2. [[p EXCEPT !.mem = m] EXCEPT !.exp = e] = [[p EXCEPT !.exp = e] EXCEPT !.mem = m]
      OBVIOUS
    <3>3. [A(p) EXCEPT !.mem = m] = [[p EXCEPT !.exp = e] EXCEPT !.mem = m]
      BY <2>1
    <3> QED BY <3>1, <3>2, <3>3
  <2>3. [p EXCEPT !.exp = e] \in [st : {"none", "dead", "ok"}, val : Int, exp : Int, mem : BOOLEAN]
        /\ [[p EXCEPT !.exp = e] EXCEPT !.exp = e] = [p EXCEPT !.exp = e]
    OBVIOUS
  <2>4. A(p) \in [st : {"none", "dead", "ok"}, val : Int, exp : Int, mem : BOOLEAN] /\ A(A(p)) = A(p)
    BY <2>1, <2>3
  <2> QED BY <2>2, <2>4
<1> HIDE DEF Good, A, Kills, Sets
<1>4. ASSUME sweep.op = "delete" \/ (sweep.op = "expireat" /\ Now >= sweep.arg) PROVE Good
  <2>1. Kills
    BY <1>4 DEF Kills, A, Apply, DeletePredicate, ExpireAtPredicate
  <2> QED BY <1>2, <2>1
<1>5. ASSUME sweep.op = "persist" PROVE Good
  <2>1. Sets(0)
    BY <1>5 DEF Sets, A, Apply, PersistPredicate
  <2> QED BY <1>3, <2>1
<1>6. ASSUME sweep.op = "expire" PROVE Good
  <2>1. Sets(sweep.arg)
    BY <1>6 DEF Sets, A, Apply, ExpirePredicate
  <2> QED BY <1>1, <1>3, <2>1
<1>7. ASSUME sweep.op = "expireat" /\ ~ (Now >= sweep.arg) PROVE Good
  <2>1. Sets(sweep.arg - Now)
    BY <1>7 DEF Sets, A, Apply, ExpirePredicate, ExpireAtPredicate
  <2>2. sweep.arg - Now \in Int
    BY <1>1
  <2> QED BY <1>3, <2>1, <2>2
<1> QED BY <1>1, <1>4, <1>5, <1>6, <1>7 DEF Good, A

(* A pair that is moved to a disk table, or is not touched.                  *)
Moved(k) == \E m \in BOOLEAN : db'[k] = [db[k] EXCEPT !.mem = m]

LEMMA MovedIs ==
  ASSUME SweepTypes, NEW k \in Key, Moved(k)
  PROVE  /\ db'[k] \in [st : {"none", "dead", "ok"}, val : Int, exp : Int, mem : BOOLEAN]
         /\ db'[k].st = db[k].st
         /\ Changed(k) => db'[k] = Apply(sweep.op, sweep.arg, db'[k])
<1>1. PICK m \in BOOLEAN : db'[k] = [db[k] EXCEPT !.mem = m]
  BY DEF Moved
<1>2. db[k] \in [st : {"none", "dead", "ok"}, val : Int, exp : Int, mem : BOOLEAN]
  BY DEF SweepTypes
<1>3. Apply(sweep.op, sweep.arg, [db[k] EXCEPT !.mem = m])
        = [Apply(sweep.op, sweep.arg, db[k]) EXCEPT !.mem = m]
  BY <1>2, Applied
<1> QED BY <1>1, <1>2, <1>3 DEF Changed

LEMMA Untouched ==
  ASSUME SweepTypes, NEW k \in Key, db'[k] = db[k] PROVE Moved(k)
<1>1. db[k] \in [st : {"none", "dead", "ok"}, val : Int, exp : Int, mem : BOOLEAN]
  BY DEF SweepTypes
<1>2. db[k].mem \in BOOLEAN /\ db[k] = [db[k] EXCEPT !.mem = db[k].mem]
  BY <1>1
<1> QED BY <1>2 DEF Moved

LEMMA Inserts ==
  ASSUME SweepTypes, NEW k \in Key,
         NEW p \in [st : {"none", "dead", "ok"}, val : Int, exp : Int, mem : BOOLEAN], insert(k, p)
  PROVE  /\ db' \in [Key -> [st : {"none", "dead", "ok"}, val : Int, exp : Int, mem : BOOLEAN]]
         /\ db'[k] = [p EXCEPT !.mem = TRUE]
         /\ \A j \in Key \ {k} : Moved(j)
         /\ version' \in {0, 1} /\ (~ MustFlush => version' = version)
<1> DEFINE d == IF MustFlush THEN Flushed ELSE db
<1>1. db \in [Key -> [st : {"none", "dead", "ok"}, val : Int, exp : Int, mem : BOOLEAN]] /\ version \in {0, 1}
  BY DEF SweepTypes
<1>2. db' = [d EXCEPT ![k] = [p EXCEPT !.mem = TRUE]]
      /\ version' = IF MustFlush THEN 1 - version ELSE version
  BY DEF insert
<1>3. d \in [Key -> [st : {"none", "dead", "ok"}, val : Int, exp : Int, mem : BOOLEAN]]
  BY <1>1 DEF Flushed
<1>4. ASSUME NEW j \in Key PROVE \E m \in BOOLEAN : d[j] = [db[j] EXCEPT !.mem = m]
  <2>1. CASE MustFlush
    BY <2>1 DEF Flushed
  <2>2. CASE ~ MustFlush
    <3>1. db[j] \in [st : {"none", "dead", "ok"}, val : Int, exp : Int, mem : BOOLEAN]
      BY <1>1
    <3>2. db[j].mem \in BOOLEAN /\ db[j] = [db[j] EXCEPT !.mem = db[j].mem]
      BY <3>1
    <3> QED BY <2>2, <3>2
  <2> QED BY <2>1, <2>2
<1> HIDE DEF d
<1>5. \A j \in Key \ {k} : Moved(j)
  BY <1>2, <1>3, <1>4 DEF Moved
<1>6. [p EXCEPT !.mem = TRUE] \in [st : {"none", "dead", "ok"}, val : Int, exp : Int, mem : BOOLEAN]
  OBVIOUS
<1> QED BY <1>1, <1>2, <1>3, <1>5, <1>6

(* What a scan stops before lies in the range and is where the sweep goes on. *)
LEMMA StopsInRange ==
  ASSUME SweepTypes, RangeInv, NEW halts \in SUBSET find(sweep.key),
         NEW last, last = IF halts = {} \/ Min(halts) \notin sweep.range THEN NoKey ELSE Min(halts)
  PROVE  /\ last \in Nat /\ (last # NoKey => last \in sweep.range /\ last >= sweep.key)
         /\ sweep.fresh => \A k \in sweep.want :
              k >= sweep.key /\ ~ Reached(halts, k) => last # NoKey /\ k >= last
<1>0. /\ find(sweep.key) \subseteq Key /\ Key \subseteq Nat \ {0} /\ sweep.key \in Nat
      /\ \A h \in halts : h >= sweep.key
  BY KeysAre DEF find, Present, SweepTypes
<1>1. halts # {} => Min(halts) \in halts /\ \A h \in halts : Min(halts) <= h
  <2>1. halts \in SUBSET Nat
    BY <1>0
  <2> QED BY <2>1, MinFound
<1>2. last \in Nat /\ (last # NoKey => last \in sweep.range /\ last >= sweep.key)
  BY <1>0, <1>1 DEF NoKey
<1>3. ASSUME sweep.fresh, NEW k \in sweep.want, k >= sweep.key, ~ Reached(halts, k)
      PROVE  last # NoKey /\ k >= last
  <2>1. PICK h \in halts : ~ (k < h)
    BY <1>3 DEF Reached
  <2>2. k \in Nat /\ h \in Nat /\ Min(halts) \in Nat /\ Min(halts) <= h /\ Min(halts) >= sweep.key
    BY <1>0, <1>1, <2>1 DEF SweepTypes
  <2>3. k >= Min(halts) /\ Min(halts) \in sweep.key .. k
    BY <1>0, <2>1, <2>2
  <2>4. sweep.key \in sweep.range /\ k \in sweep.range
    BY <1>3 DEF RangeInv
  <2>5. Min(halts) \in sweep.range
    BY <2>3, <2>4 DEF RangeInv
  <2> QED BY <1>0, <1>1, <2>1, <2>3, <2>5 DEF NoKey
<1> QED BY <1>2, <1>3

LEMMA HeadAndTail ==
  ASSUME NEW s \in Seq(Key), s # <<>>
  PROVE  /\ Head(s) \in Key /\ Tail(s) \in Seq(Key)
         /\ ToSet(s) = {Head(s)} \cup ToSet(Tail(s))
<1>1. Len(s) \in Nat \ {0} /\ DOMAIN s = 1 .. Len(s) /\ Head(s) = s[1] /\ s[1] \in Key
  OBVIOUS
<1>2. /\ Tail(s) \in Seq(Key) /\ DOMAIN Tail(s) = 1 .. Len(s) - 1
      /\ \A i \in 1 .. Len(s) - 1 : Tail(s)[i] = s[i + 1]
  OBVIOUS
<1>3. ASSUME NEW x \in ToSet(s), x # Head(s) PROVE x \in ToSet(Tail(s))
  <2>1. PICK i \in 1 .. Len(s) : x = s[i]
    BY <1>1 DEF ToSet
  <2>2. i - 1 \in 1 .. Len(s) - 1 /\ Tail(s)[i - 1] = x
    BY <1>1, <1>2, <1>3, <2>1
  <2> QED BY <1>2, <2>2 DEF ToSet
<1>4. ASSUME NEW x \in ToSet(Tail(s)) PROVE x \in ToSet(s)
  <2>1. PICK i \in 1 .. Len(s) - 1 : x = s[i + 1]
    BY <1>2 DEF ToSet
  <2> QED BY <1>1, <2>1 DEF ToSet
<1>5. Head(s) \in ToSet(s)
  BY <1>1 DEF ToSet
<1>6. ToSet(s) = {Head(s)} \cup ToSet(Tail(s))
  BY <1>3, <1>4, <1>5
<1> QED BY <1>1, <1>2, <1>6

LEMMA ScanKept ==
  ASSUME SweepInv, scanKeysAndProcessInPlace
  PROVE  SweepInv'
<1> DEFINE ks    == find(sweep.key)
           halts == {k \in ks : k \notin sweep.range \/ passed(ks, k) >= BatchMax}
           took  == {k \in ks : isOK(k) /\ Reached(halts, k)}
           rest  == {k \in took : ~ db[k].mem}
           last  == IF halts = {} \/ Min(halts) \notin sweep.range THEN NoKey ELSE Min(halts)
           at    == CASE last = NoKey                   -> "none"
                      [] last # NoKey /\ db[last].mem   -> "list1"
                      [] last # NoKey /\ ~ db[last].mem -> "older"
<1>1. SweepTypes /\ RangeInv /\ ScanInv /\ SweepSound
  BY DEF SweepInv
<1>2. /\ sweep.pc = "scan"
      /\ db' = [k \in Key |-> IF k \in took /\ db[k].mem
                               THEN Apply(sweep.op, sweep.arg, db[k]) ELSE db[k]]
      /\ sweep' = [sweep EXCEPT !.pc = "process", !.ver = version, !.todo = Listed(rest), !.last = last,
                                 !.at = at]
      /\ version' = version
  BY DEF scanKeysAndProcessInPlace
<1>3. halts \subseteq find(sweep.key) /\ rest \subseteq took /\ took \subseteq find(sweep.key)
      /\ find(sweep.key) \subseteq Key
  BY DEF find, Present
<1>4. ASSUME NEW k \in sweep.want, isOK(k), k >= sweep.key, k \notin took
      PROVE  ~ Reached(halts, k)
  <2>1. k \in find(sweep.key)
    BY <1>1, <1>4 DEF find, Present, isOK, SweepTypes
  <2> QED BY <1>4, <2>1
<1>5. /\ last \in Nat /\ (last # NoKey => last \in sweep.range /\ last >= sweep.key)
      /\ sweep.fresh => \A k \in sweep.want :
           k >= sweep.key /\ ~ Reached(halts, k) => last # NoKey /\ k >= last
  <2> HIDE DEF halts
  <2> QED BY <1>1, <1>3, StopsInRange
<1>17. at \in {"none", "list1", "older"}
  <2> HIDE DEF last
  <2> QED OBVIOUS
<1>6. Listed(rest) \in Seq(Key) /\ ToSet(Listed(rest)) = rest
  <2>1. rest \in SUBSET Key
    BY <1>3
  <2> HIDE DEF rest
  <2>2. Listed(rest) \in Seq(rest)
    BY <2>1, ListedIs
  <2> QED BY <2>1, <2>2, ListedIs
<1>7. \A k \in rest : k >= sweep.key /\ isOK(k)
  BY DEF find
<1>8. \A k \in Key : k \notin took \/ ~ db[k].mem => db'[k] = db[k]
  <2> HIDE DEF took
  <2> QED BY <1>2
<1>9. \A k \in Key : k \in took /\ db[k].mem => db'[k] = Apply(sweep.op, sweep.arg, db[k])
  <2> HIDE DEF took
  <2> QED BY <1>2
<1> HIDE DEF ks, halts, last, rest, took, at
<1>10. /\ sweep'.pc = "process" /\ sweep'.ver = version /\ sweep'.todo = Listed(rest) /\ sweep'.last = last
       /\ sweep'.at = at /\ sweep'.op = sweep.op /\ sweep'.arg = sweep.arg /\ sweep'.key = sweep.key
       /\ sweep'.range = sweep.range /\ sweep'.want = sweep.want /\ sweep'.fresh = sweep.fresh
       /\ sweep' \in [pc : {"none", "scan", "process", "giveup", "again", "ended", "failed", "died"},
                 op : {"delete", "persist", "expire", "expireat"}, arg : Int, key : Nat,
                 range : SUBSET Key, hash : BOOLEAN, todo : Seq(Key), ver : {0, 1},
                 passes : Nat, last : Nat, at : {"none", "list1", "older", "gone"}, want : SUBSET Key, fresh : BOOLEAN, cut : BOOLEAN]
  BY <1>1, <1>2, <1>5, <1>6, <1>17 DEF SweepTypes
<1>11. \A k \in Key : db[k] \in [st : {"none", "dead", "ok"}, val : Int, exp : Int, mem : BOOLEAN]
  BY <1>1 DEF SweepTypes
<1>12. SweepTypes'
  <2>1. \A k \in Key : db'[k] \in [st : {"none", "dead", "ok"}, val : Int, exp : Int, mem : BOOLEAN]
    BY <1>1, <1>8, <1>9, <1>11, Applied
  <2>2. DOMAIN db' = Key /\ db' = [k \in Key |-> db'[k]]
    BY <1>2
  <2>3. db' \in [Key -> [st : {"none", "dead", "ok"}, val : Int, exp : Int, mem : BOOLEAN]]
    BY <2>1, <2>2
  <2> QED BY <1>1, <1>2, <1>10, <2>3 DEF SweepTypes
<1>13. RangeInv'
  BY <1>1, <1>10 DEF RangeInv
<1>14. ASSUME sweep.fresh, NEW k \in sweep.want
       PROVE  \/ db'[k] = Apply(sweep.op, sweep.arg, db'[k])
              \/ db'[k].st = "ok" /\ (k \in rest \/ (last # NoKey /\ k >= last))
  <2>0. k \in Key
    BY <1>1 DEF SweepTypes
  <2>1. CASE k \in took /\ db[k].mem
    BY <1>1, <1>9, <1>11, <2>0, <2>1, Applied
  <2>2. CASE k \in took /\ ~ db[k].mem
    BY <1>8, <2>0, <2>2 DEF rest, took, isOK
  <2>3. CASE k \notin took
    <3>1. db'[k] = db[k]
      BY <1>8, <2>0, <2>3
    <3>2. Changed(k) \/ (isOK(k) /\ k >= sweep.key)
      BY <1>1, <1>2, <1>14 DEF ScanInv
    <3>3. isOK(k) /\ k >= sweep.key => last # NoKey /\ k >= last
      BY <1>4, <1>5, <1>14, <2>3
    <3> QED BY <3>1, <3>2, <3>3 DEF Changed, isOK
  <2> QED BY <2>1, <2>2, <2>3
<1>15. BatchInv'
  <2>1. sweep'.todo = Listed(rest) /\ ToSet(sweep'.todo) = rest /\ sweep'.last = last /\ sweep'.ver = version'
    BY <1>2, <1>6, <1>10
  <2>2. sweep'.fresh => \A k \in sweep'.want :
          \/ Changed(k)'
          \/ isOK(k)' /\ (k \in ToSet(sweep'.todo) \/ (sweep'.last # NoKey /\ k >= sweep'.last))
    BY <1>10, <1>14, <2>1 DEF Changed, isOK
  <2>3. \A k \in ToSet(sweep'.todo) : k >= sweep'.key
    BY <1>7, <1>10, <2>1
  <2>4. sweep'.last # NoKey => sweep'.last \in sweep'.range /\ sweep'.last >= sweep'.key
    BY <1>5, <1>10, <2>1
    <2>5. sweep'.at # "gone"
    BY <1>10, <1>17
  <2> QED BY <2>1, <2>2, <2>3, <2>4, <2>5 DEF BatchInv
<1>16. ScanInv' /\ SweepSound'
  BY <1>1, <1>10 DEF ScanInv, SweepSound
<1> QED BY <1>12, <1>13, <1>15, <1>16 DEF SweepInv

(* One of the batch is inserted; a flush ends the pass.                       *)
LEMMA ProcessKept ==
  ASSUME SweepInv, process_x
  PROVE  SweepInv'
<1> DEFINE k0   == Head(sweep.todo)
           p    == Apply(sweep.op, sweep.arg, db[k0])
           rest == Tail(sweep.todo)
<1>1. SweepTypes /\ RangeInv /\ BatchInv /\ SweepSound
  BY DEF SweepInv
<1>2. /\ sweep.pc = "process" /\ sweep.todo # <<>> /\ sweep.todo \in Seq(Key)
      /\ insert(k0, p) /\ sweep' = ProcessNext
  BY <1>1 DEF process_x, SweepTypes
<1>3. k0 \in Key /\ rest \in Seq(Key) /\ ToSet(sweep.todo) = {k0} \cup ToSet(rest)
  BY <1>2, HeadAndTail
<1>4. db[k0] \in [st : {"none", "dead", "ok"}, val : Int, exp : Int, mem : BOOLEAN]
  BY <1>1, <1>3 DEF SweepTypes
<1>5. p \in [st : {"none", "dead", "ok"}, val : Int, exp : Int, mem : BOOLEAN]
      /\ Apply(sweep.op, sweep.arg, [p EXCEPT !.mem = TRUE]) = [p EXCEPT !.mem = TRUE]
  <2>1. p \in [st : {"none", "dead", "ok"}, val : Int, exp : Int, mem : BOOLEAN]
        /\ Apply(sweep.op, sweep.arg, p) = p
    BY <1>1, <1>4, Applied
  <2> HIDE DEF p
  <2>2. Apply(sweep.op, sweep.arg, [p EXCEPT !.mem = TRUE])
          = [Apply(sweep.op, sweep.arg, p) EXCEPT !.mem = TRUE]
    BY <1>1, <2>1, Applied
  <2> QED BY <2>1, <2>2
<1> HIDE DEF p, k0, rest
<1>6. /\ db' \in [Key -> [st : {"none", "dead", "ok"}, val : Int, exp : Int, mem : BOOLEAN]]
      /\ db'[k0] = [p EXCEPT !.mem = TRUE]
      /\ \A j \in Key \ {k0} : Moved(j)
      /\ version' \in {0, 1} /\ (~ MustFlush => version' = version)
  BY <1>1, <1>2, <1>3, <1>5, Inserts
(* What the rest of the pass may expect.                                      *)
<1>7. ASSUME sweep.fresh, NEW k \in sweep.want
      PROVE  \/ db'[k] = Apply(sweep.op, sweep.arg, db'[k])
             \/ db'[k].st = "ok" /\ (k \in ToSet(rest) \/ (sweep.last # NoKey /\ k >= sweep.last))
  <2>1. k \in Key
    BY <1>1 DEF SweepTypes
  <2>2. CASE k = k0
    BY <1>5, <1>6, <2>2
  <2>3. CASE k # k0
    <3>1. /\ db'[k].st = db[k].st
          /\ Changed(k) => db'[k] = Apply(sweep.op, sweep.arg, db'[k])
      BY <1>1, <1>6, <2>1, <2>3, MovedIs
    <3>2. \/ Changed(k)
          \/ isOK(k) /\ (k \in ToSet(sweep.todo) \/ (sweep.last # NoKey /\ k >= sweep.last))
      BY <1>1, <1>2, <1>7 DEF BatchInv
    <3> QED BY <1>3, <2>3, <3>1, <3>2 DEF isOK
  <2> QED BY <2>2, <2>3
<1>8. \/ sweep.op = "delete"
      \/ sweep.fresh /\ sweep.ver = version /\ sweep.at # "gone"
  BY <1>1, <1>2 DEF BatchInv, SweepSound
<1>9. /\ sweep'.op = sweep.op /\ sweep'.arg = sweep.arg /\ sweep'.key = sweep.key /\ sweep'.ver = sweep.ver
      /\ sweep'.range = sweep.range /\ sweep'.want = sweep.want /\ sweep'.last = sweep.last
      /\ sweep'.fresh = sweep.fresh
      /\ \/ /\ ~ MustFlush \/ sweep.op = "delete"
            /\ sweep'.pc = "process" /\ sweep'.todo = rest /\ (~ MustFlush => sweep'.at = sweep.at)
         \/ sweep'.pc \in {"scan", "giveup"}
      /\ SweepTypes'
  <2> DEFINE on == ProcessNextGoesOn
             at == IF MustFlush THEN Aged ELSE sweep.at
  <2>1. on = [sweep EXCEPT !.todo = rest, !.at = at, !.fresh = sweep.fresh]
    <3>1. sweep.fresh = (sweep.fresh /\ (sweep.op = "delete" \/ sweep.ver = version))
      BY <1>1, <1>8 DEF SweepTypes
    <3> QED BY <1>1, <3>1 DEF ProcessNextGoesOn, rest, SweepTypes
  <2>8. at \in {"none", "list1", "older", "gone"} /\ (~ MustFlush => at = sweep.at)
    <3>1. sweep.at \in {"none", "list1", "older", "gone"}
      BY <1>1 DEF SweepTypes
    <3> QED BY <3>1 DEF Aged
  <2> HIDE DEF on, at
  <2>2. \/ (~ MustFlush \/ sweep.op = "delete") /\ sweep' = on
        \/ sweep' = [on EXCEPT !.passes = @ + 1, !.todo = <<>>,
                               !.pc = IF sweep.passes + 1 < Passes THEN "scan" ELSE "giveup"]
    BY <1>2 DEF ProcessNext, on
  <2>3. on \in [pc : {"process"}, op : {"delete", "persist", "expire", "expireat"}, arg : Int, key : Nat,
                 range : SUBSET Key, hash : BOOLEAN, todo : Seq(Key), ver : {0, 1},
                 passes : Nat, last : Nat, at : {"none", "list1", "older", "gone"}, want : SUBSET Key, fresh : BOOLEAN, cut : BOOLEAN]
    BY <1>1, <1>2, <1>3, <2>1, <2>8 DEF SweepTypes
  <2>4. /\ on.op = sweep.op /\ on.arg = sweep.arg /\ on.key = sweep.key /\ on.ver = sweep.ver
        /\ on.range = sweep.range /\ on.want = sweep.want /\ on.last = sweep.last
        /\ on.fresh = sweep.fresh /\ on.todo = rest /\ on.at = at
    BY <1>1, <2>1 DEF SweepTypes
  <2>5. CASE (~ MustFlush \/ sweep.op = "delete") /\ sweep' = on
    <3>1. SweepTypes'
      BY <1>6, <2>3, <2>5 DEF SweepTypes
    <3> QED BY <2>3, <2>4, <2>5, <2>8, <3>1
  <2>6. ASSUME NEW pc \in {"scan", "giveup"},
               sweep' = [on EXCEPT !.passes = @ + 1, !.todo = <<>>, !.pc = pc]
        PROVE  /\ sweep'.op = on.op /\ sweep'.arg = on.arg /\ sweep'.key = on.key /\ sweep'.ver = on.ver
               /\ sweep'.range = on.range /\ sweep'.want = on.want /\ sweep'.last = on.last
               /\ sweep'.fresh = on.fresh /\ sweep'.pc = pc /\ SweepTypes'
    <3>1. on.passes + 1 \in Nat /\ <<>> \in Seq(Key)
      BY <2>3
    <3> QED BY <1>6, <2>3, <2>6, <3>1 DEF SweepTypes
  <2>7. CASE sweep' = [on EXCEPT !.passes = @ + 1, !.todo = <<>>,
                                 !.pc = IF sweep.passes + 1 < Passes THEN "scan" ELSE "giveup"]
    BY <2>4, <2>6, <2>7
  <2> QED BY <2>2, <2>5, <2>7
<1>10. RangeInv'
  BY <1>1, <1>9 DEF RangeInv
<1>11. CASE /\ ~ MustFlush \/ sweep.op = "delete"
            /\ sweep'.pc = "process" /\ sweep'.todo = rest /\ (~ MustFlush => sweep'.at = sweep.at)
  <2>1. BatchInv'
    <3>1. sweep'.fresh => \A k \in sweep'.want :
            \/ Changed(k)'
            \/ isOK(k)' /\ (k \in ToSet(sweep'.todo) \/ (sweep'.last # NoKey /\ k >= sweep'.last))
      BY <1>7, <1>9, <1>11 DEF Changed, isOK
    <3>2. \A k \in ToSet(sweep'.todo) : k >= sweep'.key
      BY <1>1, <1>2, <1>3, <1>9, <1>11 DEF BatchInv
    <3>3. sweep'.op # "delete" => sweep'.ver = version' /\ sweep'.at # "gone"
      BY <1>6, <1>8, <1>9, <1>11
    <3> QED BY <1>1, <1>2, <1>9, <3>1, <3>2, <3>3 DEF BatchInv
  <2>2. ScanInv' /\ SweepSound'
    BY <1>1, <1>9, <1>11 DEF ScanInv, SweepSound
  <2> QED BY <1>9, <1>10, <2>1, <2>2 DEF SweepInv
<1>12. CASE sweep'.pc \in {"scan", "giveup"}
  <2>1. ASSUME sweep.fresh, NEW k \in sweep.want
        PROVE  db'[k] = Apply(sweep.op, sweep.arg, db'[k]) \/ (db'[k].st = "ok" /\ k >= sweep.key)
    <3>1. k \in ToSet(rest) => k >= sweep.key
      BY <1>1, <1>2, <1>3 DEF BatchInv
    <3>2. sweep.last # NoKey /\ k >= sweep.last => k >= sweep.key
      <4>1. k \in Nat /\ sweep.last \in Nat /\ sweep.key \in Nat
        BY <1>1, KeysAre DEF SweepTypes
      <4>2. sweep.last # NoKey => sweep.last >= sweep.key
        BY <1>1, <1>2 DEF BatchInv
      <4> QED BY <4>1, <4>2
    <3> QED BY <1>7, <2>1, <3>1, <3>2
  <2>2. ScanInv'
    BY <1>9, <2>1 DEF ScanInv, Changed, isOK
  <2>3. BatchInv' /\ SweepSound'
    BY <1>1, <1>9, <1>12 DEF BatchInv, SweepSound
  <2> QED BY <1>9, <1>10, <2>2, <2>3 DEF SweepInv
<1> QED BY <1>9, <1>11, <1>12

(* A command is answered: the range is done, or the next one goes on from a   *)
(* key that what is left does not lie before.  Nothing is said of a deletion   *)
(* that read the key of a pair which was gone.                                *)
LEMMA AnsweredKept ==
  ASSUME SweepTypes, RangeInv, UNCHANGED <<db, version>>, NEW last \in Nat, NEW fresh \in BOOLEAN,
         sweep.op # "delete" => fresh,
         fresh => /\ sweep.fresh /\ (last # NoKey => last \in sweep.range)
                  /\ \A k \in sweep.want : Changed(k) \/ (isOK(k) /\ last # NoKey /\ k >= last),
         sweep' = [Answered(last) EXCEPT !.fresh = fresh]
  PROVE  SweepInv'
<1>1. /\ sweep'.op = sweep.op /\ sweep'.arg = sweep.arg /\ sweep'.range = sweep.range
      /\ sweep'.want = sweep.want /\ sweep'.fresh = fresh
      /\ sweep'.key = IF last = NoKey THEN sweep.key ELSE last
      /\ sweep'.pc = IF last = NoKey THEN "ended" ELSE "again"
  BY DEF Answered, SweepTypes
<1>2. SweepTypes'
  <2>1. <<>> \in Seq(Key) /\ NoKey \in Nat
    BY DEF NoKey
  <2> QED BY <2>1 DEF SweepTypes, Answered
<1>3. RangeInv'
  BY <1>1 DEF RangeInv
<1>4. ScanInv' /\ BatchInv' /\ SweepSound'
  BY <1>1 DEF ScanInv, BatchInv, SweepSound, Changed, isOK
<1> QED BY <1>2, <1>3, <1>4 DEF SweepInv

(* A sweep of which nothing is expected any more.                             *)
LEMMA NothingExpected ==
  ASSUME SweepTypes', RangeInv', sweep'.pc \in {"none", "ended", "failed", "died"},
         sweep'.op # "delete" => sweep'.fresh,
         sweep'.pc = "ended" => sweep'.want = {} \/ sweep'.cut
  PROVE  SweepInv'
BY DEF SweepInv, ScanInv, BatchInv, SweepSound

LEMMA DoneKept ==
  ASSUME SweepInv, process_x_Done
  PROVE  SweepInv'
<1>1. SweepTypes /\ RangeInv /\ BatchInv /\ (sweep.op # "delete" => sweep.fresh)
  BY DEF SweepInv, SweepSound
<1>2. /\ sweep.pc = "process" /\ sweep.todo = <<>> /\ UNCHANGED <<db, version>>
      /\ \/ sweep.hash /\ sweep' = [Answered(NoKey) EXCEPT !.cut = (sweep.last # NoKey)]
         \/ /\ ~ sweep.hash
            /\ \E last \in LastKeys :
                 sweep' = [Answered(last) EXCEPT !.fresh = @ /\ sweep.at # "gone"]
  BY DEF process_x_Done
<1>3. sweep.last \in Nat /\ (sweep.last # NoKey => sweep.last \in sweep.range)
  BY <1>1, <1>2 DEF BatchInv, SweepTypes
<1>4. sweep.fresh =>
        \A k \in sweep.want : Changed(k) \/ (isOK(k) /\ sweep.last # NoKey /\ k >= sweep.last)
  <2>1. ToSet(sweep.todo) = {}
    BY <1>2 DEF ToSet
  <2> QED BY <1>1, <1>2, <2>1 DEF BatchInv
<1>5. CASE sweep.hash /\ sweep.last # NoKey
  <2> DEFINE cut == (sweep.last # NoKey)
  <2>1. /\ sweep' = [Answered(NoKey) EXCEPT !.cut = TRUE]
        /\ Answered(NoKey) \in [pc : {"none", "scan", "process", "giveup", "again", "ended", "failed", "died"},
                                op : {"delete", "persist", "expire", "expireat"}, arg : Int, key : Nat,
                                range : SUBSET Key, hash : BOOLEAN, todo : Seq(Key), ver : {0, 1},
                                passes : Nat, last : Nat, at : {"none", "list1", "older", "gone"}, want : SUBSET Key, fresh : BOOLEAN, cut : BOOLEAN]
    <3>1. <<>> \in Seq(Key) /\ NoKey \in Nat
      BY DEF NoKey
    <3>2. cut = TRUE
      BY <1>5
    <3> QED BY <1>1, <1>2, <1>5, <3>1, <3>2 DEF Answered, SweepTypes
  <2>2. /\ sweep'.pc = "ended" /\ sweep'.cut = TRUE /\ sweep'.fresh = sweep.fresh /\ sweep'.op = sweep.op
        /\ sweep'.range = sweep.range /\ sweep'.want = sweep.want /\ sweep'.key = sweep.key
    BY <1>1, <2>1 DEF Answered, SweepTypes
  <2>3. SweepTypes'
    BY <1>1, <1>2, <2>1 DEF SweepTypes
  <2>4. RangeInv'
    BY <1>1, <2>2 DEF RangeInv
  <2> QED BY <1>1, <2>2, <2>3, <2>4, NothingExpected
<1>6. CASE sweep.hash /\ sweep.last = NoKey
  <2>1. sweep' = [Answered(NoKey) EXCEPT !.cut = FALSE]
    BY <1>2, <1>6
  <2>2. SweepTypes' /\ sweep'.op = sweep.op /\ sweep'.arg = sweep.arg
        /\ sweep'.pc = "ended" /\ sweep'.fresh = sweep.fresh
        /\ sweep'.range = sweep.range /\ sweep'.want = sweep.want /\ sweep'.key = sweep.key
    <3>1. <<>> \in Seq(Key) /\ NoKey \in Nat
      BY DEF NoKey
    <3>2. /\ Answered(NoKey) \in [pc : {"none", "scan", "process", "giveup", "again", "ended", "failed", "died"},
                       op : {"delete", "persist", "expire", "expireat"}, arg : Int, key : Nat,
                       range : SUBSET Key, hash : BOOLEAN, todo : Seq(Key), ver : {0, 1},
                       passes : Nat, last : Nat, at : {"none", "list1", "older", "gone"}, want : SUBSET Key, fresh : BOOLEAN, cut : BOOLEAN]
          /\ Answered(NoKey).op = sweep.op /\ Answered(NoKey).arg = sweep.arg
          /\ Answered(NoKey).pc = "ended" /\ Answered(NoKey).fresh = sweep.fresh
          /\ Answered(NoKey).range = sweep.range /\ Answered(NoKey).want = sweep.want
          /\ Answered(NoKey).key = sweep.key
      BY <1>1, <3>1 DEF Answered, SweepTypes
    <3> QED BY <1>1, <1>2, <2>1, <3>2 DEF SweepTypes
  <2>3. RangeInv'
    BY <1>1, <2>2 DEF RangeInv
  <2> QED BY <1>1, <1>2, <1>4, <1>6, <2>2, <2>3
          DEF SweepInv, ScanInv, BatchInv, SweepSound, Changed
<1>7. CASE ~ sweep.hash
  <2> PICK last \in LastKeys : sweep' = [Answered(last) EXCEPT !.fresh = @ /\ sweep.at # "gone"]
    BY <1>2, <1>7
  <2> DEFINE fresh == sweep.fresh /\ sweep.at # "gone"
  <2>1. sweep' = [Answered(last) EXCEPT !.fresh = fresh] /\ fresh \in BOOLEAN
    BY <1>1 DEF Answered, SweepTypes
  <2>2. last \in Nat /\ (fresh => last = sweep.last)
    <3>1. Key \subseteq Nat /\ Cardinality(Key) + 1 \in Nat
      BY KeysAre, ScansAssumption
    <3> QED BY <1>3, <3>1 DEF LastKeys
  <2>3. sweep.op # "delete" => fresh
    BY <1>1, <1>2 DEF BatchInv
  <2> HIDE DEF fresh
  <2>4. fresh => sweep.fresh
    BY DEF fresh
  <2> QED BY <1>1, <1>2, <1>3, <1>4, <2>1, <2>2, <2>3, <2>4, AnsweredKept
<1> QED BY <1>5, <1>6, <1>7

LEMMA GiveUpKept ==
  ASSUME SweepInv, process_x_GiveUp
  PROVE  SweepInv'
<1> DEFINE ks    == find(sweep.key)
           halts == {k \in ks : k \notin sweep.range \/ passed(ks, k) >= BatchMax \/ isOK(k)}
<1>1. SweepTypes /\ RangeInv /\ ScanInv /\ (sweep.op # "delete" => sweep.fresh)
  BY DEF SweepInv, SweepSound
<1>2. /\ sweep.pc = "giveup" /\ UNCHANGED <<db, version>>
      /\ sweep' = IF sweep.hash THEN [Answered(NoKey) EXCEPT !.pc = "failed"]
                  ELSE Answered(scanForLastKey)
  BY DEF process_x_GiveUp
<1>3. CASE sweep.hash
  <2>1. SweepTypes' /\ sweep'.pc = "failed" /\ sweep'.fresh = sweep.fresh /\ sweep'.op = sweep.op
        /\ sweep'.range = sweep.range /\ sweep'.want = sweep.want /\ sweep'.key = sweep.key
    <3>1. <<>> \in Seq(Key) /\ NoKey \in Nat
      BY DEF NoKey
    <3> QED BY <1>1, <1>2, <1>3, <3>1 DEF Answered, SweepTypes
  <2>2. RangeInv'
    BY <1>1, <2>1 DEF RangeInv
  <2> QED BY <1>1, <2>1, <2>2, NothingExpected
<1>4. CASE ~ sweep.hash
  <2> DEFINE last == scanForLastKey
  <2>1. last = IF halts = {} \/ Min(halts) \notin sweep.range THEN NoKey ELSE Min(halts)
    BY DEF scanForLastKey
  <2>2. halts \in SUBSET find(sweep.key)
    OBVIOUS
  <2>3. ASSUME NEW k \in sweep.want, isOK(k), k >= sweep.key PROVE ~ Reached(halts, k)
    <3>1. k \in Key /\ k \in Nat
      BY <1>1, KeysAre DEF SweepTypes
    <3>2. k \in halts /\ ~ (k < k)
      BY <2>3, <3>1 DEF find, Present, isOK
    <3> QED BY <3>2 DEF Reached
  <2> HIDE DEF last, halts
  <2>4. /\ last \in Nat /\ (last # NoKey => last \in sweep.range)
        /\ sweep.fresh => \A k \in sweep.want :
             k >= sweep.key /\ ~ Reached(halts, k) => last # NoKey /\ k >= last
    BY <1>1, <2>1, <2>2, StopsInRange
  <2>5. sweep.fresh => \A k \in sweep.want : Changed(k) \/ (isOK(k) /\ last # NoKey /\ k >= last)
    BY <1>1, <1>2, <2>3, <2>4 DEF ScanInv
  <2>6. sweep' = [Answered(last) EXCEPT !.fresh = sweep.fresh] /\ sweep.fresh \in BOOLEAN
    <3>1. sweep' = Answered(last)
      BY <1>2, <1>4 DEF last
    <3> QED BY <1>1, <3>1 DEF Answered, SweepTypes
  <2> QED BY <1>1, <1>2, <2>4, <2>5, <2>6, AnsweredKept
<1> QED BY <1>3, <1>4

LEMMA AgainKept ==
  ASSUME SweepInv, SweepAgain
  PROVE  SweepInv'
<1>1. SweepTypes /\ RangeInv /\ ScanInv /\ SweepSound
  BY DEF SweepInv
<1>2. sweep.pc = "again" /\ sweep' = [sweep EXCEPT !.pc = "scan"] /\ UNCHANGED <<db, version>>
  BY DEF SweepAgain
<1>3. /\ SweepTypes' /\ sweep'.pc = "scan" /\ sweep'.op = sweep.op /\ sweep'.arg = sweep.arg
      /\ sweep'.fresh = sweep.fresh
      /\ sweep'.range = sweep.range /\ sweep'.want = sweep.want /\ sweep'.key = sweep.key
  BY <1>1, <1>2 DEF SweepTypes
<1> QED BY <1>1, <1>2, <1>3
        DEF SweepInv, RangeInv, ScanInv, BatchInv, SweepSound, Changed, isOK

LEMMA DeadNone ==
  /\ None \in [st : {"none", "dead", "ok"}, val : Int, exp : Int, mem : BOOLEAN]
  /\ [None EXCEPT !.st = "dead"] \in [st : {"none", "dead", "ok"}, val : Int, exp : Int, mem : BOOLEAN]
<1>1. None \in [st : {"none", "dead", "ok"}, val : Int, exp : Int, mem : BOOLEAN]
  BY DEF None
<1>2. ASSUME NEW p \in [st : {"none", "dead", "ok"}, val : Int, exp : Int, mem : BOOLEAN]
      PROVE  [p EXCEPT !.st = "dead"] \in [st : {"none", "dead", "ok"}, val : Int, exp : Int, mem : BOOLEAN]
  OBVIOUS
<1> QED BY <1>1, <1>2

(* Another client's pair is not the sweep's any more; the others may move.     *)
LEMMA OtherKept ==
  ASSUME SweepInv, NEW k \in Key, OtherWrites(k)
  PROVE  SweepInv'
<1>1. SweepTypes /\ RangeInv /\ ScanInv /\ SweepSound
  BY DEF SweepInv
<1>2. /\ sweep.pc \in {"none", "again", "ended", "failed", "died"}
      /\ sweep' = [sweep EXCEPT !.want = @ \ {k}]
  BY DEF OtherWrites, NoCommand
<1>3. \E p \in [st : {"none", "dead", "ok"}, val : Int, exp : Int, mem : BOOLEAN] : insert(k, p)
  <2>1. CASE \E v \in Value : insert(k, Pair(v, 0))
    <3>1. \A v \in Value : Pair(v, 0) \in [st : {"none", "dead", "ok"}, val : Int, exp : Int, mem : BOOLEAN]
      BY ScansAssumption DEF Pair
    <3> QED BY <2>1, <3>1
  <2>2. CASE insert(k, [None EXCEPT !.st = "dead"])
    <3>1. [None EXCEPT !.st = "dead"] \in [st : {"none", "dead", "ok"}, val : Int, exp : Int, mem : BOOLEAN]
      BY DeadNone
    <3> QED BY <2>2, <3>1
  <2> QED BY <2>1, <2>2 DEF OtherWrites
<1>4. /\ db' \in [Key -> [st : {"none", "dead", "ok"}, val : Int, exp : Int, mem : BOOLEAN]]
      /\ version' \in {0, 1} /\ \A j \in Key \ {k} : Moved(j)
  BY <1>1, <1>3, Inserts
<1>5. /\ SweepTypes' /\ sweep'.pc = sweep.pc /\ sweep'.op = sweep.op /\ sweep'.arg = sweep.arg
      /\ sweep'.fresh = sweep.fresh /\ sweep'.cut = sweep.cut
      /\ sweep'.range = sweep.range /\ sweep'.want = sweep.want \ {k} /\ sweep'.key = sweep.key
  BY <1>1, <1>2, <1>4 DEF SweepTypes
<1>6. ASSUME NEW j \in sweep'.want
      PROVE  /\ j \in sweep.want
             /\ db'[j].st = db[j].st
             /\ Changed(j) => db'[j] = Apply(sweep.op, sweep.arg, db'[j])
  <2>1. j \in sweep.want /\ j \in Key \ {k}
    BY <1>1, <1>5 DEF SweepTypes
  <2> QED BY <1>1, <1>4, <2>1, MovedIs
<1>7. RangeInv'
  BY <1>1, <1>5 DEF RangeInv
<1>8. ScanInv'
  BY <1>1, <1>5, <1>6 DEF ScanInv, Changed, isOK
<1>9. SweepSound'
  BY <1>1, <1>5, <1>6 DEF SweepSound, Changed
<1> QED BY <1>2, <1>5, <1>7, <1>8, <1>9 DEF SweepInv, BatchInv

LEMMA NoSweep ==
  ASSUME version \in {0, 1}, NEW pc \in {"none", "ended", "died"}, NEW r, r = [Refused EXCEPT !.pc = pc]
  PROVE  /\ r \in [pc : {"none", "scan", "process", "giveup", "again", "ended", "failed", "died"},
                 op : {"delete", "persist", "expire", "expireat"}, arg : Int, key : Nat,
                 range : SUBSET Key, hash : BOOLEAN, todo : Seq(Key), ver : {0, 1},
                 passes : Nat, last : Nat, at : {"none", "list1", "older", "gone"}, want : SUBSET Key, fresh : BOOLEAN, cut : BOOLEAN]
         /\ r.pc = pc /\ r.range = {} /\ r.fresh = TRUE /\ r.want = {}
<1> DEFINE blank == Sweep("delete", 0, 1, {}, FALSE)
<1>1. <<>> \in Seq(Key) /\ NoKey \in Nat /\ {} \in SUBSET Key
  BY DEF NoKey
<1>2. {k \in {} : 1 \in {} /\ k >= 1 /\ isOK(k)} = {}
  OBVIOUS
<1>3. blank = [pc |-> "scan", op |-> "delete", arg |-> 0, key |-> 1, range |-> {}, hash |-> FALSE,
   todo |-> <<>>, ver |-> version, passes |-> 0, last |-> NoKey, at |-> "none",
   want |-> {}, fresh |-> TRUE, cut |-> FALSE]
  BY <1>2 DEF Sweep
<1> HIDE DEF blank
<1>4. /\ blank \in [pc : {"none", "scan", "process", "giveup", "again", "ended", "failed", "died"},
                 op : {"delete", "persist", "expire", "expireat"}, arg : Int, key : Nat,
                 range : SUBSET Key, hash : BOOLEAN, todo : Seq(Key), ver : {0, 1},
                 passes : Nat, last : Nat, at : {"none", "list1", "older", "gone"}, want : SUBSET Key, fresh : BOOLEAN, cut : BOOLEAN]
      /\ blank.range = {} /\ blank.fresh = TRUE /\ blank.want = {}
  BY <1>1, <1>3
<1>5. Refused = [blank EXCEPT !.pc = "ended"]
  BY DEF Refused, blank
<1>6. /\ Refused \in [pc : {"none", "scan", "process", "giveup", "again", "ended", "failed", "died"},
                 op : {"delete", "persist", "expire", "expireat"}, arg : Int, key : Nat,
                 range : SUBSET Key, hash : BOOLEAN, todo : Seq(Key), ver : {0, 1},
                 passes : Nat, last : Nat, at : {"none", "list1", "older", "gone"}, want : SUBSET Key, fresh : BOOLEAN, cut : BOOLEAN]
      /\ Refused.range = {} /\ Refused.fresh = TRUE /\ Refused.want = {}
  BY <1>4, <1>5
<1> QED BY <1>6

LEMMA RefusedIs ==
  ASSUME SweepTypes, NEW pc \in {"none", "ended", "died"}, sweep' = [Refused EXCEPT !.pc = pc],
         db' \in [Key -> [st : {"none", "dead", "ok"}, val : Int, exp : Int, mem : BOOLEAN]],
         version' \in {0, 1}
  PROVE  SweepInv'
<1>1. /\ sweep' \in [pc : {"none", "scan", "process", "giveup", "again", "ended", "failed", "died"},
                 op : {"delete", "persist", "expire", "expireat"}, arg : Int, key : Nat,
                 range : SUBSET Key, hash : BOOLEAN, todo : Seq(Key), ver : {0, 1},
                 passes : Nat, last : Nat, at : {"none", "list1", "older", "gone"}, want : SUBSET Key, fresh : BOOLEAN, cut : BOOLEAN]
      /\ sweep'.pc = pc /\ sweep'.range = {} /\ sweep'.fresh = TRUE /\ sweep'.want = {}
  <2>1. version \in {0, 1}
    BY DEF SweepTypes
  <2> QED BY <2>1, NoSweep
<1>2. SweepTypes'
  BY <1>1 DEF SweepTypes
<1>3. RangeInv'
  BY <1>1 DEF RangeInv
<1> QED BY <1>1, <1>2, <1>3, NothingExpected

LEMMA SweepStarts ==
  ASSUME SweepTypes, UNCHANGED <<db, version>>,
         NEW op \in {"delete", "persist", "expire", "expireat"}, NEW arg \in Int, NEW key \in Key,
         NEW range \in SUBSET Key, NEW hash \in BOOLEAN, \A i, j \in range : i .. j \subseteq range,
         sweep' = Sweep(op, arg, key, range, hash)
  PROVE  SweepInv'
<1>1. <<>> \in Seq(Key) /\ NoKey \in Nat /\ version \in {0, 1} /\ key \in Nat
  BY KeysAre DEF NoKey, SweepTypes
<1>2. /\ sweep'.pc = "scan" /\ sweep'.op = op /\ sweep'.key = key /\ sweep'.range = range /\ sweep'.fresh = TRUE
      /\ sweep'.want = {k \in range : key \in range /\ k >= key /\ isOK(k)}
  BY DEF Sweep
<1>3. SweepTypes'
  <2>1. {k \in range : key \in range /\ k >= key /\ isOK(k)} \in SUBSET Key
    OBVIOUS
  <2> QED BY <1>1, <2>1 DEF SweepTypes, Sweep
<1>4. RangeInv'
  BY <1>2 DEF RangeInv
<1>5. ScanInv' /\ BatchInv' /\ SweepSound'
  BY <1>2 DEF ScanInv, BatchInv, SweepSound, isOK
<1> QED BY <1>3, <1>4, <1>5 DEF SweepInv

LEMMA BeginKept ==
  ASSUME SweepInv, SweepBegin
  PROVE  SweepInv'
<1>1. SweepTypes /\ UNCHANGED <<db, version>> /\ sweep' \in Sweeps
  BY DEF SweepInv, SweepBegin
<1>2. CASE sweep' = Refused
  <2>1. Refused = [Refused EXCEPT !.pc = "ended"]
    BY DEF Refused, Sweep
  <2>2. /\ db' \in [Key -> [st : {"none", "dead", "ok"}, val : Int, exp : Int, mem : BOOLEAN]]
        /\ version' \in {0, 1}
    BY <1>1 DEF SweepTypes
  <2> QED BY <1>1, <1>2, <2>1, <2>2, RefusedIs
<1>3. ASSUME NEW op \in {"delete", "persist", "expire", "expireat"}, NEW arg \in Int,
             NEW prefix \in Prefix \cup {{}},
             (\E key \in Key : sweep' = WithPrefix(op, arg, key, prefix)) \/ sweep' = WithHash(op, arg, prefix)
      PROVE  SweepInv'
  <2>1. prefix # {} => /\ prefix \in SUBSET Key /\ \A i, j \in prefix : i .. j \subseteq prefix
                       /\ Min(prefix) \in Key
    <3>1. prefix # {} => prefix \in SUBSET Key /\ \A i, j \in prefix : i .. j \subseteq prefix
      BY ScansAssumption
    <3>2. prefix # {} => Min(prefix) \in prefix
      BY <3>1, KeysAre, MinFound
    <3> QED BY <3>1, <3>2
  <2>2. CASE prefix = {}
    BY <1>2, <1>3, <2>2 DEF WithPrefix, WithHash
  <2>3. CASE prefix # {}
    BY <1>1, <1>3, <2>1, <2>3, SweepStarts DEF WithPrefix, WithHash
  <2> QED BY <2>2, <2>3
<1>4. ASSUME NEW op \in {"delete", "persist", "expire", "expireat"}, NEW arg \in Int, NEW key \in Key,
             NEW end \in Key \cup {NoKey}, sweep' = WithRange(op, arg, key, end)
      PROVE  SweepInv'
  <2>1. end # NoKey => 1 .. end \in SUBSET Key /\ \A i, j \in 1 .. end : i .. j \subseteq 1 .. end
    <3> SUFFICES ASSUME end # NoKey
                 PROVE  1 .. end \in SUBSET Key /\ \A i, j \in 1 .. end : i .. j \subseteq 1 .. end
      OBVIOUS
    <3>1. Key = 1 .. Cardinality(Key) /\ Cardinality(Key) \in Nat /\ end \in Nat /\ end <= Cardinality(Key)
      BY KeysAre, ScansAssumption
    <3> HIDE DEF NoKey
    <3>2. 1 .. end \subseteq 1 .. Cardinality(Key)
      BY <3>1
    <3> QED BY <3>1, <3>2
  <2> QED BY <1>1, <1>2, <1>4, <2>1, SweepStarts DEF WithRange
<1>5. Edges \subseteq Key /\ Expirations \subseteq Int /\ 0 \in Int
  BY ScansAssumption
<1> DEFINE Ps == {"delete", "persist", "expire", "expireat"}
           ByPrefix == \E op \in Ps, arg \in Int, key \in Key, prefix \in Prefix \cup {{}} :
                         sweep' = WithPrefix(op, arg, key, prefix)
           ByHash   == \E op \in Ps, arg \in Int, prefix \in Prefix \cup {{}} :
                         sweep' = WithHash(op, arg, prefix)
           ByRange  == \E op \in Ps, arg \in Int, key \in Key, end \in Key \cup {NoKey} :
                         sweep' = WithRange(op, arg, key, end)
<1>6. ByPrefix \/ ByHash \/ ByRange
  <2>1. ASSUME NEW k \in Edges, NEW q \in Prefix \cup {{}}, NEW t \in Expirations,
               sweep' \in {XNDEL(k, q), XNPERSIST(k, q), XNEXPIRE(k, t, q), XNEXPIREAT(k, t, q)}
        PROVE  ByPrefix
    BY <1>5, <2>1 DEF XNDEL, XNPERSIST, XNEXPIRE, XNEXPIREAT
  <2>2. ASSUME NEW q \in Prefix \cup {{}}, NEW t \in Expirations,
               sweep' \in {HDELALL(q), HPERSISTALL(q), HEXPIREALL(q, t), HEXPIREATALL(q, t)}
        PROVE  ByHash
    BY <1>5, <2>2 DEF HDELALL, HPERSISTALL, HEXPIREALL, HEXPIREATALL
  <2>3. ASSUME NEW k \in Edges, NEW end \in Edges \cup {NoKey}, NEW t \in Expirations,
               sweep' \in {XRDEL(k, end), XRPERSIST(k, end), XREXPIRE(k, t, end), XREXPIREAT(k, t, end)}
        PROVE  ByRange
    BY <1>5, <2>3 DEF XRDEL, XRPERSIST, XREXPIRE, XREXPIREAT
  <2>4. ASSUME NEW k \in Edges, NEW q \in Prefix \cup {{}},
               sweep' \in {XNDEL(k, q), XNPERSIST(k, q)}
        PROVE  ByPrefix
    BY <1>5, <2>4 DEF XNDEL, XNPERSIST
  <2>5. ASSUME NEW q \in Prefix, sweep' \in {HDELALL(q), HPERSISTALL(q)}
        PROVE  ByHash
    BY <1>5, <2>5 DEF HDELALL, HPERSISTALL
  <2>6. ASSUME NEW k \in Edges, NEW end \in Edges \cup {NoKey},
               sweep' \in {XRDEL(k, end), XRPERSIST(k, end)}
        PROVE  ByRange
    BY <1>5, <2>6 DEF XRDEL, XRPERSIST
  <2> HIDE DEF ByPrefix, ByHash, ByRange
  <2>7. \/ \E k \in Edges, q \in Prefix \cup {{}} : sweep' = XNDEL(k, q)
        \/ \E k \in Edges, end \in Edges \cup {NoKey} : sweep' = XRDEL(k, end)
        \/ \E q \in Prefix : sweep' = HDELALL(q)
        \/ \E k \in Edges, q \in Prefix : sweep' = XNPERSIST(k, q)
        \/ \E k \in Edges, end \in Edges : sweep' = XRPERSIST(k, end)
        \/ \E q \in Prefix : sweep' = HPERSISTALL(q)
        \/ \E k \in Edges, q \in Prefix, t \in Expirations : sweep' = XNEXPIRE(k, t, q)
        \/ \E k \in Edges, end \in Edges, t \in Expirations : sweep' = XREXPIRE(k, t, end)
        \/ \E q \in Prefix, t \in Expirations : sweep' = HEXPIREALL(q, t)
        \/ \E k \in Edges, q \in Prefix, t \in Expirations : sweep' = XNEXPIREAT(k, t, q)
        \/ \E k \in Edges, end \in Edges, t \in Expirations : sweep' = XREXPIREAT(k, t, end)
        \/ \E q \in Prefix, t \in Expirations : sweep' = HEXPIREATALL(q, t)
    BY <1>1 DEF Sweeps
  <2> QED BY <2>1, <2>2, <2>3, <2>4, <2>5, <2>6, <2>7
<1> QED BY <1>3, <1>4, <1>6

LEMMA SweepKept ==
  ASSUME SweepInv, UNCHANGED <<db, version, sweep>>
  PROVE  SweepInv'
BY DEF SweepInv, SweepTypes, RangeInv, ScanInv, BatchInv, SweepSound, Changed, isOK

LEMMA ScansNextInv ==
  ASSUME SweepInv, ScansNext
  PROVE  SweepInv'
<1>1. CASE SweepDies
  <2>1. SweepTypes /\ sweep' = [Refused EXCEPT !.pc = "died"] /\ db' = Flushed /\ version' = 0
    BY <1>1 DEF SweepInv, SweepDies
  <2>2. Flushed \in [Key -> [st : {"none", "dead", "ok"}, val : Int, exp : Int, mem : BOOLEAN]]
    BY <2>1 DEF SweepTypes, Flushed
  <2> QED BY <2>1, <2>2, RefusedIs
<1>2. CASE PageBegin \/ PageNext \/ NextBegin \/ NextNext
  BY <1>2, SweepKept DEF PageBegin, PageNext, NextBegin, NextNext
<1> QED
  BY <1>1, <1>2, BeginKept, ScanKept, ProcessKept, DoneKept, GiveUpKept, AgainKept, OtherKept
  DEF ScansNext, SweepStep

LEMMA SweepInit == ScansInit => SweepInv
<1> SUFFICES ASSUME ScansInit PROVE SweepInv
  OBVIOUS
<1>1. /\ db \in [Key -> InitialPairs] /\ version = 0 /\ sweep = [Refused EXCEPT !.pc = "none"]
  BY DEF ScansInit
<1>2. db \in [Key -> [st : {"none", "dead", "ok"}, val : Int, exp : Int, mem : BOOLEAN]]
  <2>1. (CHOOSE v \in Value : TRUE) \in Int
    BY ScansAssumption
  <2>2. InitialPairs \subseteq [st : {"none", "dead", "ok"}, val : Int, exp : Int, mem : BOOLEAN]
    <3> DEFINE v0 == CHOOSE v \in Value : TRUE
    <3>1. v0 \in Int
      BY <2>1
    <3>2. APair = Pair(v0, 0)
      BY DEF APair
    <3> HIDE DEF v0
    <3>3. APair \in [st : {"none", "dead", "ok"}, val : Int, exp : Int, mem : BOOLEAN]
      BY <3>1, <3>2 DEF Pair
    <3>4. [APair EXCEPT !.mem = FALSE] \in [st : {"none", "dead", "ok"}, val : Int, exp : Int, mem : BOOLEAN]
      BY <3>3
    <3> QED BY <3>3, <3>4, DeadNone DEF InitialPairs
  <2> QED BY <1>1, <2>2
<1>3. SweepTypes /\ sweep.pc = "none" /\ sweep.range = {} /\ sweep.want = {} /\ sweep.fresh = TRUE
  <2>1. version \in {0, 1}
    BY <1>1
  <2>2. "none" \in {"none", "ended", "died"}
    OBVIOUS
  <2> QED BY <1>1, <1>2, <2>1, <2>2, NoSweep DEF SweepTypes
<1> QED BY <1>3 DEF SweepInv, RangeInv, ScanInv, BatchInv, SweepSound

-----------------------------------------------------------------------------
(* Clients that page.                                                        *)

(* Two lists, one after the other.                                           *)
LEMMA Joined ==
  ASSUME NEW U, NEW p \in Seq(U), NEW q \in Seq(U)
  PROVE  /\ p \o q \in Seq(U) /\ Len(p \o q) = Len(p) + Len(q)
         /\ \A j \in 1 .. Len(p) + Len(q) : (p \o q)[j] = IF j <= Len(p) THEN p[j] ELSE q[j - Len(p)]
OBVIOUS

(* A list of pairs, put together.                                             *)
LEMMA PairsFlat ==
  ASSUME NEW U, NEW s \in Seq(U \X U)
  PROVE  /\ Len(FlattenSeq(s)) = 2 * Len(s)
         /\ \A i \in 1 .. Len(s) : FlattenSeq(s)[2 * i - 1] = s[i][1]
<1> DEFINE n     == Len(s)
           flat  == FlattenSeq(s)
           At(j) == IF j % 2 = 1 THEN s[(j + 1) \div 2][1] ELSE s[j \div 2][2]
           g     == [i \in 1 .. n |-> [j \in 1 .. 2 * i |-> At(j)]]
           Is(f) == f = [i \in 1 .. n |-> IF i = 1 THEN s[i] ELSE f[i - 1] \o s[i]]
           f0    == CHOOSE f : Is(f)
<1>1. n \in Nat /\ \A i \in 1 .. n : s[i] = <<s[i][1], s[i][2]>> /\ s[i][1] \in U /\ s[i][2] \in U
  OBVIOUS
<1>2. n # 0 => flat = f0[n]
  BY DEF FlattenSeq
<1>3. n = 0 => flat = <<>> /\ s = <<>>
  BY DEF FlattenSeq
<1> HIDE DEF n, flat
<1>4. ASSUME NEW i \in 1 .. n
      PROVE  /\ At(2 * i - 1) = s[i][1] /\ At(2 * i) = s[i][2]
  <2>1. (2 * i - 1) % 2 = 1 /\ ((2 * i - 1) + 1) \div 2 = i /\ (2 * i) % 2 = 0 /\ (2 * i) \div 2 = i
    BY <1>1
  <2> QED BY <2>1
<1>5. ASSUME NEW i \in 1 .. n, NEW j \in 1 .. 2 * i PROVE At(j) \in U
  <2>1. j % 2 = 1 => (j + 1) \div 2 \in 1 .. n
    BY <1>1
  <2>2. j % 2 # 1 => j \div 2 \in 1 .. n
    BY <1>1
  <2> QED BY <1>1, <2>1, <2>2
<1> HIDE DEF At
<1>6. ASSUME NEW i \in 1 .. n
      PROVE  g[i] = [j \in 1 .. 2 * i |-> At(j)] /\ g[i] \in Seq(U) /\ Len(g[i]) = 2 * i
  <2>1. g[i] = [j \in 1 .. 2 * i |-> At(j)]
    OBVIOUS
  <2> HIDE DEF g
  <2>2. 2 * i \in Nat
    BY <1>1
  <2>3. g[i] \in [1 .. 2 * i -> U]
    BY <1>5, <2>1
  <2> QED BY <2>1, <2>2, <2>3
<1>7. ASSUME NEW i \in 1 .. n, NEW q, IF i = 1 THEN q = <<>> ELSE q = g[i - 1]
      PROVE  g[i] = q \o s[i]
  <2>1. s[i] = <<At(2 * i - 1), At(2 * i)>>
    BY <1>1, <1>4
  <2>2. q = [j \in 1 .. 2 * (i - 1) |-> At(j)] /\ q \in Seq(U) /\ Len(q) = 2 * (i - 1)
    <3>1. CASE i = 1
      <4>1. q = [j \in 1 .. 0 |-> At(j)]
        BY <1>7, <3>1
      <4> QED BY <1>7, <3>1, <4>1
    <3>2. CASE i # 1
      <4>1. i - 1 \in 1 .. n
        BY <1>1, <3>2
      <4> HIDE DEF g
      <4> QED BY <1>6, <1>7, <3>2, <4>1
    <3> QED BY <3>1, <3>2
  <2>3. s[i] \in Seq(U) /\ Len(s[i]) = 2 /\ s[i][1] = At(2 * i - 1) /\ s[i][2] = At(2 * i)
    <3> DEFINE a == At(2 * i - 1)
               b == At(2 * i)
    <3>1. s[i] = <<a, b>> /\ a \in U /\ b \in U
      BY <1>1, <1>4, <2>1
    <3> HIDE DEF a, b
    <3> QED BY <3>1 DEF a, b
  <2> DEFINE z == s[i]
             r == q \o z
             m == 2 * (i - 1)
  <2>4. q \in Seq(U) /\ z \in Seq(U) /\ Len(q) = m /\ Len(z) = 2 /\ m \in Nat /\ m + 2 = 2 * i
    BY <1>1, <2>2, <2>3
  <2>5. \A j \in 1 .. m : q[j] = At(j)
    BY <2>2
  <2>6. z[1] = At(m + 1) /\ z[2] = At(m + 2)
    BY <1>1, <2>3
  <2> HIDE DEF z, m, g
  <2>7. /\ r \in Seq(U) /\ Len(r) = m + 2
        /\ \A j \in 1 .. m : r[j] = q[j]
        /\ r[m + 1] = z[1] /\ r[m + 2] = z[2]
    <3>1. r \in Seq(U) /\ Len(r) = Len(q) + Len(z)
      BY <2>4, Joined
    <3>2. ASSUME NEW j \in 1 .. Len(q) + Len(z)
          PROVE  r[j] = IF j <= Len(q) THEN q[j] ELSE z[j - Len(q)]
      BY <2>4, Joined
    <3> HIDE DEF r
    <3>3. m + 1 \in 1 .. m + 2 /\ m + 2 \in 1 .. m + 2 /\ ~ (m + 1 <= m) /\ ~ (m + 2 <= m)
          /\ (m + 1) - m = 1 /\ (m + 2) - m = 2
      BY <2>4
    <3> QED BY <2>4, <3>1, <3>2, <3>3
  <2> HIDE DEF r
  <2>8. \A j \in 1 .. m + 2 : r[j] = At(j)
    BY <2>4, <2>5, <2>6, <2>7
  <2>9. r = [j \in 1 .. m + 2 |-> r[j]]
    BY <2>7
  <2>10. r = [j \in 1 .. m + 2 |-> At(j)]
    BY <2>8, <2>9
  <2> QED BY <1>6, <2>4, <2>10 DEF r, z
<1>8. Is(g)
  <2>1. ASSUME NEW i \in 1 .. n PROVE g[i] = IF i = 1 THEN s[i] ELSE g[i - 1] \o s[i]
    <3>1. CASE i = 1
      <4>1. g[i] = <<>> \o s[i]
        BY <1>7, <3>1
      <4>2. s[i] \in Seq(U)
        <5> DEFINE a == s[i][1]
                   b == s[i][2]
        <5>1. s[i] = <<a, b>> /\ a \in U /\ b \in U
          BY <1>1
        <5> HIDE DEF a, b
        <5> QED BY <5>1
      <4> QED BY <3>1, <4>1, <4>2
    <3>2. CASE i # 1
      BY <1>7, <3>2
    <3> QED BY <3>1, <3>2
  <2> QED BY <2>1
<1>9. Is(f0)
  <2> HIDE DEF Is
  <2> QED BY <1>8
<1> HIDE DEF f0
<1>10. n # 0 => f0[n] = g[n]
  <2> DEFINE T == {i \in 0 .. n : i # 0 => f0[i] = g[i]}
  <2>0. \A i \in 1 .. n : /\ f0[i] = IF i = 1 THEN s[i] ELSE f0[i - 1] \o s[i]
                          /\ g[i] = IF i = 1 THEN s[i] ELSE g[i - 1] \o s[i]
    <3> HIDE DEF g
    <3> QED BY <1>8, <1>9
  <2> HIDE DEF g
  <2>1. 0 \in T
    BY <1>1
  <2>2. ASSUME NEW i \in 1 .. n, i - 1 \in T PROVE i \in T
    <3>1. i - 1 # 0 => f0[i - 1] = g[i - 1]
      BY <2>2
    <3>2. f0[i] = g[i]
      BY <1>1, <2>0, <3>1
    <3> QED BY <1>1, <3>2
  <2>3. \A i \in 0 .. n : i \in T
    <3> HIDE DEF T
    <3> QED BY <1>1, <2>1, <2>2, UpTo
  <2> QED BY <1>1, <2>3
<1>11. CASE n = 0
  BY <1>3, <1>11 DEF n, flat
<1>12. CASE n # 0
  <2>1. n \in 1 .. n
    BY <1>1, <1>12
  <2>2. flat = [j \in 1 .. 2 * n |-> At(j)] /\ flat \in Seq(U) /\ Len(flat) = 2 * n
    <3> HIDE DEF g
    <3> QED BY <1>2, <1>6, <1>10, <1>12, <2>1
  <2>3. \A i \in 1 .. n : 2 * i - 1 \in 1 .. 2 * n
    BY <1>1
  <2>4. \A i \in 1 .. n : flat[2 * i - 1] = At(2 * i - 1)
    BY <2>2, <2>3
  <2>5. \A i \in 1 .. n : flat[2 * i - 1] = s[i][1]
    BY <1>4, <2>4
  <2> QED BY <2>2, <2>5 DEF n, flat
<1> QED BY <1>11, <1>12

LEMMA KeysAnswered ==
  ASSUME NEW out \in {"keys1", "both"}, NEW w, w.took \in Seq(Key)
  PROVE  KeysOf(Output(out, w).items) = w.took /\ Output(out, w).tail = w.tail
<1> DEFINE t    == w.took
           n    == Len(t)
           x(k) == IF out = "keys1" THEN 1 ELSE db[k].val
           U    == Key \cup {x(k) : k \in Key}
           s    == [i \in 1 .. n |-> <<t[i], x(t[i])>>]
           flat == FlattenSeq(s)
<1>1. n \in Nat /\ DOMAIN t = 1 .. n /\ \A i \in 1 .. n : t[i] \in Key
  OBVIOUS
<1>2. Output(out, w) = [items |-> flat, tail |-> w.tail]
  <2>1. \A k : Project(out, k) = <<k, x(k)>>
    BY DEF Project
  <2>2. [i \in DOMAIN w.took |-> Project(out, w.took[i])] = s
    BY <1>1, <2>1
  <2> QED BY <2>2 DEF Output
<1>3. s \in Seq(U \X U) /\ Len(s) = n /\ \A i \in 1 .. n : s[i][1] = t[i]
  <2> DEFINE p(i) == <<t[i], x(t[i])>>
  <2>1. \A i \in 1 .. n : p(i) \in U \X U
    BY <1>1
  <2>2. s = [i \in 1 .. n |-> p(i)] /\ \A i \in 1 .. n : p(i)[1] = t[i]
    OBVIOUS
  <2> HIDE DEF p, s, n
  <2> QED BY <1>1, <2>1, <2>2
<1> HIDE DEF x, U, s
<1>4. Len(flat) = 2 * n /\ \A i \in 1 .. n : flat[2 * i - 1] = t[i]
  <2>1. Len(flat) = 2 * Len(s) /\ \A i \in 1 .. Len(s) : flat[2 * i - 1] = s[i][1]
    BY <1>3, PairsFlat
  <2> HIDE DEF flat, n
  <2> QED BY <1>3, <2>1
<1> HIDE DEF flat, n
<1>5. KeysOf(flat) = [i \in 1 .. n |-> flat[2 * i - 1]]
  <2>1. (2 * n) \div 2 = n
    BY <1>1
  <2> QED BY <1>4, <2>1 DEF KeysOf
<1>6. KeysOf(flat) = t
  <2>1. t = [i \in 1 .. n |-> t[i]]
    BY <1>1
  <2> QED BY <1>4, <1>5, <2>1
<1> QED BY <1>2, <1>6

(* What a scan took, and where it goes on, whatever limit or predicate ended  *)
(* it.                                                                       *)
LEMMA WalkIs ==
  ASSUME SweepTypes, NEW key \in Key, NEW stops \in SUBSET Key, NEW results, NEW loops,
         NEW w, w = Walk(key, stops, results, loops)
  PROVE  /\ w.took \in Seq(Key)
         /\ \A i, j \in DOMAIN w.took : i < j => w.took[i] < w.took[j]
         /\ \A k \in ToSet(w.took) : k >= key
         /\ w.tail = NoKey =>
              \A k \in Key : isOK(k) /\ k >= key =>
                k \in ToSet(w.took) \/ \E h \in stops : key <= h /\ h <= k
         /\ w.tail # NoKey =>
              /\ w.tail \in Key /\ w.tail >= key
              /\ \A k \in ToSet(w.took) : k < w.tail
              /\ \A k \in Key : isOK(k) /\ k >= key => k \in ToSet(w.took) \/ k >= w.tail
<1> DEFINE ks    == find(key)
           ok(k) == Cardinality({j \in ks : j <= k /\ isOK(j)})
           halts == {k \in ks : \/ passed(ks, k) >= loops \/ k \in stops
                                \/ isOK(k) /\ ok(k) > results}
           first == Min(halts)
           ended == halts = {} \/ (passed(ks, first) < loops /\ first \in stops)
           live  == {k \in ks : isOK(k) /\ Reached(halts, k)}
<1>1. w = [took |-> Listed(live), tail |-> IF ended THEN NoKey ELSE first]
  BY DEF Walk
<1>2. halts \subseteq ks
  OBVIOUS
<1>3. halts # {} => first \in halts /\ \A h \in halts : first <= h
  <2>1. halts \in SUBSET Nat
    BY <1>2, KeysAre DEF find, Present
  <2> HIDE DEF halts
  <2> QED BY <2>1, MinFound
<1>5. ended /\ halts # {} => first \in stops
  <2> HIDE DEF halts, first, ks
  <2> QED OBVIOUS
<1> HIDE DEF halts, first, ended
<1>6. ended \/ halts # {}
  BY DEF ended
<1>7. ks \subseteq Key /\ key \in Nat /\ Key \subseteq Nat \ {0} /\ \A k \in ks : k >= key
  BY KeysAre DEF find, Present
<1>8. \A k \in Key : isOK(k) /\ k >= key => k \in ks
  BY DEF find, Present, isOK
<1> HIDE DEF ks
<1>9. live \in SUBSET Key
  BY <1>7
<1>10. /\ w.took \in Seq(Key) /\ ToSet(w.took) = live
       /\ \A i, j \in DOMAIN w.took : i < j => w.took[i] < w.took[j]
  <2> HIDE DEF live
  <2>1. w.took = Listed(live)
    BY <1>1
  <2>2. Listed(live) \in Seq(live)
    BY <1>9, ListedIs
  <2> QED BY <1>9, <2>1, <2>2, ListedIs
<1>11. \A k \in live : k >= key
  BY <1>7
<1>12. ASSUME halts # {}
       PROVE  /\ first \in Key /\ first >= key
              /\ \A k \in live : k < first
              /\ \A k \in Key : isOK(k) /\ k >= key => k \in live \/ k >= first
  <2>1. first \in halts /\ first \in Key /\ first >= key
    BY <1>2, <1>3, <1>7, <1>12
  <2>2. \A k \in live : k < first
    BY <2>1 DEF Reached
  <2>3. ASSUME NEW k \in Key, isOK(k), k >= key, ~ (k >= first) PROVE k \in live
    <3>1. \A h \in halts : k < h
      <4>1. \A h \in halts : h \in Nat /\ first <= h
        BY <1>2, <1>3, <1>7, <1>12
      <4>2. k \in Nat /\ first \in Nat
        BY <1>7, <2>1
      <4> QED BY <2>3, <4>1, <4>2
    <3> QED BY <1>8, <2>3, <3>1 DEF Reached
  <2> QED BY <2>1, <2>2, <2>3
<1>13. halts = {} => \A k \in Key : isOK(k) /\ k >= key => k \in live
  BY <1>8 DEF Reached
<1> HIDE DEF live
<1>14. ASSUME w.tail = NoKey
       PROVE  \A k \in Key : isOK(k) /\ k >= key =>
                k \in ToSet(w.took) \/ \E h \in stops : key <= h /\ h <= k
  <2>1. ended
    <3>1. ~ ended => first = NoKey /\ first \in Key
      BY <1>1, <1>6, <1>12, <1>14
    <3> QED BY <1>7, <3>1 DEF NoKey
  <2>2. CASE halts = {}
    BY <1>10, <1>13, <2>2
  <2>3. CASE halts # {}
    <3>1. first \in stops /\ first \in Nat
      BY <1>5, <1>7, <1>12, <2>1, <2>3
    <3>2. \A k \in Key : isOK(k) /\ k >= key => k \in live \/ (key <= first /\ first <= k)
      <4>1. \A k \in Key : k \in Nat
        BY <1>7
      <4> QED BY <1>7, <1>12, <2>3, <3>1, <4>1
    <3> QED BY <1>10, <3>1, <3>2
  <2> QED BY <2>2, <2>3
<1>15. ASSUME w.tail # NoKey
       PROVE  /\ w.tail \in Key /\ w.tail >= key
              /\ \A k \in ToSet(w.took) : k < w.tail
              /\ \A k \in Key : isOK(k) /\ k >= key => k \in ToSet(w.took) \/ k >= w.tail
  <2>1. ~ ended /\ w.tail = first /\ halts # {}
    BY <1>1, <1>6, <1>15
  <2> QED BY <1>10, <1>12, <2>1
<1> QED BY <1>10, <1>11, <1>14, <1>15

(* They are in order if each is, and the one before the other.               *)
LEMMA JoinedAscending ==
  ASSUME NEW p \in Seq(Key), NEW q \in Seq(Key),
         \A i, j \in DOMAIN p : i < j => p[i] < p[j],
         \A i, j \in DOMAIN q : i < j => q[i] < q[j],
         \A a \in ToSet(p), b \in ToSet(q) : a < b
  PROVE  /\ p \o q \in Seq(Key) /\ ToSet(p \o q) = ToSet(p) \cup ToSet(q)
         /\ \A i, j \in DOMAIN (p \o q) : i < j => (p \o q)[i] < (p \o q)[j]
<1> DEFINE r == p \o q
           m == Len(p)
           n == Len(q)
<1>1. m \in Nat /\ n \in Nat /\ DOMAIN p = 1 .. m /\ DOMAIN q = 1 .. n
  OBVIOUS
<1>2. /\ r \in Seq(Key) /\ Len(r) = m + n
      /\ \A j \in 1 .. m + n : r[j] = IF j <= m THEN p[j] ELSE q[j - m]
  BY Joined
<1>3. DOMAIN r = 1 .. m + n
  BY <1>2
<1> HIDE DEF r, m, n
<1>4. ASSUME NEW j \in 1 .. m + n
      PROVE  (j <= m /\ j \in 1 .. m /\ r[j] = p[j]) \/ (~ (j <= m) /\ j - m \in 1 .. n /\ r[j] = q[j - m])
  BY <1>1, <1>2
<1>5. \A j \in 1 .. m : j \in 1 .. m + n /\ r[j] = p[j]
  BY <1>1, <1>2
<1>6. ASSUME NEW j \in 1 .. n PROVE j + m \in 1 .. m + n /\ r[j + m] = q[j]
  <2>1. j + m \in 1 .. m + n /\ ~ (j + m <= m) /\ (j + m) - m = j
    BY <1>1
  <2> QED BY <1>2, <2>1
<1>7. ToSet(r) = ToSet(p) \cup ToSet(q)
  <2>1. ToSet(r) \subseteq ToSet(p) \cup ToSet(q)
    BY <1>1, <1>3, <1>4 DEF ToSet
  <2>2. ToSet(p) \subseteq ToSet(r)
    BY <1>1, <1>3, <1>5 DEF ToSet
  <2>3. ToSet(q) \subseteq ToSet(r)
    BY <1>1, <1>3, <1>6 DEF ToSet
  <2> QED BY <2>1, <2>2, <2>3
<1>8. ASSUME NEW i \in 1 .. m + n, NEW j \in 1 .. m + n, i < j PROVE r[i] < r[j]
  <2>1. CASE j <= m
    BY <1>1, <1>4, <1>8, <2>1
  <2>2. CASE ~ (j <= m) /\ i <= m
    <3>1. p[i] \in ToSet(p) /\ r[i] = p[i]
      BY <1>1, <1>4, <2>2 DEF ToSet
    <3>2. q[j - m] \in ToSet(q) /\ r[j] = q[j - m]
      BY <1>1, <1>4, <2>2 DEF ToSet
    <3> QED BY <3>1, <3>2
  <2>3. CASE ~ (i <= m)
    <3>1. ~ (j <= m) /\ i - m < j - m
      BY <1>1, <1>8, <2>3
    <3> QED BY <1>1, <1>4, <2>3, <3>1
  <2> QED BY <2>1, <2>2, <2>3
<1> QED BY <1>2, <1>3, <1>7, <1>8 DEF r

LEMMA MaxFound ==
  ASSUME NEW S \in SUBSET Key, S # {}
  PROVE  Max(S) \in S /\ \A s \in S : s <= Max(S)
<1>1. S \in SUBSET Nat /\ Cardinality(Key) \in Nat /\ \A s \in S : s <= Cardinality(Key)
  BY KeysAre
<1>2. \E m \in S : \A s \in S : s <= m
  BY <1>1, LargestExists
<1>3. \E m \in S : \A s \in S : m >= s
  BY <1>1, <1>2
<1>4. Max(S) \in S /\ \A s \in S : Max(S) >= s
  BY <1>3 DEF Max
<1> QED BY <1>1, <1>4

(* The commands that page are walks that stop at nothing in their range.     *)
LEMMA CommandIs ==
  ASSUME PageTypes, NextPageInv, page.pc = "on", page.range # {}
  PROVE  \E out \in {"keys1", "both"}, stops \in SUBSET Key : \E w :
           /\ PageCommand(page) = Output(out, w)
           /\ \E results : w = Walk(page.key, stops, results, LoopsMax)
           /\ \A h \in stops, k \in page.range : ~ (page.key <= h /\ h <= k)
<1> DEFINE key   == page.key
           range == page.range
           n     == myClamp(page.count, CountMin, CountMax)
           Good(stops) == stops \in SUBSET Key /\ \A h \in stops, k \in range : ~ (key <= h /\ h <= k)
           Is(out, stops) == PageCommand(page) = Output(out, Walk(key, stops, n, LoopsMax))
<1>1. /\ page.cmd \in {"xn", "xr", "xu", "xnboth", "xrboth", "xuboth"}
      /\ range \subseteq Key /\ range # {}
      /\ \A i, j \in range : i .. j \subseteq range
      /\ key \in Key /\ \E k \in range : k <= key
      /\ page.cmd \in {"xu", "xuboth"} => range = Key
  BY DEF PageTypes, NextPageInv
<1>2. \A k \in Key : k \in Nat \ {0}
  BY KeysAre
<1>3. Max(range) \in range /\ (\A k \in range : k <= Max(range)) /\ Max(range) # NoKey
  BY <1>1, <1>2, MaxFound DEF NoKey
<1>4. Good(StopPrefixPredicate(range))
  <2>1. PICK r \in range : r <= key
    BY <1>1
  <2>2. ASSUME NEW h \in Key \ range, NEW k \in range, key <= h, h <= k PROVE FALSE
    <3>1. r \in Nat /\ key \in Nat /\ h \in Nat /\ k \in Nat
      BY <1>1, <1>2
    <3>2. h \in r .. k
      BY <2>1, <2>2, <3>1
    <3> QED BY <1>1, <3>2
  <2> QED BY <2>2 DEF StopPrefixPredicate
<1>5. Good(StopRangePredicate(Max(range)))
  <2>1. ASSUME NEW h \in Key, h > Max(range), NEW k \in range, h <= k PROVE FALSE
    <3>1. h \in Nat /\ k \in Nat /\ Max(range) \in Nat /\ k <= Max(range)
      BY <1>1, <1>2, <1>3
    <3> QED BY <2>1, <3>1
  <2> QED BY <2>1 DEF StopRangePredicate
<1>6. Good(StopUnboundPredicate)
  BY DEF StopUnboundPredicate
<1> HIDE DEF range, key
<1>7. page.cmd = "xn" => Is("keys1", StopPrefixPredicate(range))
  BY <1>1 DEF PageCommand, XNGETKEYS, GetPrefix, accumulateResultsX, sharedAccumulatePairs, range, key
<1>8. page.cmd = "xnboth" => Is("both", StopPrefixPredicate(range))
  BY <1>1 DEF PageCommand, XNGET, GetPrefix, accumulateResultsX, sharedAccumulatePairs, range, key
<1>9. page.cmd = "xr" => Is("keys1", StopRangePredicate(Max(range)))
  BY <1>3 DEF PageCommand, XRGETKEYS, GetRange, accumulateResultsX, sharedAccumulatePairs, range, key
<1>10. page.cmd = "xrboth" => Is("both", StopRangePredicate(Max(range)))
  BY <1>3 DEF PageCommand, XRGET, GetRange, accumulateResultsX, sharedAccumulatePairs, range, key
<1>11. page.cmd = "xu" => Is("keys1", StopUnboundPredicate)
  BY DEF PageCommand, XUGETKEYS, accumulateResultsX, sharedAccumulatePairs, range, key
<1>12. page.cmd = "xuboth" => Is("both", StopUnboundPredicate)
  BY DEF PageCommand, XUGET, accumulateResultsX, sharedAccumulatePairs, range, key
<1>13. ASSUME NEW out \in {"keys1", "both"}, NEW stops, Good(stops), Is(out, stops)
       PROVE  \E o \in {"keys1", "both"}, t \in SUBSET Key : \E w :
           /\ PageCommand(page) = Output(o, w)
           /\ \E results : w = Walk(page.key, t, results, LoopsMax)
           /\ \A h \in t, k \in page.range : ~ (page.key <= h /\ h <= k)
  <2> DEFINE v == Walk(key, stops, n, LoopsMax)
  <2>1. PageCommand(page) = Output(out, v) /\ v = Walk(page.key, stops, n, LoopsMax)
    BY <1>13 DEF key
  <2>2. stops \in SUBSET Key /\ \A h \in stops, k \in page.range : ~ (page.key <= h /\ h <= k)
    BY <1>13 DEF key, range
  <2> HIDE DEF v, n
  <2> QED BY <2>1, <2>2
<1> HIDE DEF Good, Is
<1> QED BY <1>1, <1>4, <1>5, <1>6, <1>7, <1>8, <1>9, <1>10, <1>11, <1>12, <1>13

LEMMA PageNextKept ==
  ASSUME SweepTypes, PageInv, PageNext
  PROVE  PageInv'
<1> DEFINE got  == page.got
           key  == page.key
<1>1. page.pc = "on" /\ page.range # {} /\ UNCHANGED <<db, sweep>> /\ PageTypes /\ GotInv /\ NextPageInv
  BY DEF PageNext, PageInv
<1> DEFINE Is(out, stops, w) ==
             /\ PageCommand(page) = Output(out, w)
             /\ \E results : w = Walk(key, stops, results, LoopsMax)
             /\ \A h \in stops, k \in page.range : ~ (key <= h /\ h <= k)
<1>0. PICK out \in {"keys1", "both"}, stops \in SUBSET Key : \E w : Is(out, stops, w)
  BY <1>1, CommandIs
<1>2. PICK w : Is(out, stops, w)
  BY <1>0
<1>3. /\ page.cmd # "xnnext" /\ got \in Seq(Key) /\ page.due \subseteq page.range /\ page.range \subseteq Key
      /\ key \in Key /\ (\A k \in ToSet(got) : k < key) /\ sweep.pc = "none"
      /\ \E k \in page.range : k <= key
  BY <1>1 DEF PageTypes, NextPageInv
<1>4. /\ w.took \in Seq(Key)
      /\ \A i, j \in DOMAIN w.took : i < j => w.took[i] < w.took[j]
      /\ \A k \in ToSet(w.took) : k >= key
      /\ w.tail = NoKey =>
           \A k \in Key : isOK(k) /\ k >= key =>
             k \in ToSet(w.took) \/ \E h \in stops : key <= h /\ h <= k
      /\ w.tail # NoKey =>
           /\ w.tail \in Key /\ w.tail >= key
           /\ \A k \in ToSet(w.took) : k < w.tail
           /\ \A k \in Key : isOK(k) /\ k >= key => k \in ToSet(w.took) \/ k >= w.tail
  <2>1. PICK results : w = Walk(key, stops, results, LoopsMax)
    BY <1>2
  <2>2. SweepTypes /\ key \in Key
    BY <1>3
  <2> HIDE DEF key
  <2> QED BY <2>1, <2>2, WalkIs
<1>5. \A k \in Key : k \in Nat \ {0}
  BY KeysAre
<1>6. page' = [page EXCEPT !.got = got \o w.took, !.key = w.tail,
                           !.pc = IF w.tail = NoKey THEN "ended" ELSE "on"]
  <2>1. KeysOf(Output(out, w).items) = w.took /\ Output(out, w).tail = w.tail
    BY <1>4, KeysAnswered
  <2> QED BY <1>2, <2>1 DEF PageNext
<1>7. /\ got \o w.took \in Seq(Key) /\ ToSet(got \o w.took) = ToSet(got) \cup ToSet(w.took)
      /\ \A i, j \in DOMAIN (got \o w.took) : i < j => (got \o w.took)[i] < (got \o w.took)[j]
  <2>1. \A a \in ToSet(got), b \in ToSet(w.took) : a < b
    <3>1. ToSet(got) \subseteq Key /\ ToSet(w.took) \subseteq Key
      BY <1>3, <1>4 DEF ToSet
    <3> QED BY <1>3, <1>4, <1>5, <3>1
  <2>2. \A i, j \in DOMAIN got : i < j => got[i] < got[j]
    BY <1>1, <1>3 DEF GotInv
  <2> HIDE DEF got
  <2> QED BY <1>3, <1>4, <2>1, <2>2, JoinedAscending
<1>8. /\ page' = [pc |-> page'.pc, cmd |-> page'.cmd, key |-> page'.key, range |-> page'.range,
                  count |-> page'.count, got |-> page'.got, due |-> page'.due]
      /\ page'.pc = (IF w.tail = NoKey THEN "ended" ELSE "on") /\ page'.cmd = page.cmd
      /\ page'.key = w.tail /\ page'.range = page.range /\ page'.count = page.count
      /\ page'.got = got \o w.took /\ page'.due = page.due
  <2> DEFINE more == got \o w.took
             end  == IF w.tail = NoKey THEN "ended" ELSE "on"
  <2>1. page = [pc |-> page.pc, cmd |-> page.cmd, key |-> page.key, range |-> page.range,
                count |-> page.count, got |-> page.got, due |-> page.due]
    BY <1>1 DEF PageTypes
  <2>2. page' = [page EXCEPT !.got = more, !.key = w.tail, !.pc = end]
    BY <1>6
  <2> HIDE DEF more, end
  <2>3. page' = [pc |-> end, cmd |-> page.cmd, key |-> w.tail, range |-> page.range,
                 count |-> page.count, got |-> more, due |-> page.due]
    BY <2>1, <2>2
  <2>4. /\ page' = [pc |-> page'.pc, cmd |-> page'.cmd, key |-> page'.key, range |-> page'.range,
                  count |-> page'.count, got |-> page'.got, due |-> page'.due]
        /\ page'.pc = end /\ page'.cmd = page.cmd
        /\ page'.key = w.tail /\ page'.range = page.range /\ page'.count = page.count
        /\ page'.got = more /\ page'.due = page.due
    BY <2>3
  <2> QED BY <2>4 DEF more, end
<1> HIDE DEF got, key
<1>9. PageTypes'
  <2>1. page'.pc \in {"on", "ended"} /\ sweep'.pc = "none"
    BY <1>1, <1>3, <1>8
  <2> QED BY <1>1, <1>3, <1>7, <1>8, <2>1 DEF PageTypes
<1>10. GotInv'
  <2>1. ASSUME NEW k \in page.due
        PROVE  isOK(k) /\ (k \in ToSet(page'.got) \/ (page'.pc = "on" /\ k >= page'.key))
    <3>1. isOK(k) /\ (k \in ToSet(got) \/ k >= key) /\ k \in page.range /\ k \in Key
      BY <1>1, <1>3 DEF GotInv, got, key
    <3>2. CASE w.tail = NoKey
      BY <1>2, <1>4, <1>7, <1>8, <3>1, <3>2
    <3>3. CASE w.tail # NoKey
      BY <1>4, <1>7, <1>8, <3>1, <3>3
    <3> QED BY <3>2, <3>3
  <2> QED BY <1>1, <1>7, <1>8, <2>1 DEF GotInv, isOK
<1>11. NextPageInv'
  <2> SUFFICES ASSUME w.tail # NoKey
               PROVE  NextPageInv'
    BY <1>8 DEF NextPageInv
  <2>1. \E k \in page.range : k <= w.tail
    <3>1. PICK k \in page.range : k <= key
      BY <1>3 DEF key
    <3> QED BY <1>3, <1>4, <1>5, <3>1 DEF key
  <2>2. \A k \in ToSet(page'.got) : k < w.tail
    <3>1. ASSUME NEW k \in ToSet(got) PROVE k < w.tail
      <4>1. k \in Key /\ k < key
        BY <1>3 DEF ToSet, got, key
      <4> QED BY <1>3, <1>4, <1>5, <4>1 DEF key
    <3> QED BY <1>4, <1>7, <1>8, <3>1
  <2> QED BY <1>1, <1>4, <1>8, <2>1, <2>2 DEF NextPageInv
<1> QED BY <1>9, <1>10, <1>11 DEF PageInv

(* While a client pages, what it may still expect is only there, or left out. *)
LEMMA DueKept ==
  ASSUME PageInv, sweep'.pc = sweep.pc,
         NEW due, due \subseteq page.due, page' = [page EXCEPT !.due = due],
         page.cmd # "xnnext" => \A k \in due : db'[k].st = "ok"
  PROVE  PageInv'
<1>1. PageTypes /\ GotInv /\ NextPageInv
  BY DEF PageInv
<1>2. /\ page' = [pc |-> page'.pc, cmd |-> page'.cmd, key |-> page'.key, range |-> page'.range,
                  count |-> page'.count, got |-> page'.got, due |-> page'.due]
      /\ page'.pc = page.pc /\ page'.cmd = page.cmd /\ page'.key = page.key /\ page'.range = page.range
      /\ page'.count = page.count /\ page'.got = page.got /\ page'.due = due
  <2>1. page = [pc |-> page.pc, cmd |-> page.cmd, key |-> page.key, range |-> page.range,
                count |-> page.count, got |-> page.got, due |-> page.due]
    BY <1>1 DEF PageTypes
  <2>2. page' = [pc |-> page.pc, cmd |-> page.cmd, key |-> page.key, range |-> page.range,
                 count |-> page.count, got |-> page.got, due |-> due]
    BY <2>1
  <2> QED BY <2>2
<1>3. PageTypes'
  BY <1>1, <1>2 DEF PageTypes
<1>4. GotInv'
  BY <1>1, <1>2 DEF GotInv, isOK
<1>5. NextPageInv'
  BY <1>1, <1>2 DEF NextPageInv
<1> QED BY <1>3, <1>4, <1>5 DEF PageInv

LEMMA PageKept ==
  ASSUME PageInv, UNCHANGED <<db, page, sweep>>
  PROVE  PageInv'
BY DEF PageInv, PageTypes, GotInv, NextPageInv, isOK

(* No client pages: the range is swept, or the server is used otherwise.      *)
LEMMA PageOff ==
  ASSUME PageInv, page.pc = "off", UNCHANGED page
  PROVE  PageInv'
<1>1. page.cmd # "xnnext" => page.due = {}
  BY DEF PageInv, PageTypes
<1>2. GotInv'
  BY <1>1 DEF PageInv, GotInv
<1> QED BY <1>2 DEF PageInv, PageTypes, NextPageInv

LEMMA PageOtherKept ==
  ASSUME SweepInv, PageInv, NEW k \in Key, OtherWrites(k)
  PROVE  PageInv'
<1>1. SweepTypes /\ sweep'.pc = sweep.pc
  BY DEF SweepInv, SweepTypes, OtherWrites
<1>2. page.cmd # "xnnext" => /\ page.due \subseteq Key
                             /\ \A j \in page.due : db[j].st = "ok"
  BY DEF PageInv, PageTypes, GotInv, isOK
<1>3. page = [page EXCEPT !.due = page.due]
  <2>1. page = [pc |-> page.pc, cmd |-> page.cmd, key |-> page.key, range |-> page.range,
                count |-> page.count, got |-> page.got, due |-> page.due]
    BY DEF PageInv, PageTypes
  <2> QED BY <2>1
<1>4. CASE \E v \in Value : insert(k, Pair(v, 0)) /\ page' = page
  <2>1. PICK v \in Value : insert(k, Pair(v, 0)) /\ page' = page
    BY <1>4
  <2>2. Pair(v, 0) \in [st : {"none", "dead", "ok"}, val : Int, exp : Int, mem : BOOLEAN]
        /\ [Pair(v, 0) EXCEPT !.mem = TRUE].st = "ok"
    BY ScansAssumption DEF Pair
  <2>3. /\ db'[k] = [Pair(v, 0) EXCEPT !.mem = TRUE]
        /\ \A j \in Key \ {k} : Moved(j)
    BY <1>1, <2>1, <2>2, Inserts
  <2>4. \A j \in Key \ {k} : db'[j].st = db[j].st
    BY <1>1, <2>3, MovedIs
  <2>5. page.cmd # "xnnext" => \A j \in page.due : db'[j].st = "ok"
    BY <1>2, <2>2, <2>3, <2>4
  <2> QED BY <1>1, <1>3, <2>1, <2>5, DueKept
<1>5. CASE /\ insert(k, [None EXCEPT !.st = "dead"])
           /\ page' = [page EXCEPT !.due = @ \ {k}]
  <2>1. [None EXCEPT !.st = "dead"] \in [st : {"none", "dead", "ok"}, val : Int, exp : Int, mem : BOOLEAN]
    BY DeadNone
  <2>2. \A j \in Key \ {k} : Moved(j)
    BY <1>1, <1>5, <2>1, Inserts
  <2>3. \A j \in Key \ {k} : db'[j].st = db[j].st
    BY <1>1, <2>2, MovedIs
  <2> DEFINE due == page.due \ {k}
  <2>4. page.cmd # "xnnext" => \A j \in due : db'[j].st = "ok"
    BY <1>2, <2>3
  <2>5. due \subseteq page.due /\ page' = [page EXCEPT !.due = due]
    BY <1>5
  <2> HIDE DEF due
  <2> QED BY <1>1, <2>4, <2>5, DueKept
<1> QED BY <1>4, <1>5 DEF OtherWrites

LEMMA PageBeginKept ==
  ASSUME PageInv, PageBegin
  PROVE  PageInv'
<1>1. PICK cmd \in {"xn", "xr", "xu", "xnboth", "xrboth", "xuboth"}, range \in Prefix \cup {Key}, n \in {1, 2} :
       /\ cmd \in {"xu", "xuboth"} => range = Key
       /\ page' = [pc |-> "on", cmd |-> cmd, key |-> Min(range), range |-> range, count |-> n,
                   got |-> <<>>,
                   due |-> {k \in range : isOK(k)}]
  BY DEF PageBegin
<1>2. UNCHANGED <<db, sweep>> /\ sweep.pc = "none"
  BY DEF PageBegin, PageInv, PageTypes
<1>3. range \subseteq Key /\ \A i, j \in range : i .. j \subseteq range
  <2>1. \A i, j \in Key : i .. j \subseteq Key
    <3>1. Key = 1 .. Cardinality(Key) /\ Cardinality(Key) \in Nat
      BY ScansAssumption, KeysAre
    <3> QED BY <3>1
  <2> QED BY <2>1, ScansAssumption
<1>4. range # {} => Min(range) \in range /\ Min(range) \in Key /\ Min(range) <= Min(range)
  <2>1. range \in SUBSET Nat
    BY <1>3, KeysAre
  <2> QED BY <1>3, <2>1, MinFound
<1> DEFINE first == Min(range)
           due   == {k \in range : isOK(k)}
           none  == <<>>
<1>5. /\ due \subseteq range /\ \A k \in due : isOK(k) /\ k \in range
      /\ none \in Seq(Key) /\ DOMAIN none = {} /\ ToSet(none) = {}
  BY DEF ToSet
<1>6. \A k \in range : range # {} /\ k >= first
  <2>1. range \in SUBSET Nat
    BY <1>3, KeysAre
  <2> QED BY <1>4, <2>1, MinFound
<1>7. page' = [pc |-> "on", cmd |-> cmd, key |-> first, range |-> range, count |-> n, got |-> none, due |-> due]
  BY <1>1
<1> HIDE DEF first, due, none
<1>8. PageTypes'
  <2>1. none = <<>>
    BY DEF none
  <2> QED BY <1>2, <1>3, <1>5, <1>7, <2>1 DEF PageTypes
<1>9. GotInv'
  BY <1>2, <1>5, <1>6, <1>7 DEF GotInv, isOK
<1>10. NextPageInv'
  BY <1>1, <1>3, <1>4, <1>5, <1>7 DEF NextPageInv, first
<1> QED BY <1>8, <1>9, <1>10 DEF PageInv

LEMMA NextBeginKept ==
  ASSUME PageInv, NextBegin
  PROVE  PageInv'
<1>1. PICK range : page' = [pc |-> "next", cmd |-> "xnnext", key |-> 0, range |-> range, count |-> 1,
                            got |-> <<>>, due |-> {k \in range : isOK(k)}]
  BY DEF NextBegin
<1>2. sweep'.pc = "none"
  BY DEF NextBegin, PageInv, PageTypes
<1> DEFINE due == {k \in range : isOK(k)}
<1>3. page' = [pc |-> "next", cmd |-> "xnnext", key |-> 0, range |-> range, count |-> 1,
               got |-> <<>>, due |-> due]
  BY <1>1
<1> HIDE DEF due
<1> QED BY <1>2, <1>3 DEF PageInv, PageTypes, GotInv, NextPageInv

LEMMA NextNextKept ==
  ASSUME PageInv, NextNext
  PROVE  PageInv'
<1>1. PICK got, key, pc : pc \in {"ended", "next"} /\ page' = [page EXCEPT !.got = got, !.key = key, !.pc = pc]
  <2>1. PICK r : page' = [page EXCEPT
         !.got = IF r.items = <<>> THEN @ ELSE Append(@, r.items[1]),
         !.key = IF r.items = <<>> THEN r.tail ELSE r.items[1],
         !.pc  = IF r.items = <<>> /\ r.tail = NoKey THEN "ended" ELSE "next"]
    BY DEF NextNext
  <2> DEFINE got == IF r.items = <<>> THEN page.got ELSE Append(page.got, r.items[1])
             key == IF r.items = <<>> THEN r.tail ELSE r.items[1]
             pc  == IF r.items = <<>> /\ r.tail = NoKey THEN "ended" ELSE "next"
  <2>2. pc \in {"ended", "next"} /\ page' = [page EXCEPT !.got = got, !.key = key, !.pc = pc]
    BY <2>1
  <2> HIDE DEF got, key, pc
  <2> QED BY <2>2
<1>2. /\ page.pc = "next" /\ page.cmd = "xnnext" /\ sweep'.pc = "none"
      /\ page = [pc |-> page.pc, cmd |-> page.cmd, key |-> page.key, range |-> page.range,
                 count |-> page.count, got |-> page.got, due |-> page.due]
  BY DEF NextNext, PageInv, PageTypes
<1>3. page' = [pc |-> pc, cmd |-> "xnnext", key |-> key, range |-> page.range,
               count |-> page.count, got |-> got, due |-> page.due]
  BY <1>1, <1>2
<1>4. /\ page' = [pc |-> page'.pc, cmd |-> page'.cmd, key |-> page'.key, range |-> page'.range,
                  count |-> page'.count, got |-> page'.got, due |-> page'.due]
      /\ page'.pc = pc /\ page'.cmd = "xnnext"
  BY <1>3
<1>5. PageTypes'
  BY <1>1, <1>2, <1>4 DEF PageTypes
<1>6. GotInv' /\ NextPageInv'
  BY <1>1, <1>4 DEF GotInv, NextPageInv
<1> QED BY <1>5, <1>6 DEF PageInv

LEMMA PagesNextInv ==
  ASSUME SweepInv, PageInv, ScansNext
  PROVE  PageInv'
<1>1. CASE SweepBegin
  BY <1>1, PageOff DEF SweepBegin
<1>2. CASE SweepStep \/ SweepDies
  <2>1. sweep.pc # "none" /\ UNCHANGED page
    BY <1>2 DEF SweepStep, SweepDies, scanKeysAndProcessInPlace, process_x, process_x_Done,
                process_x_GiveUp, SweepAgain
  <2>2. page.pc = "off"
    BY <2>1 DEF PageInv, PageTypes
  <2> QED BY <2>1, <2>2, PageOff
<1>3. CASE PageNext
  BY <1>3, PageNextKept DEF SweepInv
<1> QED
  BY <1>1, <1>2, <1>3, PageBeginKept, NextBeginKept, NextNextKept, PageOtherKept DEF ScansNext

LEMMA PageInit == ScansInit => PageInv
<1> SUFFICES ASSUME ScansInit PROVE PageInv
  OBVIOUS
<1>1. PICK pc \in {"on", "off"} :
        page = [pc |-> pc, cmd |-> "", key |-> NoKey, range |-> {}, count |-> 0, got |-> <<>>, due |-> {}]
  BY DEF ScansInit
<1>2. sweep.pc = "none"
  BY DEF ScansInit, Refused, Sweep
<1> DEFINE none == <<>>
<1>3. none \in Seq(Key) /\ DOMAIN none = {}
  OBVIOUS
<1>4. page = [pc |-> pc, cmd |-> "", key |-> NoKey, range |-> {}, count |-> 0, got |-> none, due |-> {}]
  BY <1>1
<1>5. none = <<>>
  OBVIOUS
<1> HIDE DEF none
<1> QED BY <1>2, <1>3, <1>4, <1>5 DEF PageInv, PageTypes, GotInv, NextPageInv

-----------------------------------------------------------------------------
(* The server.                                                               *)

LEMMA InitInv == Init => IInv
<1> SUFFICES ASSUME Init PROVE IInv
  OBVIOUS
<1>1. QueueInit /\ TBInit
  BY DEF Init
<1>2. QueueTypes /\ QueueInv /\ PopOnce
  <2>1. \A i \in Ids : item[i] = "none" /\ given[i] = 0
    BY <1>1 DEF QueueInit
  <2>2. QueueInv /\ PopOnce
    BY <1>1, <2>1 DEF QueueInit, QueueInv, PopOnce
  <2>3. item \in [Ids -> {"none", "live", "dead"}] /\ given \in [Ids -> Nat]
    BY <1>1 DEF QueueInit
  <2>4. QueueTypes
    <3>1. clock \in Nat \ {0} /\ mishaps \in Nat
      BY <1>1 DEF QueueInit
    <3>2. control = NoControl /\ pending = Nothing /\ torn = {} /\ behind = FALSE
      BY <1>1 DEF QueueInit
    <3> QED BY <2>3, <3>1, <3>2 DEF QueueTypes
  <2> QED BY <2>2, <2>4
<1>3. SweepInv /\ PageInv
  BY SweepInit, PageInit DEF Init
<1> QED BY <1>1, <1>2, <1>3, BucketInit DEF IInv

LEMMA NextInv == IInv /\ [Next]_vars => IInv'
<1> SUFFICES ASSUME IInv, [Next]_vars PROVE IInv'
  OBVIOUS
<1> USE DEF IInv
<1>1. CASE QueueNext /\ UNCHANGED <<tbvars, svars>>
  BY <1>1, QueueNextInv, BucketKept, SweepKept, PageKept DEF svars
<1>2. CASE TBNext /\ UNCHANGED <<qvars, svars>>
  <2>1. BucketTypes' /\ BucketInv'
    BY <1>2, ConsumeInv, TickInv DEF TBNext
  <2> QED BY <1>2, <2>1, QueueKept, SweepKept, PageKept DEF svars
<1>3. CASE UNCHANGED <<qvars, tbvars, svars>>
  BY <1>3, QueueKept, BucketKept, SweepKept, PageKept DEF svars
<1>4. CASE ScansNext /\ UNCHANGED <<qvars, tbvars>>
  BY <1>4, ScansNextInv, PagesNextInv, QueueKept, BucketKept
<1> QED BY <1>1, <1>2, <1>3, <1>4
        DEF Next, vars, ServesQueue, ServesLimit, ServesEstimate, ServesLatency, ServesScan

(* What the queue, the rate limiter, the sweeps and the clients that page are *)
(* built on holds whatever the server is used for.                           *)
THEOREM InvariantHolds == Spec => []IInv
<1> QED BY InitInv, NextInv, PTL DEF Spec

(* SPOP answers with an element once, and its control key passes none that   *)
(* can still be popped.                                                      *)
THEOREM PopOnceHolds == Spec => []PopOnce
<1>1. IInv => PopOnce
  BY DEF IInv
<1> QED BY <1>1, InvariantHolds, PTL

(* TBCONSUME charges for no more than the bucket held and was filled up with.*)
THEOREM RateBoundHolds == Spec => []RateBound
<1>1. IInv => RateBound
  BY BucketSound DEF IInv
<1> QED BY <1>1, InvariantHolds, PTL

(* A command that changes the expirations in a range of keys reads no pair   *)
(* through a pointer that a flush made stale; and such a command, or one     *)
(* that deletes a range and answered the key of no pair that was gone, has   *)
(* changed every pair that no one else wrote when it says it is at the end.  *)
THEOREM SweepSoundHolds == Spec => []SweepSound
<1>1. IInv => SweepSound
  BY DEF IInv, SweepInv
<1> QED BY <1>1, InvariantHolds, PTL

(* A client that pages with XNGET, XRGET, XUGET and their KEYS while others  *)
(* write is answered in order, no key twice, and when there is no next page  *)
(* it has every key of the range that was there all the time, whichever of   *)
(* the limits ended the pages.                                               *)
THEOREM PagesExactHolds == Spec => []PagesExact
<1>1. IInv => PagesExact
  BY DEF IInv, PageInv, GotInv, PagesExact
<1> QED BY <1>1, InvariantHolds, PTL
=============================================================================
