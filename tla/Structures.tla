----------------------------- MODULE Structures -----------------------------
(***************************************************************************)
(* A server that is used for one thing: a queue, a rate limit, values that   *)
(* estimate and are merged, its own histograms of latencies, or commands on  *)
(* ranges of keys.                                                           *)
(***************************************************************************)
EXTENDS Queue, TokenBucket, Estimators, Latency, Scans

CONSTANTS
  Modes,         \* what the server is used for
  AddLists,      \* elements in one command
  KeyLists,      \* keys in one command
  NumberLists,   \* numbers in one command
  MaxSeen,       \* bound on what the keys were given
  Percents       \* percentiles that are asked for

VARIABLE mode    \* what this server is used for

vars == <<mode, qvars, tbvars, evars, lvars, svars>>

EstimatorsInit ==
  /\ sort \in {"hll", "td", "ss"}
  /\ mode # "estimate" => sort = "hll"
  /\ vals = [k \in Keys |-> NoValue]
  /\ inMem = {} /\ byTime = <<>> /\ seen = Nobody /\ lost = Nobody

Init == mode \in Modes /\ QueueInit /\ TBInit /\ (mode # "limit" => time = 0)
        /\ EstimatorsInit /\ LatencyInit /\ ScansInit
        /\ (mode # "scan" => page.pc = "off" /\ \A k \in Key : db[k] = None)

HLLNext ==
  /\ sort = "hll"
  /\ \E k \in Keys :
       \/ \E xs \in AddLists : PFADD(k, xs) \/ PFADDCOUNT(k, xs) \/ PFSET(k, xs)
       \/ PFRESERVE(k)
       \/ \E ks \in KeyLists : PFMERGE(k, ks)

TDNext ==
  /\ sort = "td"
  /\ \E k \in Keys, c \in Capacities, d \in Deltas :
       \/ \E xs \in NumberLists : TDADD(k, c, d, xs)
       \/ \E x \in Values, w \in Weights : TDADDWEIGHT(k, c, d, <<<<x, w>>>>)
       \/ \E ks \in KeyLists : TDMERGE(k, c, d, ks)
       \/ \E s \in Keys, sc \in Capacities : TDMERGECAPACITY(k, c, d, <<<<s, sc>>>>)
       \/ TDRESERVE(k, c)

SSNext ==
  /\ sort = "ss"
  /\ \E k \in Keys :
       \/ \E xs \in NumberLists : SSADD(k, xs) \/ SSADDGETALL(k, xs)
       \/ \E x \in Values : SSADDGET(k, x) \/ SSADDMGET(k, x)
       \/ \E ks \in KeyLists : SSMERGE(k, ks)
       \/ SSRESERVE(k)

(* The memory list is written to a disk table and cleared.                   *)
FlushAll == inMem # {} /\ inMem' = {} /\ UNCHANGED <<sort, vals, byTime, seen, lost>>

(* A pair expires or is erased.                                              *)
Vanish(k) ==
  /\ vals[k] # NoValue
  /\ vals' = [vals EXCEPT ![k] = NoValue]
  /\ byTime' = SelectSeq(byTime, LAMBDA x : x # k)
  /\ seen' = [seen EXCEPT ![k] = <<>>] /\ lost' = [lost EXCEPT ![k] = <<>>]
  /\ UNCHANGED <<sort, inMem>>

EstimatorsNext ==
  \/ HLLNext \/ TDNext \/ SSNext
  \/ FlushAll
  \/ \E k \in Keys : Vanish(k)

Bounded == MapThenSumSet(LAMBDA k : Len(seen'[k]), Keys) <= MaxSeen

ServesQueue    == mode = "queue" /\ QueueNext /\ UNCHANGED <<mode, tbvars, evars, lvars, svars>>
ServesLimit    == mode = "limit" /\ TBNext /\ UNCHANGED <<mode, qvars, evars, lvars, svars>>
ServesEstimate == mode = "estimate" /\ EstimatorsNext /\ Bounded /\ UNCHANGED <<mode, qvars, tbvars, lvars, svars>>
ServesLatency  == mode = "latency" /\ LatencyNext /\ UNCHANGED <<mode, qvars, tbvars, evars, svars>>
ServesScan     == mode = "scan" /\ ScansNext /\ UNCHANGED <<mode, qvars, tbvars, evars, lvars>>

Next == ServesQueue \/ ServesLimit \/ ServesEstimate \/ ServesLatency \/ ServesScan

(* Clients go on asking for elements, and time goes on; the server goes on   *)
(* with a sweep, and the client that sweeps sends the next command.          *)
Pops   == mode = "queue" /\ SPOP /\ UNCHANGED <<mode, tbvars, evars, lvars, svars>>
Ticks  == mode = "queue" /\ Tick /\ UNCHANGED <<mode, tbvars, evars, lvars, svars>>
GoesOn == mode = "scan" /\ SweepStep /\ UNCHANGED <<mode, qvars, tbvars, evars, lvars>>

Spec == Init /\ [][Next]_vars /\ WF_vars(Pops) /\ SF_vars(Ticks) /\ WF_vars(GoesOn)

-----------------------------------------------------------------------------
(* SPOP: the control key never passes an element that can still be popped    *)
(* (unless the clock went back behind it), and an element is given to one    *)
(* client only, unless its SPOP was cut between its two writes.              *)
PopOnce ==
  \A i \in Ids :
    /\ item[i] = "live" /\ control > i => behind
    /\ given[i] > 1 => i \in torn

(* An element of a queue leaves it if clients go on asking, however many     *)
(* dead pairs lie in front of it: SPOP that gives up gets further each time. *)
Delivered == \A i \in Ids : item[i] = "live" /\ ~ behind ~> item[i] # "live" \/ behind

(* TBCONSUME never charges more than the bucket had and was filled up with,  *)
(* and TBCOUNT promises no more than that.                                   *)
RateBound ==
  bucket # NoBucket =>
    /\ tbOK => taken + TBCOUNT <= MaxTokens + Refill(to32(time) - since)
    /\ taken <= MaxTokens + Refill(to32(time) - since)

(* "it looks like there will be free coins, but this is not true": a token   *)
(* is charged whenever a client is given one.                                *)
NoFreeCoins == free = 0

Registers(xs) == hll_addAll(hll_clear, xs)

(* A merged value is the value of all that went into its sources: registers  *)
(* and the answers of PFCOUNT, PFADDCOUNT, PFINTERSECT, PFJACCARD, PFOVERLAP;*)
(* and the fields of SSMERGE, SSMGET and SSGETALL, with the numbers in the order of      *)
(* their pairs' times.                                                       *)
MergesExact ==
  /\ sort = "hll" =>
       /\ \A k \in Keys : IsHLL(k) => vals[k].M = Registers(seen[k])
       /\ \A a, b \in Keys :
            /\ PFCOUNT(<<a, b>>) = estimate(Registers(seen[a] \o seen[b]))
            /\ IsHLL(a) /\ IsHLL(b) =>
                 /\ {PFMJACCARD(a, <<b>>), PFMOVERLAP(a, <<b>>)}
                      = {<<<<PFCOUNT(<<a>>), PFCOUNT(<<b>>), PFCOUNT(<<b, a>>)>>>>}
                 /\ <<{a, b}, a = b, PFCOUNT(<<a, b>>)>> \in PFINTERSECT(<<a, b>>)
       /\ \A k \in Keys, x \in Elements :
            /\ PFADDBits(k, <<x>>) => x \notin ToSet(seen[k])
            /\ PFADDCOUNTAnswer(k, <<x>>) = estimate(Registers(Append(seen[k], x)))
  /\ sort = "ss" =>
       LET Exact(a, xs) == getDataAll(a) = getDataAll(FoldLeft(accumulate, Fresh, xs))
       IN  /\ \A k \in Keys : IsSS(k) => Exact(vals[k], seen[k])
           /\ \A k \in Keys : seen[k] # <<>> =>
                SSMGET(k, Fields) = getDataAll(FoldLeft(accumulate, Fresh, seen[k]))
           /\ \A i, j \in DOMAIN byTime : i < j =>
                SSGETALL(<<byTime[j], byTime[i]>>)
                  = getDataAll(FoldLeft(accumulate, Fresh, seen[byTime[i]] \o seen[byTime[j]]))

NotAbove(a, b) == ~ Below(b, a)

(* A digest keeps its centroids in order and within its capacity, and sums    *)
(* and weights are those of all it was given and did not drop; TDMIN, TDMAX, *)
(* the percentiles and the trimmed mean are in order and within the range.   *)
DigestSound ==
  \A k \in Keys : vals[k].is = "td" =>
    LET td == vals[k]
        n  == Len(td.nodes)
        c  == td.cap
        all == SumOf(seen[k])
        drop == SumOf(lost[k])
    IN  /\ n <= c
        /\ \A i \in 1 .. n - 1 : NotAbove(td.nodes[i], td.nodes[i + 1])
        /\ all = Both(SumOf(td.nodes), drop)
        /\ TDINFO(k, c) = <<c, all.w - drop.w, TDMIN(k, c), TDMAX(k, c), n>>
        /\ n > 0 =>
             /\ NotAbove(TDMIN(k, c), td.nodes[1]) /\ NotAbove(td.nodes[n], TDMAX(k, c))
             /\ \E i \in DOMAIN seen[k] : NotAbove(seen[k][i], TDMIN(k, c))
             /\ \E i \in DOMAIN seen[k] : NotAbove(TDMAX(k, c), seen[k][i])
             /\ \A p, q \in Quarters : p < q =>
                  /\ LET two == TDMPERCENTILE(k, c, <<p, q>>) IN NotAbove(two[1], two[2])
                  /\ p <= 2 => NotAbove(TDPERCENTILE(k, c, p), TDMEDIAN(k, c))
                  /\ NotAbove(TDMIN(k, c), TDTRIMMEDMEAN(k, c, p, q))
                  /\ NotAbove(TDTRIMMEDMEAN(k, c, p, q), TDMAX(k, c))
             /\ ~ Below(TDTRIMMEDMEAN(k, c, 0, 4), TDMEAN(k, c))
             /\ ~ Below(TDMEAN(k, c), TDTRIMMEDMEAN(k, c, 0, 4))

(* "should be unreachible, if Aggressive": no number is dropped.             *)
NothingDropped == sort = "td" => lost = Nobody

Width == 3   \* of the bars of LATENCYHUMAN

(* LATENCYCOUNT counts every call once; LATENCYHUMAN says of each bucket how *)
(* many calls were shorter than its end, and has a bar, no longer than the   *)
(* width, for those that have any; LATENCYLOG has these, and nothing else;   *)
(* LATENCYMPERCENTILE grows with p, and LATENCYPERCENTILE is within a factor *)
(* of two of the call that has the rank p% (calls too long for the last      *)
(* bucket are taken for its beginning).                                      *)
LatenciesExact ==
  \A t \in Timers :
    LET n    == Len(calls[t])
        q(p) == LATENCYPERCENTILE(t, p)
        Long == 2 ^ (NUM_BUCKETS - 2)
        Rank(x, p) ==
          /\ 100 * Cardinality({i \in 1 .. n : calls[t][i] < x}) < p * n
          /\ 100 * Cardinality({i \in 1 .. n : calls[t][i] <= x}) >= p * n
        human == LATENCYHUMAN(t, Width)
    IN  /\ t \in LATENCYLIST /\ LATENCYCOUNT(t) = n
        /\ human[NUM_BUCKETS].upto = n
        /\ \A i \in 1 .. NUM_BUCKETS - 1 :
             human[i].upto = Cardinality({j \in 1 .. n : calls[t][j] < 2 ^ (i - 1)})
        /\ \A i \in 1 .. NUM_BUCKETS :
             /\ human[i].value = LATENCYCOUNTERS(t)[i]
             /\ human[i].bars \in 0 .. Width /\ (human[i].bars = 0 <=> human[i].value = 0)
        /\ LATENCYLOG(Width)[t] = SelectSeq(human, LAMBDA r : r.bars # 0)
        /\ \A p, r \in Percents : p < r =>
             LET two == LATENCYMPERCENTILE(t, <<p, r>>)
             IN  two[1][1] * two[2][2] <= two[2][1] * two[1][2]
        /\ \A p \in Percents, x \in ToSet(calls[t]) : Rank(x, p) =>
             LET y == Min({x, Long})
             IN  /\ q(p)[1] <= q(p)[2] * Max({1, 2 * y})
                 /\ y * q(p)[2] <= 2 * q(p)[1]

(* Estimators that were merged, compressed and expired answer for all that   *)
(* clients gave them, the histograms of latencies for all calls, and the      *)
(* accumulators over ranges of keys for all pages.                           *)
EstimatesSound ==
  /\ mode = "estimate" => MergesExact /\ DigestSound
  /\ mode = "latency" => LatenciesExact
  /\ mode = "scan" => AccumulatorsAgree

-----------------------------------------------------------------------------
(* The inductive invariant behind PopOnce and RateBound, with SweepInv and    *)
(* PageInv of Scans.                                                         *)

QueueTypes ==
  /\ clock \in Nat \ {0} /\ mishaps \in Nat
  /\ item \in [Ids -> {"none", "live", "dead"}]
  /\ control \in Ids \cup {NoControl} /\ pending \in Ids \cup {Nothing}
  /\ given \in [Ids -> Nat] /\ torn \subseteq Ids /\ behind \in BOOLEAN

(* An element that was answered is not there any more, unless its SPOP still *)
(* has to erase it or was cut off.                                           *)
QueueInv ==
  /\ pending # Nothing => item[pending] = "live" /\ control = pending
  /\ \A i \in Ids : item[i] = "live" /\ given[i] > 0 => i \in torn \/ i = pending

BucketTypes ==
  /\ time \in Nat /\ since \in Nat /\ taken \in Nat
  /\ bucket \in [tokens : Nat, created : Nat, exp : Nat]

(* What was taken and what is left came with the bucket or was filled up     *)
(* before the pair was written.                                              *)
BucketInv ==
  bucket # NoBucket =>
    /\ bucket.created <= time /\ since <= to32(bucket.created)
    /\ taken + bucket.tokens <= MaxTokens + Refill(to32(bucket.created) - since)

IInv == QueueTypes /\ QueueInv /\ PopOnce /\ BucketTypes /\ BucketInv /\ SweepInv /\ PageInv

-----------------------------------------------------------------------------
(* A small instance: two or three keys, few elements whose registers collide. *)

TwoRegisters(x) == <<(x % 2) + 1, x>>
SmallAdds       == {<<1>>, <<3>>, <<4, 1>>}
SmallKeys       == {<<1>>, <<1, 2>>, <<2, 2>>}
SmallNumbers    == {<<4, 1>>}
==============================================================================
