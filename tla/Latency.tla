------------------------------- MODULE Latency -------------------------------
(***************************************************************************)
(* Histograms of latencies: myhistogramtimer.h and cmd_latency.h.  Bucket i  *)
(* counts durations from 2^(i-1) up to 2^i microseconds, bucket 0 those      *)
(* below one; the last one has no upper end.                                 *)
(***************************************************************************)
EXTENDS Integers, Sequences, SequencesExt, FiniteSetsExt

CONSTANTS
  Timers,        \* the histograms: (subsystem, id)
  Unknown,       \* one that no subsystem has
  Durations,     \* microseconds that a call may take
  NUM_BUCKETS,
  MaxCalls       \* bound on the calls that are timed

VARIABLES
  hist,      \* counters of each histogram
  calls      \* durations measured since the last LATENCYRESET

lvars == <<hist, calls>>

NoCalls == [i \in 1 .. NUM_BUCKETS |-> 0]

LatencyInit ==
  /\ hist = [t \in Timers |-> NoCalls]
  /\ calls = [t \in Timers |-> <<>>]

(* Number of bits; the last bucket takes the rest.  Buckets count from 0.    *)
calculateBucket(us) ==
  LET bits == {b \in 1 .. NUM_BUCKETS - 1 : us < 2 ^ b}
  IN  IF us = 0 THEN 0 ELSE IF bits = {} THEN NUM_BUCKETS - 1 ELSE Min(bits)

(* Timer::stop                                                               *)
stop(t, us) ==
  /\ Len(calls[t]) < MaxCalls
  /\ hist' = [hist EXCEPT ![t][calculateBucket(us) + 1] = @ + 1]
  /\ calls' = [calls EXCEPT ![t] = Append(@, us)]

getCount(h) == FoldLeft(+, 0, h)

(* Microseconds below which percent of the calls were, as <<value, divisor>>:*)
(* the part of the bucket that has the call of that rank.                    *)
getPercentileUs(h, percent) ==
  LET total  == getCount(h)
      cum(i) == getCount(SubSeq(h, 1, i))
      hit    == {i \in DOMAIN h : 100 * cum(i) >= percent * total}
      i      == Min(hit)
      lower  == IF i = 1 THEN 0 ELSE 2 ^ (i - 2)
      upper  == 2 ^ (i - 1)
      rank   == percent * total - 100 * cum(i - 1)
  IN  IF total = 0 THEN <<0, 1>>
      ELSE IF h[i] = 0 THEN <<lower, 1>>
      ELSE <<lower * 100 * h[i] + rank * (upper - lower), 100 * h[i]>>

(* Value, calls up to the end of the bucket, and a bar if there is any call. *)
get(h, width) ==
  LET total == getCount(h)
  IN  [i \in DOMAIN h |->
         [value |-> h[i], upto |-> getCount(SubSeq(h, 1, i)),
          bars  |-> IF width = 0 \/ h[i] = 0 THEN 0 ELSE Max({1, (h[i] * width) \div total})]]

Invalid == "INVALID_PARAMETERS"

(* getHistogramDB, getHistogramCMD                                           *)
getHistogram(t) == IF t \in Timers THEN hist[t] ELSE <<>>

Ask(t, Reading(_)) == IF getHistogram(t) = <<>> THEN Invalid ELSE Reading(getHistogram(t))

LATENCYCOUNTERS(t)           == Ask(t, LAMBDA h : h)
LATENCYCOUNT(t)              == Ask(t, getCount)
LATENCYPERCENTILE(t, p)      == Ask(t, LAMBDA h : getPercentileUs(h, Min({p, 100})))
LATENCYMPERCENTILE(t, ps)    == Ask(t, LAMBDA h : [i \in DOMAIN ps |-> getPercentileUs(h, Min({ps[i], 100}))])
LATENCYHUMAN(t, width)       == Ask(t, LAMBDA h : get(h, width))
LATENCYLOG(width)            == [t \in Timers |-> SelectSeq(get(hist[t], width), LAMBDA r : r.value # 0)]
LATENCYLIST                  == Timers

(* Every histogram that forEach comes to is cleared.                         *)
LATENCYRESET ==
  /\ hist' = [t \in Timers |-> NoCalls]
  /\ calls' = [t \in Timers |-> <<>>]

LatencyNext == LATENCYRESET \/ \E t \in Timers, us \in Durations : stop(t, us)
==============================================================================
