----------------------------- MODULE TokenBucket -----------------------------
(***************************************************************************)
(* Rate limits: cmd_tb.h.  The pair of a bucket holds the tokens it had when *)
(* it was written and expires when the seconds of its first token are over.  *)
(* Clients agree on the size of the bucket.                                  *)
(***************************************************************************)
EXTENDS Integers, FiniteSetsExt

CONSTANTS
  MaxTokens, MaxSeconds,  \* the parameters of the bucket
  Prices,                 \* tokens that clients ask for
  TBUsecs,                \* units of the clock in a second
  TBEnd                   \* bound on the clock

VARIABLES
  time,      \* the clock, in units
  bucket,    \* the pair of the bucket, or NoBucket
  since,     \* the second the bucket began
  taken,     \* tokens that clients were given since then and that were charged
  free       \* tokens that clients were given in the last moments of the bucket

tbvars == <<time, bucket, since, taken, free>>

NoBucket == [tokens |-> 0, created |-> 0, exp |-> 0]

ASSUME TBAssumption ==
  /\ MaxTokens \in Nat \ {0} /\ MaxSeconds \in Nat \ {0}
  /\ TBUsecs \in Nat \ {0} /\ TBEnd \in Nat /\ Prices \subseteq Nat

TBInit ==
  /\ time \in 0 .. TBUsecs - 1
  /\ bucket = NoBucket /\ since = 0 /\ taken = 0 /\ free = 0

to32(t) == t \div TBUsecs

tbOK == bucket.exp # 0 /\ ~ (bucket.created + bucket.exp * TBUsecs < time)
tbExpiresAt == to32(bucket.created) + bucket.exp

Refill(seconds) == (seconds * MaxTokens) \div MaxSeconds

(* The tokens of the pair and what has been filled up since, truncated.      *)
calcTokens(created, now, tokens) ==
  Min({MaxTokens, tokens + Refill(IF now >= created THEN now - created ELSE 0)})

Tokens == calcTokens(to32(bucket.created), to32(time), bucket.tokens)

(* Mutant: an update in place keeps the time of the old pair.                *)
tbWriteInPlace(tokens, exp) ==
  bucket' = [tokens |-> tokens, exp |-> exp,
             created |-> IF tbOK THEN bucket.created ELSE time]

tbWrite(tokens, exp) == bucket' = [tokens |-> tokens, created |-> time, exp |-> exp]

TBCONSUME(price) ==
  /\ price > 0 /\ price <= MaxTokens
  /\ \/ /\ ~ tbOK
        /\ tbWrite(MaxTokens - price, MaxSeconds)
        /\ since' = to32(time) /\ taken' = price /\ free' = 0
     \/ /\ tbOK /\ Tokens < price
        /\ UNCHANGED <<bucket, since, taken, free>>
     \/ /\ tbOK /\ Tokens >= price /\ to32(time) >= tbExpiresAt
        /\ free' = Min({free + price, MaxTokens + 1})
        /\ UNCHANGED <<bucket, since, taken>>
     \/ /\ tbOK /\ Tokens >= price /\ to32(time) < tbExpiresAt
        /\ tbWrite(Tokens - price, tbExpiresAt - to32(time))
        /\ taken' = taken + price
        /\ UNCHANGED <<since, free>>
  /\ UNCHANGED time

TBCOUNT == IF tbOK THEN Tokens ELSE MaxTokens

TBTick == time < TBEnd /\ time' = time + 1 /\ UNCHANGED <<bucket, since, taken, free>>

TBNext == TBTick \/ \E price \in Prices : TBCONSUME(price)
==============================================================================
