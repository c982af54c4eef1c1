------------------------------- MODULE RateLimit -------------------------------
(***************************************************************************)
(* The rate limiter of the API                                             *)
(* (apps/api/src/common/middleware/rate-limit.middleware.ts).              *)
(*                                                                         *)
(* use() runs to its end without yielding, so it is one action; it reads   *)
(* the clock twice, for the cleanup and for the bucket.  A key is a rule   *)
(* and a client address; all rules have the same window, each its limit.   *)
(* A request that matches no rule, and every request under NODE_ENV=test,  *)
(* changes nothing.  A deleted bucket is the bucket NoBucket, which has    *)
(* expired since ever.                                                     *)
(***************************************************************************)
EXTENDS Integers, Sequences

CONSTANTS
  Keys,          \* the keys that buildKey makes
  Limit,         \* [Keys -> the limit of the key's rule]
  Window,        \* windowMs
  CleanupEvery,  \* the pause between two cleanups
  Second,        \* the ticks of a second
  MaxClock,      \* bound on the clock
  MaxCount       \* bound on the requests one bucket counts

ASSUME LimitAssumption == Limit \in [Keys -> Nat \ {0}]
ASSUME WindowAssumption == Window \in Nat \ {0}
ASSUME CleanupAssumption == CleanupEvery \in Nat
ASSUME SecondAssumption == Second \in Nat \ {0}
ASSUME BoundsAssumption == MaxClock \in Nat /\ MaxCount \in Nat

VARIABLES
  clock,          \* Date.now()
  counters,       \* [Keys -> bucket]
  lastCleanupAt,
  response,       \* the last answer, its headers included
  accepted,       \* history, [Keys -> when, and in which window, requests passed]
  promised        \* history, [Keys -> the last Retry-After, the requests passed before]

vars == <<clock, counters, lastCleanupAt, response, accepted, promised>>

Bucket == [count : Nat, resetAt : Nat]
NoBucket == [count |-> 0, resetAt |-> 0]
Promise == [retryAt : Nat, passed : Nat]
NoPromise == [retryAt |-> 0, passed |-> 0]

FloorDiv(a, b) == a \div b        \* for a mutant
CeilDiv(a, b) == (a + b - 1) \div b
Larger(a, b) == IF a >= b THEN a ELSE b

Init ==
  /\ clock = CleanupEvery
  /\ counters = [k \in Keys |-> NoBucket]
  /\ lastCleanupAt = 0
  /\ response = [kind |-> "none"]
  /\ accepted = [k \in Keys |-> <<>>]
  /\ promised = [k \in Keys |-> NoPromise]

OpenedBefore(bucket, now) == bucket.resetAt <= now + Window   \* drops live buckets, for a mutant
Expired(bucket, now) == bucket.resetAt <= now

CleansUp(now) == now - lastCleanupAt >= CleanupEvery

CleanupExpiredBuckets(now) ==
  [k \in Keys |-> IF CleansUp(now) /\ Expired(counters[k], now) THEN NoBucket ELSE counters[k]]

BucketOf(k, now) ==
  LET existing == CleanupExpiredBuckets(clock)[k] IN
  IF existing.resetAt <= now THEN [count |-> 0, resetAt |-> now + Window] ELSE existing

Counted(bucket) == [bucket EXCEPT !.count = bucket.count + 1]

RetryAfter(bucket, now) == Larger(1, CeilDiv(bucket.resetAt - now, Second))

\* The second Date.now() may be later than the first.
Use(k) ==
  \E now \in clock..(clock + 1) :
    LET bucket == Counted(BucketOf(k, now)) IN
    /\ now <= MaxClock /\ bucket.count <= MaxCount
    /\ clock' = now
    /\ lastCleanupAt' = IF CleansUp(clock) THEN clock ELSE lastCleanupAt
    /\ counters' = [CleanupExpiredBuckets(clock) EXCEPT ![k] = bucket]
    /\ \/ /\ bucket.count > Limit[k]
          /\ LET retryAt == now + RetryAfter(bucket, now) * Second IN
             /\ response' = [kind |-> "rejected", key |-> k, retryAt |-> retryAt]
             /\ promised' = [promised EXCEPT ![k] =
                               [retryAt |-> retryAt, passed |-> Len(accepted[k])]]
          /\ UNCHANGED accepted
       \/ /\ bucket.count <= Limit[k]
          /\ response' = [kind |-> "accepted", key |-> k,
                          remaining |-> Larger(Limit[k] - bucket.count, 0)]
          /\ accepted' = [accepted EXCEPT ![k] =
                            Append(@, [at |-> now, until |-> bucket.resetAt])]
          /\ UNCHANGED promised

Tick ==
  /\ clock < MaxClock
  /\ clock' = clock + 1
  /\ UNCHANGED <<counters, lastCleanupAt, response, accepted, promised>>

Next == Tick \/ \E k \in Keys : Use(k)

Spec == Init /\ [][Next]_vars
-------------------------------------------------------------------------------
TypeOK ==
  /\ clock \in Nat /\ lastCleanupAt \in 0..clock
  /\ counters \in [Keys -> Bucket]
  /\ \A k \in Keys : counters[k].resetAt <= clock + Window
  /\ accepted \in [Keys -> Seq([at : Nat, until : Nat])]
  /\ promised \in [Keys -> Promise]

\* A fixed window lets bursts meet at its border: less than twice the limit
\* passes in any stretch of one window, and no cleanup, at whatever moment,
\* makes it more.
SlidingBound ==
  \A k \in Keys : \A i, j \in 1..Len(accepted[k]) :
    j = i + 2 * Limit[k] - 1 => accepted[k][j].at - accepted[k][i].at >= Window

\* The cleanup bounds the memory: every bucket that stays was open at the last
\* cleanup or was opened after it.
BucketsAreFresh ==
  \A k \in Keys : counters[k] # NoBucket => counters[k].resetAt > lastCleanupAt

\* A client that waits as Retry-After told it is refused again only when its key
\* has used up a whole limit in between.
RetryAfterHonoured ==
  [][\A k \in Keys :
       promised'[k] # promised[k] /\ promised[k] # NoPromise /\ clock' >= promised[k].retryAt =>
         Len(accepted[k]) >= promised[k].passed + Limit[k]]_vars

\* The buckets implement the quotas: requests that were refused count in the
\* bucket and take no quota, and a bucket that has expired, deleted or not, is
\* no window.
Quota == INSTANCE WindowLimiter WITH
  used <- [k \in Keys |-> IF counters[k].resetAt <= clock THEN 0
                          ELSE IF counters[k].count < Limit[k] THEN counters[k].count
                          ELSE Limit[k]],
  until <- [k \in Keys |-> IF counters[k].resetAt <= clock THEN 0 ELSE counters[k].resetAt],
  answer <- response

ImplementsQuota == Quota!Spec
================================================================================
