---------------------------- MODULE RateLimitProofs ----------------------------
(***************************************************************************)
(* Theorems of RateLimit, for any keys, limits, window and clock.          *)
(***************************************************************************)
EXTENDS RateLimit, SequenceTheorems, TLAPS

(* Whole seconds. *)

\* A number of whole seconds lies within one second of its quotient.
LEMMA DivBounds ==
  ASSUME NEW a \in Nat, NEW s \in Nat \ {0}
  PROVE  /\ a \div s \in Nat
         /\ (a \div s) * s <= a
         /\ a < (a \div s) * s + s
  OBVIOUS

\* Rounding up: the first whole second that is not too early.
LEMMA CeilBounds ==
  ASSUME NEW a \in Nat \ {0}, NEW s \in Nat \ {0}
  PROVE  /\ CeilDiv(a, s) \in 1..a
         /\ CeilDiv(a, s) * s >= a
         /\ (CeilDiv(a, s) - 1) * s < a
  <1> DEFINE q == (a + s - 1) \div s
  <1>1. /\ q \in Nat /\ q * s <= a + s - 1 /\ a + s - 1 < q * s + s
    BY DivBounds, a + s - 1 \in Nat
  <1>2. CeilDiv(a, s) = q
    BY DEF CeilDiv
  <1> HIDE DEF q
  <1>3. (q - 1) * s = q * s - s
    BY <1>1
  <1>4. q # 0
    BY <1>1
  <1>5. q <= a
    <2> SUFFICES ASSUME q > a PROVE FALSE
      BY <1>1
    <2>1. q - 1 >= a /\ (q - 1) * s >= a * s
      BY <1>1
    <2>2. a * s >= a
      OBVIOUS
    <2> QED
      BY <1>1, <1>3, <2>1, <2>2
  <1> QED
    BY <1>1, <1>2, <1>3, <1>4, <1>5

\* The gaps of three moments add up.
LEMMA Chain ==
  ASSUME NEW a \in Nat, NEW b \in Nat, NEW c \in Nat, NEW w \in Nat, b >= c + w, a >= b
  PROVE  a >= c + w
  OBVIOUS

LEMMA Span ==
  ASSUME NEW a \in Nat, NEW b \in Nat, NEW c \in Nat, NEW d \in Nat, NEW w \in Nat,
         a = b - w, c >= b, c <= d
  PROVE  d - a >= w
  OBVIOUS

(* Steps. *)

\* A bucket that the cleanup may have dropped.
Kept(old, new) == new = old \/ (new = NoBucket /\ old.resetAt <= clock)

\* The bucket b answers a request of k at the time now.
Serving(k, now, b) ==
  /\ now \in Nat /\ clock <= now /\ clock' = now
  /\ b \in Bucket /\ b.resetAt > now /\ b.resetAt <= now + Window
  /\ \/ counters[k].resetAt <= now /\ b.count = 1 /\ b.resetAt = now + Window
     \/ /\ counters[k].resetAt > now
        /\ b.count = counters[k].count + 1 /\ b.resetAt = counters[k].resetAt
  /\ counters' \in [Keys -> Bucket] /\ counters'[k] = b
  /\ \A j \in Keys \ {k} : Kept(counters[j], counters'[j])
  /\ lastCleanupAt' \in {clock, lastCleanupAt}
  /\ \A j \in Keys : lastCleanupAt' # lastCleanupAt =>
       counters'[j] = NoBucket \/ counters'[j].resetAt > clock

Accepting(k, now, b) ==
  /\ Serving(k, now, b) /\ b.count <= Limit[k]
  /\ response' = [kind |-> "accepted", key |-> k, remaining |-> Larger(Limit[k] - b.count, 0)]
  /\ accepted' = [accepted EXCEPT ![k] = Append(accepted[k], [at |-> now, until |-> b.resetAt])]
  /\ promised' = promised

Rejecting(k, now, b, retryAt) ==
  /\ Serving(k, now, b) /\ b.count > Limit[k]
  /\ retryAt = now + RetryAfter(b, now) * Second
  /\ response' = [kind |-> "rejected", key |-> k, retryAt |-> retryAt]
  /\ promised' = [promised EXCEPT ![k] = [retryAt |-> retryAt, passed |-> Len(accepted[k])]]
  /\ accepted' = accepted

Ticking ==
  /\ clock' = clock + 1
  /\ UNCHANGED <<counters, lastCleanupAt, response, accepted, promised>>

LEMMA LimitType == ASSUME NEW k \in Keys PROVE Limit[k] \in Nat \ {0}
  BY LimitAssumption

LEMMA UseSteps ==
  ASSUME TypeOK, NEW k \in Keys, Use(k)
  PROVE  \E now, b : Accepting(k, now, b) \/ \E retryAt : Rejecting(k, now, b, retryAt)
  <1> DEFINE clean == CleanupExpiredBuckets(clock)
  <1>1. PICK now \in clock..(clock + 1) : Use(k)!(now)
    BY DEF Use
  <1> DEFINE b == Counted(BucketOf(k, now))
  <1>2. now \in Nat /\ clock \in Nat /\ now >= clock /\ Window \in Nat \ {0}
    BY WindowAssumption DEF TypeOK
  <1>3. /\ clean \in [Keys -> Bucket]
        /\ \A j \in Keys : Kept(counters[j], clean[j])
        /\ CleansUp(clock) => \A j \in Keys : clean[j] = NoBucket \/ clean[j].resetAt > clock
    BY <1>2 DEF CleanupExpiredBuckets, TypeOK, Bucket, NoBucket, Kept, Expired
  <1>4. /\ BucketOf(k, now) \in Bucket
        /\ BucketOf(k, now) = IF clean[k].resetAt <= now
                              THEN [count |-> 0, resetAt |-> now + Window] ELSE clean[k]
    BY <1>2, <1>3 DEF BucketOf, Bucket
  <1>4a. counters[k].resetAt \in Nat /\ counters[k].count \in Nat /\ counters[k].resetAt <= clock + Window
    BY DEF TypeOK, Bucket
  <1>4b. clean[k].resetAt \in Nat
    BY <1>3 DEF Bucket
  <1>5. clean[k].resetAt <= now <=> counters[k].resetAt <= now
    BY <1>2, <1>3, <1>4a, <1>4b DEF Kept, NoBucket
  <1>6. clean[k].resetAt > now => clean[k] = counters[k]
    BY <1>2, <1>3, <1>4a, <1>4b DEF Kept, NoBucket
  <1>7. /\ b \in Bucket /\ b.resetAt > now /\ b.resetAt <= now + Window
        /\ \/ counters[k].resetAt <= now /\ b.count = 1 /\ b.resetAt = now + Window
           \/ /\ counters[k].resetAt > now
              /\ b.count = counters[k].count + 1 /\ b.resetAt = counters[k].resetAt
    <2>1. CASE counters[k].resetAt <= now
      <3>1. BucketOf(k, now) = [count |-> 0, resetAt |-> now + Window]
        BY <1>4, <1>5, <2>1
      <3>2. b = [count |-> 1, resetAt |-> now + Window]
        BY <3>1 DEF Counted
      <3> QED
        BY <1>2, <2>1, <3>2 DEF Bucket
    <2>2. CASE counters[k].resetAt > now
      <3>1. BucketOf(k, now) = counters[k]
        BY <1>2, <1>4, <1>5, <1>6, <1>4a, <1>4b, <2>2
      <3>2. b = [counters[k] EXCEPT !.count = counters[k].count + 1]
        BY <3>1 DEF Counted
      <3>3. b.count = counters[k].count + 1 /\ b.resetAt = counters[k].resetAt /\ b \in Bucket
        BY <3>1, <3>2, <1>4, <1>4a DEF Bucket
      <3> QED
        BY <1>2, <1>4a, <2>2, <3>3
    <2> QED
      BY <1>2, <1>4a, <2>1, <2>2
  <1> HIDE DEF b
  <1>8. /\ clock' = now
        /\ lastCleanupAt' = IF CleansUp(clock) THEN clock ELSE lastCleanupAt
        /\ counters' = [clean EXCEPT ![k] = b]
    BY <1>1 DEF b
  <1> HIDE DEF clean
  <1>9. Serving(k, now, b)
    <2>1. /\ counters' \in [Keys -> Bucket] /\ counters'[k] = b
          /\ \A j \in Keys \ {k} : Kept(counters[j], counters'[j])
      BY <1>3, <1>7, <1>8
    <2>2. \A j \in Keys : lastCleanupAt' # lastCleanupAt =>
            counters'[j] = NoBucket \/ counters'[j].resetAt > clock
      BY <1>2, <1>3, <1>7, <1>8 DEF Bucket
    <2> QED
      BY <1>2, <1>7, <1>8, <2>1, <2>2 DEF Serving
  <1>10. CASE b.count > Limit[k]
    <2>1. /\ response' = [kind |-> "rejected", key |-> k,
                          retryAt |-> now + RetryAfter(b, now) * Second]
          /\ promised' = [promised EXCEPT ![k] =
                            [retryAt |-> now + RetryAfter(b, now) * Second,
                             passed |-> Len(accepted[k])]]
          /\ accepted' = accepted
      BY <1>1, <1>7, <1>10, LimitType DEF b, Bucket
    <2> QED
      BY <1>9, <1>10, <2>1 DEF Rejecting
  <1>11. CASE b.count <= Limit[k]
    <2>1. /\ response' = [kind |-> "accepted", key |-> k,
                          remaining |-> Larger(Limit[k] - b.count, 0)]
          /\ accepted' = [accepted EXCEPT ![k] =
                            Append(accepted[k], [at |-> now, until |-> b.resetAt])]
          /\ promised' = promised
      BY <1>1, <1>7, <1>11, LimitType DEF b, Bucket
    <2> QED
      BY <1>9, <1>11, <2>1 DEF Accepting
  <1> QED
    BY <1>7, <1>10, <1>11, LimitType DEF Bucket

\* One step: the clock, a request that passes, one that is refused, or nothing.
LEMMA Steps ==
  ASSUME TypeOK, [Next]_vars
  PROVE  \/ Ticking
         \/ \E k \in Keys : \E now, b : Accepting(k, now, b)
         \/ \E k \in Keys : \E now, b, retryAt : Rejecting(k, now, b, retryAt)
         \/ UNCHANGED vars
  <1>1. CASE Tick
    BY <1>1 DEF Tick, Ticking
  <1>2. ASSUME NEW k \in Keys, Use(k)
        PROVE  \/ \E now, b : Accepting(k, now, b)
               \/ \E now, b, retryAt : Rejecting(k, now, b, retryAt)
    BY <1>2, UseSteps
  <1> QED
    BY <1>1, <1>2 DEF Next

\* What Retry-After says, of a live bucket.
LEMMA RetryIsCeiling ==
  ASSUME NEW now \in Nat, NEW b \in Bucket, b.resetAt > now
  PROVE  /\ RetryAfter(b, now) = CeilDiv(b.resetAt - now, Second)
         /\ RetryAfter(b, now) \in 1..(b.resetAt - now)
         /\ now + RetryAfter(b, now) * Second >= b.resetAt
         /\ now + (RetryAfter(b, now) - 1) * Second < b.resetAt
  <1>1. b.resetAt - now \in Nat \ {0} /\ b.resetAt \in Nat
    BY DEF Bucket
  <1>2. /\ CeilDiv(b.resetAt - now, Second) \in 1..(b.resetAt - now)
        /\ CeilDiv(b.resetAt - now, Second) * Second >= b.resetAt - now
        /\ (CeilDiv(b.resetAt - now, Second) - 1) * Second < b.resetAt - now
    BY <1>1, CeilBounds, SecondAssumption
  <1>3. RetryAfter(b, now) = CeilDiv(b.resetAt - now, Second)
    BY <1>1, <1>2 DEF RetryAfter, Larger
  <1> HIDE DEF RetryAfter
  <1>4. SUFFICES ASSUME NEW c \in 1..(b.resetAt - now), c = RetryAfter(b, now),
                        c * Second >= b.resetAt - now, (c - 1) * Second < b.resetAt - now
                 PROVE  now + c * Second >= b.resetAt /\ now + (c - 1) * Second < b.resetAt
    BY <1>2, <1>3
  <1>5. c * Second \in Int /\ (c - 1) * Second \in Int
    BY <1>1, SecondAssumption
  <1> QED
    BY <1>1, <1>4, <1>5

(* Types. *)

LEMMA TypeInit == Init => TypeOK
  <1>1. Init => counters \in [Keys -> Bucket] /\ accepted \in [Keys -> Seq([at : Nat, until : Nat])]
    BY DEF Init, Bucket, NoBucket
  <1>2. Init => promised \in [Keys -> Promise]
    BY DEF Init, Promise, NoPromise
  <1>3. Init => clock \in Nat /\ lastCleanupAt \in 0..clock
    BY CleanupAssumption DEF Init
  <1>4. Init => \A k \in Keys : counters[k].resetAt <= clock + Window
    <2> SUFFICES ASSUME Init, NEW k \in Keys PROVE counters[k].resetAt <= clock + Window
      OBVIOUS
    <2>1. counters[k].resetAt = 0 /\ clock \in Nat
      BY CleanupAssumption DEF Init, NoBucket
    <2> QED
      BY <2>1, WindowAssumption
  <1> QED
    BY <1>1, <1>2, <1>3, <1>4 DEF TypeOK

LEMMA TypeServing ==
  ASSUME TypeOK, NEW k \in Keys, NEW now, NEW b, Serving(k, now, b)
  PROVE  /\ clock' \in Nat /\ lastCleanupAt' \in 0..clock'
         /\ counters' \in [Keys -> Bucket]
         /\ \A j \in Keys : counters'[j].resetAt <= clock' + Window
  <1>1. \A j \in Keys : counters'[j].resetAt <= clock' + Window
    <2> TAKE j \in Keys
    <2>1. CASE j = k
      BY <2>1 DEF Serving
    <2>2. CASE j # k
      <3>1. /\ Kept(counters[j], counters'[j])
            /\ clock' \in Nat /\ clock \in Nat /\ clock' >= clock
            /\ counters[j].resetAt \in Nat /\ counters[j].resetAt <= clock + Window
        BY <2>2 DEF Serving, TypeOK, Bucket
      <3> QED
        BY <3>1, WindowAssumption DEF Kept, NoBucket
    <2> QED
      BY <2>1, <2>2
  <1> QED
    BY <1>1 DEF Serving, TypeOK

LEMMA TypeNext == TypeOK /\ [Next]_vars => TypeOK'
  <1> SUFFICES ASSUME TypeOK, [Next]_vars PROVE TypeOK'
    OBVIOUS
  <1>1. CASE Ticking
    BY <1>1, WindowAssumption DEF Ticking, TypeOK, Bucket
  <1>2. ASSUME NEW k \in Keys, NEW now, NEW b, Accepting(k, now, b) PROVE TypeOK'
    <2>1. Serving(k, now, b) /\ promised' = promised
      BY <1>2 DEF Accepting
    <2>2. [at |-> now, until |-> b.resetAt] \in [at : Nat, until : Nat]
      BY <2>1 DEF Serving, Bucket
    <2>3. accepted[k] \in Seq([at : Nat, until : Nat])
      BY DEF TypeOK
    <2>4. Append(accepted[k], [at |-> now, until |-> b.resetAt]) \in Seq([at : Nat, until : Nat])
      BY <2>2, <2>3
    <2>5. accepted' \in [Keys -> Seq([at : Nat, until : Nat])]
      BY <1>2, <2>4 DEF Accepting, TypeOK
    <2> QED
      BY <2>1, <2>5, TypeServing DEF TypeOK
  <1>3. ASSUME NEW k \in Keys, NEW now, NEW b, NEW retryAt, Rejecting(k, now, b, retryAt)
        PROVE  TypeOK'
    <2>1. Serving(k, now, b) /\ accepted' = accepted
      BY <1>3 DEF Rejecting
    <2>2. now \in Nat /\ b \in Bucket /\ b.resetAt > now
      BY <2>1 DEF Serving
    <2>3. RetryAfter(b, now) \in Nat
      BY <2>2, RetryIsCeiling DEF Bucket
    <2>4. retryAt \in Nat
      <3> HIDE DEF RetryAfter
      <3> QED
        BY <1>3, <2>2, <2>3, SecondAssumption DEF Rejecting
    <2>5. Len(accepted[k]) \in Nat
      BY DEF TypeOK
    <2>6. promised' \in [Keys -> Promise]
      BY <1>3, <2>4, <2>5 DEF Rejecting, TypeOK, Promise
    <2> QED
      BY <2>1, <2>6, TypeServing DEF TypeOK
  <1>4. CASE UNCHANGED vars
    BY <1>4 DEF vars, TypeOK
  <1> QED
    BY <1>1, <1>2, <1>3, <1>4, Steps

\* Every bucket, every entry of the history and every promise is well formed.
THEOREM TypeCorrect == Spec => []TypeOK
  <1> QED
    BY TypeInit, TypeNext, PTL DEF Spec

(* The cleanup. *)

LEMMA FreshInit == Init => BucketsAreFresh
  BY DEF Init, BucketsAreFresh

LEMMA FreshNext == TypeOK /\ BucketsAreFresh /\ [Next]_vars => BucketsAreFresh'
  <1> SUFFICES ASSUME TypeOK, BucketsAreFresh, [Next]_vars,
                      NEW j \in Keys, counters'[j] # NoBucket
               PROVE  counters'[j].resetAt > lastCleanupAt'
    BY DEF BucketsAreFresh
  <1>1. ASSUME NEW k \in Keys, NEW now, NEW b, Serving(k, now, b)
        PROVE  counters'[j].resetAt > lastCleanupAt'
    <2>1. CASE lastCleanupAt' # lastCleanupAt
      BY <1>1, <2>1 DEF Serving
    <2>2. CASE lastCleanupAt' = lastCleanupAt /\ j = k
      BY <1>1, <2>2 DEF Serving, TypeOK, Bucket
    <2>3. CASE lastCleanupAt' = lastCleanupAt /\ j # k
      BY <1>1, <2>3 DEF Serving, Kept, BucketsAreFresh
    <2> QED
      BY <2>1, <2>2, <2>3
  <1>2. CASE Ticking \/ UNCHANGED vars
    BY <1>2 DEF Ticking, vars, BucketsAreFresh
  <1> QED
    BY <1>1, <1>2, Steps DEF Accepting, Rejecting

\* No bucket outlives the cleanup that should have dropped it: the map holds the
\* clients of the last window and of the last pause between cleanups, no more.
THEOREM BucketsFresh == Spec => []BucketsAreFresh
  BY FreshInit, FreshNext, TypeCorrect, PTL DEF Spec

(* The log of the requests that passed. *)

\* Requests are in order of time, within the window they were counted in, and a
\* request of another window came after the earlier window had closed.
InOrder(log) ==
  \A i, j \in 1..Len(log) :
    /\ log[i].at < log[i].until /\ log[i].at >= log[i].until - Window
    /\ i <= j => log[i].at <= log[j].at
    /\ i <= j => \/ log[i].until = log[j].until
                 \/ log[j].at >= log[i].until /\ log[j].until >= log[i].until + Window

\* The first request of a window opened it.
Opens(log) ==
  \A i \in 1..Len(log) :
    \/ log[i].at = log[i].until - Window
    \/ i > 1 /\ log[i - 1].until = log[i].until

\* No window passes more than n.
AtMost(log, n) == \A i, j \in 1..Len(log) : j >= i + n => log[i].until # log[j].until

\* The window of an entry has closed, or is the bucket's, which counted the entry.
Closed(log, bucket) ==
  \A i \in 1..Len(log) :
    \/ log[i].until <= clock
    \/ log[i].until = bucket.resetAt /\ i > Len(log) - bucket.count

\* An open bucket has passed a request, the last one.
Backed(log, bucket) ==
  bucket.resetAt > clock =>
    Len(log) >= 1 /\ log[Len(log)].until = bucket.resetAt /\ bucket.count >= 1

LogOK(k) ==
  /\ InOrder(accepted[k]) /\ Opens(accepted[k]) /\ AtMost(accepted[k], Limit[k])
  /\ \A i \in 1..Len(accepted[k]) : accepted[k][i].at <= clock
  /\ Closed(accepted[k], counters[k]) /\ Backed(accepted[k], counters[k])

LogsOK == \A k \in Keys : LogOK(k)

LEMMA LogType ==
  ASSUME TypeOK, NEW k \in Keys
  PROVE  /\ accepted[k] \in Seq([at : Nat, until : Nat]) /\ Len(accepted[k]) \in Nat
         /\ \A i \in 1..Len(accepted[k]) : accepted[k][i].at \in Nat /\ accepted[k][i].until \in Nat
         /\ counters[k] \in Bucket /\ clock \in Nat
  <1>1. accepted[k] \in Seq([at : Nat, until : Nat])
    BY DEF TypeOK
  <1>2. \A i \in 1..Len(accepted[k]) : accepted[k][i] \in [at : Nat, until : Nat]
    BY <1>1, ElementOfSeq
  <1>3. \A i \in 1..Len(accepted[k]) : accepted[k][i].at \in Nat /\ accepted[k][i].until \in Nat
    <2> TAKE i \in 1..Len(accepted[k])
    <2>1. accepted[k][i] \in [at : Nat, until : Nat]
      BY <1>2
    <2> QED
      BY <2>1
  <1> QED
    BY <1>1, <1>3 DEF TypeOK

LEMMA LogInit == Init => LogsOK
  <1> SUFFICES ASSUME Init, NEW k \in Keys PROVE LogOK(k)
    BY DEF LogsOK
  <1>1. accepted[k] = <<>> /\ counters[k].resetAt = 0 /\ clock \in Nat
    BY CleanupAssumption DEF Init, NoBucket
  <1>2. Len(accepted[k]) = 0 /\ 1..0 = {}
    BY <1>1
  <1> QED
    BY <1>1, <1>2 DEF LogOK, InOrder, Opens, AtMost, Closed, Backed

\* A later clock, and a bucket the cleanup drops, keep the log well formed.
LEMMA LogKept ==
  ASSUME TypeOK, NEW k \in Keys, LogOK(k), clock' \in Nat, clock' >= clock,
         accepted'[k] = accepted[k], Kept(counters[k], counters'[k])
  PROVE  LogOK(k)'
  <1> DEFINE log == accepted[k]
  <1>1. /\ Len(log) \in Nat /\ clock \in Nat /\ counters[k] \in Bucket
        /\ \A i \in 1..Len(log) : log[i].at \in Nat /\ log[i].until \in Nat
    BY LogType
  <1>2. \A i \in 1..Len(log) : log[i].at <= clock'
    BY <1>1 DEF LogOK
  <1>3. Closed(log, counters[k])' /\ Backed(log, counters[k])'
    <2> HIDE DEF log
    <2>1. Closed(log, counters[k]) /\ Backed(log, counters[k])
      BY DEF LogOK, log
    <2>2. log' = log
      BY DEF log
    <2>3. CASE counters'[k] = counters[k]
      BY <1>1, <2>1, <2>2, <2>3 DEF Closed, Backed, Bucket
    <2>4. CASE counters'[k] = NoBucket /\ counters[k].resetAt <= clock
      BY <1>1, <2>1, <2>2, <2>4 DEF Closed, Backed, Bucket, NoBucket
    <2> QED
      BY <2>3, <2>4 DEF Kept
  <1>4. InOrder(log) /\ Opens(log) /\ AtMost(log, Limit[k])
    BY DEF LogOK
  <1> HIDE DEF log
  <1>5. accepted'[k] = log /\ log = accepted[k]
    BY DEF log
  <1>6. InOrder(accepted'[k]) /\ Opens(accepted'[k]) /\ AtMost(accepted'[k], Limit[k])
    BY <1>4, <1>5
  <1>7. \A i \in 1..Len(accepted'[k]) : accepted'[k][i].at <= clock'
    BY <1>2, <1>5
  <1>8. log' = accepted'[k]
    BY DEF log
  <1>9. Closed(accepted[k], counters[k])' /\ Backed(accepted[k], counters[k])'
    BY <1>3, <1>8 DEF Closed, Backed
  <1>10. InOrder(accepted[k])' /\ Opens(accepted[k])' /\ AtMost(accepted[k], Limit[k])'
    BY <1>6 DEF InOrder, Opens, AtMost
  <1> QED
    BY <1>7, <1>9, <1>10 DEF LogOK

\* A request that passes is the first of a new window, or one more of the last.
LEMMA LogAccepted ==
  ASSUME TypeOK, NEW k \in Keys, LogOK(k), NEW now, NEW b, Accepting(k, now, b)
  PROVE  LogOK(k)'
  <1> DEFINE log == accepted[k]
             n == Len(log)
             L == Limit[k]
  <1>1. /\ log \in Seq([at : Nat, until : Nat]) /\ n \in Nat
        /\ \A i \in 1..n : log[i].at \in Nat /\ log[i].until \in Nat
        /\ counters[k].resetAt \in Nat /\ counters[k].count \in Nat /\ clock \in Nat
    BY LogType DEF Bucket
  <1>2. /\ InOrder(log) /\ Opens(log) /\ AtMost(log, L) /\ \A i \in 1..n : log[i].at <= clock
        /\ Closed(log, counters[k]) /\ Backed(log, counters[k])
    BY DEF LogOK
  <1>3. /\ now \in Nat /\ clock <= now /\ clock' = now /\ counters'[k] = b
        /\ b.resetAt \in Nat /\ b.count \in Nat /\ b.resetAt > now /\ b.resetAt <= now + Window
        /\ b.count <= L
        /\ \/ counters[k].resetAt <= now /\ b.count = 1 /\ b.resetAt = now + Window
           \/ /\ counters[k].resetAt > now
              /\ b.count = counters[k].count + 1 /\ b.resetAt = counters[k].resetAt
    BY DEF Accepting, Serving, Bucket
  <1>16. /\ counters[k].resetAt <= now => b.resetAt = now + Window /\ b.count = 1
         /\ counters[k].resetAt > now => b.resetAt = counters[k].resetAt
                                          /\ b.count = counters[k].count + 1
    <2>1. counters[k].resetAt \in Nat /\ now \in Nat
      BY <1>1, <1>3
    <2> QED
      BY <1>3, <2>1
  <1>17. now \in Nat /\ clock \in Nat /\ clock <= now /\ b.resetAt > now /\ b.resetAt \in Nat
         /\ b.count \in Nat /\ b.count <= L /\ counters[k].resetAt \in Nat
         /\ counters[k].count \in Nat
    BY <1>1, <1>3
  <1>4. accepted'[k] = Append(log, [at |-> now, until |-> b.resetAt])
    BY DEF Accepting, TypeOK
  <1>5. L \in Nat \ {0} /\ Window \in Nat \ {0}
    BY LimitType, WindowAssumption
  <1>6. PICK new : new = accepted'[k]
    OBVIOUS
  <1>7. /\ Len(new) = n + 1 /\ \A i \in 1..n : new[i] = log[i]
        /\ new[n + 1] = [at |-> now, until |-> b.resetAt]
    BY <1>1, <1>4, <1>6
  <1> HIDE DEF log, n, L
  <1>8. /\ \A i \in 1..n : /\ new[i].at = log[i].at /\ new[i].until = log[i].until
                           /\ new[i].at \in Nat /\ new[i].until \in Nat
        /\ new[n + 1].at = now /\ new[n + 1].until = b.resetAt
    BY <1>1, <1>7
  <1>18. counters[k].resetAt > now =>
           counters[k].resetAt > clock /\ log[n].until = b.resetAt /\ n >= 1
    <2> SUFFICES ASSUME counters[k].resetAt > now
                 PROVE  counters[k].resetAt > clock /\ log[n].until = b.resetAt /\ n >= 1
      OBVIOUS
    <2>1. counters[k].resetAt > clock
      BY <1>17
    <2>2. log[n].until = counters[k].resetAt /\ n >= 1
      BY <1>2, <2>1 DEF Backed, n
    <2>3. b.resetAt = counters[k].resetAt
      BY <1>16
    <2> QED
      BY <2>1, <2>2, <2>3
  \* What the entries of before are to the window of the new one.
  <1>9. \A i \in 1..n : \/ log[i].until <= now /\ b.resetAt >= log[i].until + Window
                        \/ log[i].until = b.resetAt /\ i > n - counters[k].count
                           /\ counters[k].resetAt > now
    <2> TAKE i \in 1..n
    <2>0. log[i].until \in Nat /\ i \in Nat
      BY <1>1
    <2>1. CASE log[i].until <= clock /\ counters[k].resetAt <= now
      BY <1>5, <1>16, <1>17, <2>0, <2>1
    <2>2. CASE log[i].until <= clock /\ counters[k].resetAt > now
      <3>1. counters[k].resetAt > clock /\ log[n].until = b.resetAt /\ n >= 1
        BY <1>18, <2>2
      <3>0. log[i].until <= now
        BY <1>17, <2>0, <2>2
      <3>4. log[n].until # log[i].until
        BY <1>17, <2>0, <3>0, <3>1
      <3>2. i <= n /\ n \in 1..n /\ log[n].until # log[i].until
        BY <1>1, <3>1, <3>4
      <3>3. log[n].until >= log[i].until + Window
        BY <1>2, <3>2 DEF InOrder, n
      <3> QED
        BY <3>0, <3>1, <3>3
    <2>3. CASE log[i].until > clock
      <3>1. log[i].until = counters[k].resetAt /\ i > n - counters[k].count
        BY <1>1, <1>2, <2>3 DEF Closed, n
      <3>2. CASE counters[k].resetAt <= now
        BY <1>1, <1>3, <1>5, <3>1, <3>2
      <3>3. CASE counters[k].resetAt > now
        BY <1>1, <1>3, <3>1, <3>3
      <3> QED
        BY <1>1, <1>3, <3>2, <3>3
    <2> QED
      BY <1>1, <1>3, <2>1, <2>2, <2>3
  <1>10. InOrder(new)
    <2> SUFFICES ASSUME NEW i \in 1..(n + 1), NEW j \in 1..(n + 1)
                 PROVE  /\ new[i].at < new[i].until /\ new[i].at >= new[i].until - Window
                        /\ i <= j => new[i].at <= new[j].at
                        /\ i <= j => \/ new[i].until = new[j].until
                                     \/ /\ new[j].at >= new[i].until
                                        /\ new[j].until >= new[i].until + Window
      BY <1>7 DEF InOrder
    <2>1. CASE i \in 1..n /\ j \in 1..n
      BY <1>2, <1>8, <2>1 DEF InOrder, n
    <2>2. CASE i \in 1..n /\ j = n + 1
      <3>1. new[i].at < new[i].until /\ new[i].at >= new[i].until - Window /\ log[i].at <= clock
        BY <1>2, <1>8, <2>2 DEF InOrder, n
      <3>2. /\ new[i].at = log[i].at /\ new[i].until = log[i].until
            /\ new[i].at \in Nat /\ new[i].until \in Nat
        BY <1>8, <2>2
      <3>3. \/ log[i].until <= now /\ b.resetAt >= log[i].until + Window
            \/ log[i].until = b.resetAt
        BY <1>9, <2>2
      <3>4. new[j].at = now /\ new[j].until = b.resetAt /\ i <= j
        BY <1>1, <1>8, <2>2
      <3>5. new[i].at <= new[j].at
        BY <1>17, <3>1, <3>2, <3>4
      <3>6. \/ new[i].until = new[j].until
            \/ new[j].at >= new[i].until /\ new[j].until >= new[i].until + Window
        BY <3>2, <3>3, <3>4
      <3> QED
        BY <3>1, <3>5, <3>6
    <2>3. CASE i = n + 1
      BY <1>1, <1>3, <1>5, <1>8, <2>3
    <2> QED
      BY <1>1, <2>1, <2>2, <2>3
  <1>11. Opens(new)
    <2> SUFFICES ASSUME NEW i \in 1..(n + 1)
                 PROVE  \/ new[i].at = new[i].until - Window
                        \/ i > 1 /\ new[i - 1].until = new[i].until
      BY <1>7 DEF Opens
    <2>1. CASE i \in 1..n
      <3>1. log[i].at = log[i].until - Window \/ (i > 1 /\ log[i - 1].until = log[i].until)
        BY <1>2, <2>1 DEF Opens, n
      <3>2. i > 1 => i - 1 \in 1..n
        BY <1>1, <2>1
      <3> QED
        BY <1>8, <2>1, <3>1, <3>2
    <2>2. CASE i = n + 1 /\ counters[k].resetAt <= now
      BY <1>3, <1>5, <1>8, <2>2
    <2>3. CASE i = n + 1 /\ counters[k].resetAt > now
      <3>1. n >= 1 /\ log[n].until = b.resetAt
        BY <1>18, <2>3
      <3> QED
        BY <1>1, <1>8, <2>3, <3>1
    <2> QED
      BY <1>1, <1>3, <2>1, <2>2, <2>3
  <1>12. AtMost(new, L)
    <2> SUFFICES ASSUME NEW i \in 1..(n + 1), NEW j \in 1..(n + 1), j >= i + L
                 PROVE  new[i].until # new[j].until
      BY <1>7 DEF AtMost
    <2>1. CASE j \in 1..n
      <3>1. i \in 1..n
        BY <1>1, <1>5, <2>1
      <3>2. log[i].until # log[j].until
        BY <1>2, <2>1, <3>1 DEF AtMost, n
      <3> QED
        BY <1>8, <2>1, <3>1, <3>2
    <2>2. CASE j = n + 1
      <3>1. i \in 1..n /\ i <= n + 1 - L
        BY <1>1, <1>5, <2>2
      <3>2. CASE log[i].until <= now
        BY <1>1, <1>3, <1>8, <2>2, <3>1, <3>2
      <3>3. CASE i > n - counters[k].count /\ counters[k].resetAt > now
        <4>1. b.count = counters[k].count + 1 /\ b.count <= L /\ i \in Nat
          BY <1>16, <1>17, <3>1, <3>3
        <4>2. n \in Nat /\ i > n - counters[k].count /\ i <= n + 1 - L
          BY <1>1, <3>1, <3>3
        <4> QED
          BY <1>5, <1>17, <4>1, <4>2
      <3> QED
        BY <1>9, <3>1, <3>2, <3>3
    <2> QED
      BY <1>1, <2>1, <2>2
  <1>13. \A i \in 1..Len(new) : new[i].at <= now
    BY <1>1, <1>2, <1>3, <1>7, <1>8
  <1>14. \A i \in 1..Len(new) : \/ new[i].until <= now
                                \/ new[i].until = b.resetAt /\ i > Len(new) - b.count
    <2>0. Len(new) = n + 1 /\ n \in Nat
      BY <1>1, <1>7
    <2> SUFFICES ASSUME NEW i \in 1..(n + 1)
                 PROVE  \/ new[i].until <= now
                        \/ new[i].until = b.resetAt /\ i > n + 1 - b.count
      BY <1>17, <2>0
    <2>1. CASE i \in 1..n
      <3>1. \/ log[i].until <= now
            \/ log[i].until = b.resetAt /\ i > n - counters[k].count /\ counters[k].resetAt > now
        BY <1>9, <2>1
      <3>2. new[i].until = log[i].until /\ n \in Nat /\ i \in Nat
        BY <1>1, <1>8, <2>1
      <3> QED
        BY <1>16, <1>17, <3>1, <3>2
    <2>2. CASE i = n + 1
      BY <1>1, <1>3, <1>8, <2>2
    <2> QED
      BY <1>1, <2>1, <2>2
  <1>15. Len(new) >= 1 /\ new[Len(new)].until = b.resetAt /\ b.count >= 1
    BY <1>1, <1>3, <1>7, <1>8
  <1>19. clock' = now /\ counters'[k] = b /\ accepted'[k] = new
    BY <1>3, <1>6
  <1>20. InOrder(accepted[k])' /\ Opens(accepted[k])' /\ AtMost(accepted[k], Limit[k])'
    <2>1. AtMost(new, Limit[k])
      BY <1>12 DEF L
    <2> QED
      BY <1>10, <1>11, <1>19, <2>1 DEF InOrder, Opens, AtMost
  <1>21. \A i \in 1..Len(accepted'[k]) : accepted'[k][i].at <= clock'
    BY <1>13, <1>19
  <1>22. Closed(accepted[k], counters[k])'
    BY <1>14, <1>19 DEF Closed
  <1>23. Backed(accepted[k], counters[k])'
    BY <1>15, <1>19 DEF Backed
  <1> QED
    BY <1>20, <1>21, <1>22, <1>23 DEF LogOK

\* A request that is refused came to a bucket that had passed its limit.
LEMMA LogRejected ==
  ASSUME TypeOK, NEW k \in Keys, LogOK(k), NEW now, NEW b, NEW retryAt,
         Rejecting(k, now, b, retryAt)
  PROVE  LogOK(k)'
  <1>1. /\ Len(accepted[k]) \in Nat /\ clock \in Nat
        /\ \A i \in 1..Len(accepted[k]) :
             accepted[k][i].at \in Nat /\ accepted[k][i].until \in Nat
        /\ counters[k].resetAt \in Nat /\ counters[k].count \in Nat
    BY LogType DEF Bucket
  <1>2. /\ now \in Nat /\ clock <= now /\ clock' = now /\ counters'[k] = b
        /\ counters[k].resetAt > now /\ b.count = counters[k].count + 1
        /\ b.resetAt = counters[k].resetAt
    BY LimitType DEF Rejecting, Serving, Bucket
  <1>3. accepted' = accepted
    BY DEF Rejecting
  <1>4. Closed(accepted[k], counters[k])'
    BY <1>1, <1>2, <1>3 DEF LogOK, Closed
  <1>5. Backed(accepted[k], counters[k])'
    BY <1>1, <1>2, <1>3 DEF LogOK, Backed
  <1>6. \A i \in 1..Len(accepted[k]) : accepted[k][i].at <= clock'
    BY <1>1, <1>2 DEF LogOK
  <1> QED
    BY <1>3, <1>4, <1>5, <1>6 DEF LogOK, InOrder, Opens, AtMost

LEMMA LogNext == TypeOK /\ LogsOK /\ [Next]_vars => LogsOK'
  <1> SUFFICES ASSUME TypeOK, LogsOK, [Next]_vars, NEW j \in Keys PROVE LogOK(j)'
    BY DEF LogsOK
  <1>1. LogOK(j)
    BY DEF LogsOK
  <1>2. clock \in Nat
    BY DEF TypeOK
  <1>3. ASSUME NEW k \in Keys, NEW now, NEW b, Accepting(k, now, b) PROVE LogOK(j)'
    <2>1. CASE j = k
      BY <1>1, <1>3, <2>1, LogAccepted
    <2>2. CASE j # k
      <3>1. Kept(counters[j], counters'[j]) /\ clock' \in Nat /\ clock' >= clock
        BY <1>3, <2>2 DEF Accepting, Serving
      <3>2. accepted'[j] = accepted[j]
        BY <1>3, <2>2 DEF Accepting, TypeOK
      <3> QED
        BY <1>1, <3>1, <3>2, LogKept
    <2> QED
      BY <2>1, <2>2
  <1>4. ASSUME NEW k \in Keys, NEW now, NEW b, NEW retryAt, Rejecting(k, now, b, retryAt)
        PROVE  LogOK(j)'
    <2>1. CASE j = k
      BY <1>1, <1>4, <2>1, LogRejected
    <2>2. CASE j # k
      <3>1. Kept(counters[j], counters'[j]) /\ clock' \in Nat /\ clock' >= clock
        BY <1>4, <2>2 DEF Rejecting, Serving
      <3>2. accepted'[j] = accepted[j]
        BY <1>4 DEF Rejecting
      <3> QED
        BY <1>1, <3>1, <3>2, LogKept
    <2> QED
      BY <2>1, <2>2
  <1>5. CASE Ticking \/ UNCHANGED vars
    <2>1. Kept(counters[j], counters'[j]) /\ clock' \in Nat /\ clock' >= clock
          /\ accepted'[j] = accepted[j]
      BY <1>2, <1>5 DEF Ticking, vars, Kept
    <2> QED
      BY <1>1, <2>1, LogKept
  <1> QED
    BY <1>3, <1>4, <1>5, Steps

\* An entry and the one 2 * Limit - 1 after it are at least a window apart: the
\* first opened its window, or shares it with the one before it.
LEMMA SlidingFollows == TypeOK /\ LogsOK => SlidingBound
  <1> SUFFICES ASSUME TypeOK, LogsOK, NEW k \in Keys,
                      NEW i \in 1..Len(accepted[k]), NEW j \in 1..Len(accepted[k]),
                      j = i + 2 * Limit[k] - 1
               PROVE  accepted[k][j].at - accepted[k][i].at >= Window
    BY DEF SlidingBound
  <1> DEFINE log == accepted[k]
             L == Limit[k]
  <1>1. /\ Len(log) \in Nat
        /\ \A m \in 1..Len(log) : log[m].at \in Nat /\ log[m].until \in Nat
    BY LogType
  <1>2. InOrder(log) /\ Opens(log) /\ AtMost(log, L)
    BY DEF LogsOK, LogOK
  <1>3. L \in Nat \ {0} /\ Window \in Nat \ {0}
    BY LimitType, WindowAssumption
  <1>4. j = i + 2 * L - 1 /\ i \in 1..Len(log) /\ j \in 1..Len(log)
    OBVIOUS
  <1> HIDE DEF log, L
  <1>5. CASE log[i].at = log[i].until - Window
    <2>1. i + L \in 1..Len(log) /\ i + L <= j
      BY <1>1, <1>3, <1>4
    <2>2. log[i].until # log[i + L].until
      BY <1>2, <1>4, <2>1 DEF AtMost
    <2>3. log[i + L].at >= log[i].until /\ log[i + L].at <= log[j].at
      BY <1>1, <1>2, <1>3, <1>4, <2>1, <2>2 DEF InOrder
    <2> QED
      <3>1. log[i].at \in Nat /\ log[i].until \in Nat /\ log[j].at \in Nat /\ log[i + L].at \in Nat
        BY <1>1, <1>4, <2>1
      <3>2. log[j].at - log[i].at >= Window
        BY <1>3, <1>5, <2>3, <3>1, Span
      <3> QED
        BY <3>2 DEF log
  <1>6. CASE i > 1 /\ log[i - 1].until = log[i].until
    <2> DEFINE m == i + L - 1
    <2>0. i \in Nat /\ j \in Nat /\ j <= Len(log) /\ Len(log) \in Nat /\ i > 1
      BY <1>1, <1>4, <1>6
    <2>7. j = i + 2 * L - 1 /\ L \in Nat \ {0}
      BY <1>3, <1>4
    <2>1. m \in 1..Len(log) /\ i - 1 \in 1..Len(log) /\ j = m + L /\ i <= m /\ m <= j
      BY <2>0, <2>7
    <2>8. m >= (i - 1) + L
      BY <2>0, <2>7
    <2>2. log[m].until # log[i].until
      <3> HIDE DEF m
      <3>1. log[i - 1].until # log[m].until
        BY <1>2, <2>1, <2>8 DEF AtMost
      <3> QED
        BY <1>6, <3>1
    <2>3. log[j].until # log[m].until
      BY <1>2, <1>4, <2>1 DEF AtMost
    <2> HIDE DEF m
    <2>4. log[m].until >= log[i].until + Window
      BY <1>2, <1>4, <2>1, <2>2 DEF InOrder
    <2>5. log[j].at >= log[m].until
      BY <1>2, <1>4, <2>1, <2>3 DEF InOrder
    <2>6. log[i].at < log[i].until
      BY <1>2, <1>4 DEF InOrder
    <2> QED
      <3>1. /\ log[i].at \in Nat /\ log[i].until \in Nat /\ log[j].at \in Nat
            /\ log[m].until \in Nat
        BY <1>1, <1>4, <2>1
      <3>2. log[j].at >= log[i].until + Window
        BY <1>3, <2>4, <2>5, <3>1, Chain
      <3>3. log[j].at - log[i].at >= Window
        BY <1>3, <2>6, <3>1, <3>2
      <3> QED
        BY <3>3 DEF log
  <1> QED
    BY <1>2, <1>4, <1>5, <1>6 DEF Opens

\* For any limit, window, pause between cleanups and sequence of requests, fewer
\* than twice the limit of a key pass in any stretch of one window.
THEOREM SlidingBounded == Spec => []SlidingBound
  <1>1. Spec => []LogsOK
    BY TypeCorrect, LogInit, LogNext, PTL DEF Spec
  <1> QED
    BY <1>1, TypeCorrect, SlidingFollows, PTL

(* Retry-After. *)

\* A bucket that is open after the promised time has passed whatever it counts,
\* up to the limit, since the promise.
Promised(k) ==
  /\ promised[k].passed <= Len(accepted[k])
  /\ counters[k].resetAt > promised[k].retryAt =>
       \/ Len(accepted[k]) >= promised[k].passed + counters[k].count
       \/ Len(accepted[k]) >= promised[k].passed + Limit[k]

PromisesOK == \A k \in Keys : Promised(k)

HonouredStep ==
  \A k \in Keys :
    promised'[k] # promised[k] /\ promised[k] # NoPromise /\ clock' >= promised[k].retryAt =>
      Len(accepted[k]) >= promised[k].passed + Limit[k]

LEMMA PromiseType ==
  ASSUME TypeOK, NEW k \in Keys
  PROVE  /\ promised[k].passed \in Nat /\ promised[k].retryAt \in Nat
         /\ Len(accepted[k]) \in Nat /\ clock \in Nat
         /\ counters[k].resetAt \in Nat /\ counters[k].count \in Nat
  BY LogType DEF TypeOK, Promise, Bucket

LEMMA PromiseInit == Init => PromisesOK
  <1> SUFFICES ASSUME Init, NEW k \in Keys PROVE Promised(k)
    BY DEF PromisesOK
  <1>1. /\ promised[k].passed = 0 /\ promised[k].retryAt = 0 /\ counters[k].resetAt = 0
        /\ accepted[k] = <<>>
    BY DEF Init, NoPromise, NoBucket
  <1> QED
    BY <1>1 DEF Promised

LEMMA PromiseKept ==
  ASSUME TypeOK, NEW k \in Keys, Promised(k), accepted'[k] = accepted[k],
         promised'[k] = promised[k], Kept(counters[k], counters'[k])
  PROVE  Promised(k)'
  BY PromiseType DEF Promised, Kept, NoBucket

LEMMA PromiseAccepted ==
  ASSUME TypeOK, NEW k \in Keys, Promised(k), NEW now, NEW b, Accepting(k, now, b)
  PROVE  Promised(k)'
  <1>1. /\ promised[k].passed \in Nat /\ promised[k].retryAt \in Nat /\ Len(accepted[k]) \in Nat
        /\ counters[k].count \in Nat /\ counters[k].resetAt \in Nat
    BY PromiseType
  <1>2. Len(accepted'[k]) = Len(accepted[k]) + 1
    <2>1. accepted'[k] = Append(accepted[k], [at |-> now, until |-> b.resetAt])
      BY DEF Accepting, TypeOK
    <2> QED
      BY <2>1, LogType
  <1>3. /\ counters'[k] = b /\ promised' = promised
        /\ \/ b.count = 1
           \/ b.count = counters[k].count + 1 /\ b.resetAt = counters[k].resetAt
    BY DEF Accepting, Serving
  <1>4. Limit[k] \in Nat
    BY LimitType
  <1>5. b.resetAt > promised[k].retryAt =>
          \/ Len(accepted[k]) + 1 >= promised[k].passed + b.count
          \/ Len(accepted[k]) + 1 >= promised[k].passed + Limit[k]
    <2>1. CASE b.count = 1
      BY <1>1, <2>1 DEF Promised
    <2>2. CASE b.count = counters[k].count + 1 /\ b.resetAt = counters[k].resetAt
      <3>1. counters[k].resetAt > promised[k].retryAt =>
              \/ Len(accepted[k]) >= promised[k].passed + counters[k].count
              \/ Len(accepted[k]) >= promised[k].passed + Limit[k]
        BY DEF Promised
      <3> SUFFICES ASSUME b.resetAt > promised[k].retryAt
                   PROVE  \/ Len(accepted[k]) + 1 >= promised[k].passed + b.count
                          \/ Len(accepted[k]) + 1 >= promised[k].passed + Limit[k]
        OBVIOUS
      <3>2. counters[k].resetAt > promised[k].retryAt
        BY <2>2
      <3>3. CASE Len(accepted[k]) >= promised[k].passed + counters[k].count
        <4>1. Len(accepted[k]) + 1 >= promised[k].passed + (counters[k].count + 1)
          BY <1>1, <3>3
        <4> QED
          BY <2>2, <4>1
      <3>4. CASE Len(accepted[k]) >= promised[k].passed + Limit[k]
        BY <1>1, <1>4, <3>4
      <3> QED
        BY <3>1, <3>2, <3>3, <3>4
    <2> QED
      BY <1>3, <2>1, <2>2
  <1>6. promised[k].passed <= Len(accepted[k]) + 1
    BY <1>1 DEF Promised
  <1> QED
    BY <1>2, <1>3, <1>5, <1>6 DEF Promised

LEMMA PromiseRejected ==
  ASSUME TypeOK, NEW k \in Keys, Promised(k), NEW now, NEW b, NEW retryAt,
         Rejecting(k, now, b, retryAt)
  PROVE  /\ Promised(k)'
         /\ clock' >= promised[k].retryAt => Len(accepted[k]) >= promised[k].passed + Limit[k]
  <1>1. /\ promised[k].passed \in Nat /\ promised[k].retryAt \in Nat /\ Len(accepted[k]) \in Nat
        /\ counters[k].count \in Nat /\ counters[k].resetAt \in Nat /\ Limit[k] \in Nat \ {0}
    BY PromiseType, LimitType
  <1>2. /\ now \in Nat /\ clock' = now /\ counters'[k] = b /\ accepted' = accepted
        /\ counters[k].resetAt > now /\ b.count = counters[k].count + 1 /\ b.count > Limit[k]
        /\ b.resetAt = counters[k].resetAt
    BY <1>1 DEF Rejecting, Serving
  <1>3. promised'[k].retryAt = retryAt /\ promised'[k].passed = Len(accepted[k])
    BY DEF Rejecting, TypeOK
  <1>4. retryAt >= b.resetAt
    BY RetryIsCeiling DEF Rejecting, Serving
  <1>5. Promised(k)'
    <2>1. retryAt \in Int
      <3>1. RetryAfter(b, now) \in Nat
        BY RetryIsCeiling DEF Rejecting, Serving, Bucket
      <3> HIDE DEF RetryAfter
      <3> QED
        BY <1>2, <3>1, SecondAssumption DEF Rejecting
    <2> QED
      BY <1>1, <1>2, <1>3, <1>4, <2>1 DEF Promised
  <1>6. clock' >= promised[k].retryAt => Len(accepted[k]) >= promised[k].passed + Limit[k]
    BY <1>1, <1>2 DEF Promised
  <1> QED
    BY <1>5, <1>6

LEMMA PromiseNext ==
  TypeOK /\ PromisesOK /\ [Next]_vars => PromisesOK' /\ HonouredStep
  <1> SUFFICES ASSUME TypeOK, PromisesOK, [Next]_vars, NEW j \in Keys
               PROVE  /\ Promised(j)'
                      /\ promised'[j] # promised[j] /\ clock' >= promised[j].retryAt =>
                           Len(accepted[j]) >= promised[j].passed + Limit[j]
    BY DEF PromisesOK, HonouredStep
  <1>1. Promised(j)
    BY DEF PromisesOK
  <1>2. ASSUME accepted'[j] = accepted[j], promised'[j] = promised[j],
               Kept(counters[j], counters'[j])
        PROVE  Promised(j)' /\ promised'[j] = promised[j]
    BY <1>1, <1>2, PromiseKept
  <1>3. ASSUME NEW k \in Keys, NEW now, NEW b, Accepting(k, now, b)
        PROVE  Promised(j)' /\ promised'[j] = promised[j]
    <2>1. CASE j = k
      BY <1>1, <1>3, <2>1, PromiseAccepted DEF Accepting
    <2>2. CASE j # k
      BY <1>2, <1>3, <2>2 DEF Accepting, Serving, TypeOK
    <2> QED
      BY <2>1, <2>2
  <1>4. ASSUME NEW k \in Keys, NEW now, NEW b, NEW retryAt, Rejecting(k, now, b, retryAt), j # k
        PROVE  Promised(j)' /\ promised'[j] = promised[j]
    BY <1>2, <1>4 DEF Rejecting, Serving, TypeOK
  <1>5. CASE Ticking \/ UNCHANGED vars
    BY <1>2, <1>5 DEF Ticking, vars, Kept
  <1> QED
    BY <1>1, <1>3, <1>4, <1>5, PromiseRejected, Steps

\* A client that waits as long as it was told is refused again only if its key
\* has had a whole limit of requests in between: rounding never tells it a time
\* at which the old bucket still counts.
THEOREM RetryHonoured == Spec => RetryAfterHonoured
  <1>1. TypeOK /\ PromisesOK /\ [Next]_vars => [HonouredStep]_vars
    BY PromiseNext
  <1>2. Spec => []PromisesOK
    BY TypeCorrect, PromiseInit, PromiseNext, PTL DEF Spec
  <1> QED
    BY <1>1, <1>2, TypeCorrect, PTL DEF Spec, RetryAfterHonoured, HonouredStep

(* The quotas. *)

QuotaOf(c, now, limit) ==
  IF c.resetAt <= now THEN 0 ELSE IF c.count < limit THEN c.count ELSE limit

UntilOf(c, now) == IF c.resetAt <= now THEN 0 ELSE c.resetAt

LEMMA QuotaInit == Init => Quota!Init
  <1> SUFFICES ASSUME Init PROVE Quota!Init
    OBVIOUS
  <1>1. clock \in Nat /\ \A k \in Keys : counters[k].resetAt = 0
    BY CleanupAssumption DEF Init, NoBucket
  <1> QED
    BY <1>1 DEF Init, Quota!Init

\* What is open of a bucket at a later time, kept or dropped by a cleanup.
LEMMA OpenLater ==
  ASSUME TypeOK, NEW j \in Keys, NEW now \in Nat, now >= clock
  PROVE  /\ Quota!Open([k \in Keys |-> QuotaOf(counters[k], clock, Limit[k])], now)[j]
              = QuotaOf(counters[j], now, Limit[j])
         /\ Quota!Open([k \in Keys |-> UntilOf(counters[k], clock)], now)[j]
              = UntilOf(counters[j], now)
  <1>1. counters[j].resetAt \in Nat /\ clock \in Nat
    BY PromiseType
  <1> QED
    BY <1>1 DEF Quota!Open, QuotaOf, UntilOf

LEMMA KeptQuota ==
  ASSUME TypeOK, NEW j \in Keys, NEW now \in Nat, now >= clock, clock' = now,
         Kept(counters[j], counters'[j])
  PROVE  /\ QuotaOf(counters'[j], now, Limit[j]) = QuotaOf(counters[j], now, Limit[j])
         /\ UntilOf(counters'[j], now) = UntilOf(counters[j], now)
  <1>1. counters[j].resetAt \in Nat /\ clock \in Nat
    BY PromiseType
  <1> QED
    BY <1>1 DEF Kept, NoBucket, QuotaOf, UntilOf

used == [k \in Keys |-> QuotaOf(counters[k], clock, Limit[k])]
until == [k \in Keys |-> UntilOf(counters[k], clock)]

LEMMA PassStep ==
  ASSUME TypeOK, clock' \in Nat, clock' >= clock, response' = response,
         \A j \in Keys : Kept(counters[j], counters'[j])
  PROVE  Quota!Next
  <1>1. /\ used' = Quota!Open(used, clock')
        /\ until' = Quota!Open(until, clock')
    <2>1. \A j \in Keys : /\ QuotaOf(counters'[j], clock', Limit[j]) = Quota!Open(used, clock')[j]
                          /\ UntilOf(counters'[j], clock') = Quota!Open(until, clock')[j]
      BY OpenLater, KeptQuota DEF used, until
    <2> QED
      BY <2>1 DEF used, until, Quota!Open
  <1>2. Quota!Pass(clock')
    BY <1>1 DEF Quota!Pass, used, until, QuotaOf, UntilOf
  <1> QED
    BY <1>2 DEF Quota!Next

\* The mapped functions after a step that serves k.
LEMMA ServedQuota ==
  ASSUME TypeOK, NEW k \in Keys, NEW now, NEW b, Serving(k, now, b)
  PROVE  /\ used' = [Quota!Open(used, now) EXCEPT ![k] = QuotaOf(b, now, Limit[k])]
         /\ until' = [Quota!Open(until, now) EXCEPT ![k] = b.resetAt]
         /\ Quota!Open(used, now)[k] = QuotaOf(counters[k], now, Limit[k])
         /\ now \in Nat /\ now >= clock /\ clock' = now
  <1>1. now \in Nat /\ now >= clock /\ clock' = now /\ b.resetAt > now /\ counters'[k] = b
    BY DEF Serving, TypeOK
  <1>2. \A j \in Keys :
          /\ Quota!Open(used, now)[j] = QuotaOf(counters[j], now, Limit[j])
          /\ Quota!Open(until, now)[j] = UntilOf(counters[j], now)
    BY <1>1, OpenLater DEF used, until
  <1>3. \A j \in Keys \ {k} :
          /\ QuotaOf(counters'[j], now, Limit[j]) = QuotaOf(counters[j], now, Limit[j])
          /\ UntilOf(counters'[j], now) = UntilOf(counters[j], now)
    BY <1>1, KeptQuota DEF Serving
  <1>4. UntilOf(b, now) = b.resetAt
    BY <1>1 DEF UntilOf, Serving, Bucket
  <1>5. used' = [j \in Keys |-> QuotaOf(counters'[j], now, Limit[j])]
    BY <1>1 DEF used
  <1>6. until' = [j \in Keys |-> UntilOf(counters'[j], now)]
    BY <1>1 DEF until
  <1>7. /\ Quota!Open(used, now) = [j \in Keys |-> QuotaOf(counters[j], now, Limit[j])]
        /\ Quota!Open(until, now) = [j \in Keys |-> UntilOf(counters[j], now)]
    BY <1>2 DEF Quota!Open
  <1>8. used' = [Quota!Open(used, now) EXCEPT ![k] = QuotaOf(b, now, Limit[k])]
    BY <1>1, <1>3, <1>5, <1>7
  <1>9. until' = [Quota!Open(until, now) EXCEPT ![k] = b.resetAt]
    BY <1>1, <1>3, <1>4, <1>6, <1>7
  <1> QED
    BY <1>1, <1>2, <1>8, <1>9

\* Quota!Accept, of the mapped functions by name.
LEMMA QuotaAccepts ==
  ASSUME NEW k \in Keys, NEW now, NEW before, before = Quota!Open(used, now),
         before[k] < Limit[k],
         used' = [before EXCEPT ![k] = before[k] + 1],
         until' = [Quota!Open(until, now) EXCEPT ![k] =
                     IF before[k] = 0 THEN now + Window ELSE until[k]],
         response' = [kind |-> "accepted", key |-> k, remaining |-> Limit[k] - used'[k]]
  PROVE  Quota!Accept(k, now)
  BY DEF Quota!Accept, used, until, QuotaOf, UntilOf

\* The time of an answer is the clock after it.
LEMMA QuotaAt ==
  ASSUME NEW k \in Keys, NEW now \in Nat, clock' = now, now >= clock,
         Quota!Accept(k, now) \/ Quota!Reject(k, now)
  PROVE  Quota!Next
  <1>1. CASE Quota!Accept(k, now)
    <2>1. Quota!Accept(k, clock')
      BY <1>1 DEF Quota!Accept, Quota!Open
    <2> QED
      BY <2>1 DEF Quota!Next
  <1>2. CASE Quota!Reject(k, now)
    <2>1. Quota!Reject(k, clock')
      BY <1>2 DEF Quota!Reject, Quota!Open
    <2> QED
      BY <2>1 DEF Quota!Next
  <1> QED
    BY <1>1, <1>2

LEMMA AcceptStep ==
  ASSUME TypeOK, LogsOK, NEW k \in Keys, NEW now, NEW b, Accepting(k, now, b)
  PROVE  Quota!Next
  <1> DEFINE before == Quota!Open(used, now)
             L == Limit[k]
  <1>1. Serving(k, now, b) /\ b.count <= L
    BY DEF Accepting
  <1>2. /\ used' = [before EXCEPT ![k] = QuotaOf(b, now, L)]
        /\ until' = [Quota!Open(until, now) EXCEPT ![k] = b.resetAt]
        /\ before[k] = QuotaOf(counters[k], now, L)
        /\ now \in Nat /\ now >= clock /\ clock' = now
    BY <1>1, ServedQuota
  <1>3. /\ counters[k].resetAt \in Nat /\ counters[k].count \in Nat /\ clock \in Nat
        /\ L \in Nat \ {0} /\ b.count \in Nat /\ b.resetAt \in Nat /\ b.resetAt > now
    BY <1>1, PromiseType, LimitType DEF Serving, Bucket
  <1>5. /\ before[k] < L
        /\ QuotaOf(b, now, L) = before[k] + 1
        /\ b.resetAt = IF before[k] = 0 THEN now + Window ELSE until[k]
    <2>1. CASE counters[k].resetAt <= now
      <3>1. b.count = 1 /\ b.resetAt = now + Window
        BY <1>1, <1>3, <2>1 DEF Serving
      <3>2. before[k] = 0
        BY <1>2, <2>1 DEF QuotaOf
      <3>3. QuotaOf(b, now, L) = 1
        BY <1>2, <1>3, <3>1 DEF QuotaOf
      <3> QED
        BY <1>3, <3>1, <3>2, <3>3
    <2>2. CASE counters[k].resetAt > now
      <3>1. b.count = counters[k].count + 1 /\ b.resetAt = counters[k].resetAt
        BY <1>1, <1>3, <2>2 DEF Serving
      <3>2. counters[k].resetAt > clock
        BY <1>2, <1>3, <2>2
      <3>3. counters[k].count >= 1
        BY <3>2 DEF LogsOK, LogOK, Backed
      <3>4. before[k] = counters[k].count
        BY <1>1, <1>2, <1>3, <2>2, <3>1 DEF QuotaOf
      <3>5. QuotaOf(b, now, L) = b.count
        BY <1>1, <1>2, <1>3 DEF QuotaOf
      <3>6. until[k] = counters[k].resetAt
        BY <1>3, <3>2 DEF until, UntilOf
      <3> QED
        BY <1>1, <1>3, <3>1, <3>3, <3>4, <3>5, <3>6
    <2> QED
      BY <1>2, <1>3, <2>1, <2>2
  <1>6. response' = [kind |-> "accepted", key |-> k, remaining |-> L - used'[k]]
    <2>1. k \in DOMAIN before
      BY DEF Quota!Open
    <2>2. used'[k] = QuotaOf(b, now, L)
      BY <1>2, <2>1
    <2>3. QuotaOf(b, now, L) = b.count
      BY <1>1, <1>2, <1>3 DEF QuotaOf
    <2>4. Larger(L - b.count, 0) = L - b.count
      BY <1>1, <1>3 DEF Larger
    <2> QED
      BY <2>2, <2>3, <2>4 DEF Accepting
  <1>7. Quota!Accept(k, now)
    <2>1. used' = [before EXCEPT ![k] = before[k] + 1]
      BY <1>2, <1>5
    <2>2. until' = [Quota!Open(until, now) EXCEPT ![k] =
                      IF before[k] = 0 THEN now + Window ELSE until[k]]
      BY <1>2, <1>5
    <2> QED
      BY <1>5, <1>6, <2>1, <2>2, QuotaAccepts
  <1> QED
    BY <1>2, <1>3, <1>7, QuotaAt

LEMMA RejectStep ==
  ASSUME TypeOK, NEW k \in Keys, NEW now, NEW b, NEW retryAt, Rejecting(k, now, b, retryAt)
  PROVE  Quota!Next
  <1> DEFINE before == Quota!Open(used, now)
             L == Limit[k]
  <1>1. Serving(k, now, b) /\ b.count > L /\ retryAt = now + RetryAfter(b, now) * Second
        /\ response' = [kind |-> "rejected", key |-> k, retryAt |-> retryAt]
    BY DEF Rejecting
  <1>2. /\ used' = [before EXCEPT ![k] = QuotaOf(b, now, L)]
        /\ until' = [Quota!Open(until, now) EXCEPT ![k] = b.resetAt]
        /\ before[k] = QuotaOf(counters[k], now, L)
        /\ now \in Nat /\ now >= clock /\ clock' = now
    BY <1>1, ServedQuota
  <1>3. /\ counters[k].resetAt \in Nat /\ counters[k].count \in Nat /\ clock \in Nat
        /\ L \in Nat \ {0} /\ b.count \in Nat /\ b.resetAt \in Nat /\ b.resetAt > now
        /\ b.resetAt <= now + Window /\ b \in Bucket
    BY <1>1, PromiseType, LimitType DEF Serving, Bucket
  <1>4. /\ counters[k].resetAt > now /\ b.count = counters[k].count + 1
        /\ b.resetAt = counters[k].resetAt
    BY <1>1, <1>3 DEF Serving
  <1>5. before[k] = L /\ QuotaOf(b, now, L) = L
    BY <1>1, <1>2, <1>3, <1>4 DEF QuotaOf
  <1>6. until[k] = b.resetAt /\ Quota!Open(until, now)[k] = b.resetAt
    BY <1>2, <1>3, <1>4 DEF until, UntilOf, Quota!Open
  <1>7. used' = before /\ until' = Quota!Open(until, now)
    BY <1>2, <1>5, <1>6 DEF Quota!Open
  <1>8. /\ RetryAfter(b, now) \in 1..Window
        /\ now + RetryAfter(b, now) * Second >= until[k]
        /\ now + (RetryAfter(b, now) - 1) * Second < until[k]
    <2>1. RetryAfter(b, now) \in 1..(b.resetAt - now)
      BY <1>2, <1>3, RetryIsCeiling
    <2>2. b.resetAt - now <= Window
      BY <1>2, <1>3, WindowAssumption
    <2>3. RetryAfter(b, now) \in 1..Window
      BY <1>2, <1>3, <2>1, <2>2, WindowAssumption
    <2> QED
      BY <1>2, <1>3, <1>6, <2>3, RetryIsCeiling
  <1>9. Quota!Reject(k, now)
    BY <1>1, <1>5, <1>7, <1>8 DEF Quota!Reject, used, until, QuotaOf, UntilOf
  <1> QED
    BY <1>2, <1>3, <1>9, QuotaAt

LEMMA QuotaStep == TypeOK /\ LogsOK /\ [Next]_vars => [Quota!Next]_(Quota!vars)
  <1> SUFFICES ASSUME TypeOK, LogsOK, [Next]_vars PROVE Quota!Next \/ UNCHANGED Quota!vars
    OBVIOUS
  <1>1. CASE Ticking
    BY <1>1, PassStep DEF Ticking, Kept, TypeOK
  <1>2. CASE UNCHANGED vars
    BY <1>2 DEF vars, Quota!vars
  <1> QED
    BY <1>1, <1>2, AcceptStep, RejectStep, Steps

\* The buckets, lazily expired and now and then cleaned up, implement a limiter
\* that keeps one quota per key and closes its window on time.
THEOREM BucketsImplementQuota == Spec => ImplementsQuota
  <1>1. Spec => []LogsOK
    BY TypeCorrect, LogInit, LogNext, PTL DEF Spec
  <1> QED
    BY <1>1, TypeCorrect, QuotaInit, QuotaStep, PTL DEF Spec, ImplementsQuota, Quota!Spec
================================================================================
