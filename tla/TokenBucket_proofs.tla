------------------------- MODULE TokenBucket_proofs -------------------------
(***************************************************************************)
(* Proofs about the rate limiter: types, and the bound on what it admits.  *)
(* The bound needs a relation between three things that change at          *)
(* different times: the tokens left, the time of the last refill, and what *)
(* was admitted so far.                                                    *)
(***************************************************************************)
EXTENDS TokenBucket, TLAPS

\* A request of a known cost; on its way to the script it is not too old.
CallOK(r) ==
    /\ r.pc = "eval" => r.cost \in Costs /\ r.now <= clock /\ clock - r.now <= MaxLatency

CallsOK == \A c \in Calls : CallOK(calls[c])

TypeInv == TypeOK /\ CallsOK

\* Every request fits into the bucket, and a bucket outlives the time in which it fills
\* up from empty by more than a request can be late.
Sized ==
    /\ \A k \in Costs : k <= MaxTokens
    /\ MaxTokens * FillInterval + MaxLatency <= TimeToLive

\* What was admitted and what is left never exceed the capacity and the refills.
BucketOK(b) ==
    /\ b.tokens >= 0
    /\ b.lastRefill <= clock
    /\ b.lastRefill + TimeToLive <= b.expires
    /\ spent * FillInterval + b.tokens * FillInterval
          <= MaxTokens * FillInterval + (b.lastRefill - since)

RateInv ==
    /\ TypeInv
    /\ since <= clock
    /\ spent = 0 => bucket = {}
    /\ \A b \in bucket : BucketOK(b)
    /\ bucket = {} /\ spent # 0 => spent * FillInterval + MaxLatency <= clock - since

-----------------------------------------------------------------------------
LEMMA ConstantFacts ==
    /\ FillInterval \in Nat /\ FillInterval > 0 /\ MaxTokens \in Nat /\ MaxLatency \in Nat
    /\ TimeToLive \in Nat
    /\ \A k \in Costs : k \in Nat /\ k > 0
<1>1. Interval \in Nat
  BY BucketAssumption DEF Interval
<1> QED
  BY <1>1, BucketAssumption DEF TimeToLive

\* The whole number of fill intervals in a time.
LEMMA Quotient ==
    ASSUME NEW e \in Int
    PROVE  /\ e \div FillInterval \in Int
           /\ (e \div FillInterval) * FillInterval <= e
BY ConstantFacts

\* Cost that moves from the tokens to what was spent leaves their sum as it is.
LEMMA Shift ==
    ASSUME NEW a \in Int, NEW x \in Int, NEW y \in Int, NEW u \in Int, NEW v \in Int,
           x + u <= v
    PROVE  (x + a) + (y - a) <= y + (v - u)
OBVIOUS

\* An entry of an ephemeral cache is written.
LEMMA BlockUpdate ==
    ASSUME blocked \in [Servers -> [Costs -> Int]], NEW s, NEW key, NEW until \in Int,
           blocked' = [blocked EXCEPT ![s][key] = until]
    PROVE  blocked' \in [Servers -> [Costs -> Int]]
<1> SUFFICES ASSUME NEW t \in Servers PROVE blocked'[t] \in [Costs -> Int]
  OBVIOUS
<1>1. blocked[t] \in [Costs -> Int]
  OBVIOUS
<1>2. CASE t = s
  BY <1>1, <1>2
<1>3. CASE t # s
  BY <1>1, <1>3
<1> QED
  BY <1>2, <1>3

\* What a refill makes of a bucket: no more tokens than there is room for, and no more
\* than the time of the last refill has advanced.
LEMMA RefillFacts ==
    ASSUME NEW b \in Bucket, NEW now \in Nat, NEW k \in Costs, clock \in Nat
    PROVE  /\ Refilled(b, now, k) \in Bucket
           /\ Refilled(b, now, k).lastRefill <= now
           /\ Refilled(b, now, k).expires = clock + TimeToLive
           /\ Refilled(b, now, k).tokens * FillInterval - b.tokens * FillInterval
                 <= Refilled(b, now, k).lastRefill - b.lastRefill - k * FillInterval
<1> DEFINE n == TokensToAdd(b, now)
           t == Least(MaxTokens, b.tokens + n)
<1>1. n \in Int /\ n * FillInterval <= now - b.lastRefill
  BY Quotient DEF TokensToAdd, Bucket
<1>2. t \in Int /\ t <= MaxTokens /\ t <= b.tokens + n
  BY <1>1, ConstantFacts DEF Least, Bucket
<1>3. /\ Refilled(b, now, k).lastRefill = b.lastRefill + n * FillInterval
      /\ Refilled(b, now, k).tokens = t - k
      /\ Refilled(b, now, k).expires = clock + TimeToLive
  BY DEF Refilled
<1>4. Refilled(b, now, k) \in Bucket
  <2>1. n * FillInterval \in Int
    BY <1>1, ConstantFacts
  <2>2. t - k \in Int /\ t - k <= MaxTokens
    BY <1>2, ConstantFacts
  <2> HIDE DEF n, t
  <2> QED
    BY <1>3, <2>1, <2>2, ConstantFacts DEF Refilled, Bucket
<1>5. t * FillInterval <= b.tokens * FillInterval + n * FillInterval
  <2> HIDE DEF t, n
  <2>1. b.tokens \in Int /\ FillInterval \in Nat
    BY ConstantFacts DEF Bucket
  <2> DEFINE d == b.tokens + n - t
  <2>2. d \in Nat
    BY <1>1, <1>2, <2>1
  <2>3. d * FillInterval >= 0
    BY <2>1, <2>2
  <2> QED
    BY <1>1, <1>2, <2>1, <2>3
<1> HIDE DEF t, n
<1> QED
  BY <1>1, <1>2, <1>3, <1>4, <1>5, ConstantFacts DEF Bucket

-----------------------------------------------------------------------------
(* Types.                                                                   *)

LEMMA AfterFacts ==
    ASSUME NEW b \in Bucket, NEW now \in Nat, NEW k \in Costs, clock \in Nat
    PROVE  /\ After(b, now, k) \in Bucket
           /\ Remaining(b, now, k) \in Int
           /\ ResetOf(b, now, k) \in Int
<1>1. Drained(b, k) \in Bucket
  BY ConstantFacts DEF Drained, Bucket
<1>2. After(b, now, k) \in Bucket
  BY <1>1, RefillFacts DEF After
<1>3. Remaining(b, now, k) \in Int
  BY RefillFacts, ConstantFacts DEF Remaining, Bucket
<1>4. ResetCost(Remaining(b, now, k), k) \in Int
  BY <1>3, ConstantFacts DEF ResetCost
<1>5. ResetOf(b, now, k) \in Int
  <2> DEFINE m == IF Remaining(b, now, k) >= 0
                  THEN ResetCost(Remaining(b, now, k), k) ELSE k - b.tokens
  <2>1. m \in Int
    BY <1>4, ConstantFacts DEF Bucket
  <2>2. m * FillInterval \in Int
    BY <2>1, ConstantFacts
  <2>3. ResetOf(b, now, k) = After(b, now, k).lastRefill + m * FillInterval
    BY DEF ResetOf
  <2> HIDE DEF m
  <2> QED
    BY <1>2, <2>2, <2>3 DEF Bucket
<1> QED
  BY <1>2, <1>3, <1>5

LEMMA AnsweredOK ==
    ASSUME TypeInv, NEW c \in Calls, calls[c].pc = "eval", NEW remaining \in Int,
           NEW reset \in Int, Answered(c, remaining, reset), clock' = clock
    PROVE  calls' \in [Calls -> Call] /\ CallsOK' /\ spent' \in Nat
<1> DEFINE r == [pc |-> "reply", cost |-> calls[c].cost, now |-> 0,
                 success |-> remaining >= 0, reset |-> reset]
<1>1. calls[c] \in Call
  BY DEF TypeInv, TypeOK
<1>2. r \in Call
  BY <1>1 DEF Call
<1>3. calls' = [calls EXCEPT ![c] = r] /\ r.pc = "reply"
  BY DEF Answered
<1>4. CallsOK'
  <2> HIDE DEF r
  <2> QED
    BY <1>3 DEF TypeInv, TypeOK, CallsOK, CallOK
<1>5. spent' \in Nat
  BY <1>1 DEF Answered, TypeInv, TypeOK, Call
<1>6. calls' \in [Calls -> Call]
  <2> HIDE DEF r
  <2> QED
    BY <1>2, <1>3 DEF TypeInv, TypeOK
<1> QED
  BY <1>4, <1>5, <1>6

LEMMA NoCallOK == NoCall \in Call /\ NoCall.pc = "idle"
BY DEF NoCall, Call

LEMMA TypeStep ==
    ASSUME TypeInv, [Next]_vars
    PROVE  TypeInv'
<1> USE DEF TypeInv, TypeOK
<1>1. ASSUME NEW c \in Calls, NEW k \in Costs, Start(c, k) PROVE TypeInv'
  <2> DEFINE r == [NoCall EXCEPT !.pc = "eval", !.cost = k, !.now = clock]
  <2>1. r \in Call /\ r.pc = "eval" /\ r.cost = k /\ r.now = clock
    BY NoCallOK, ConstantFacts DEF Call
  <2>2. calls' = [calls EXCEPT ![c] = r]
    BY <1>1 DEF Start
  <2>3. calls' \in [Calls -> Call] /\ CallsOK'
    <3> HIDE DEF r
    <3> QED
      BY <1>1, <2>1, <2>2, ConstantFacts DEF Start, CallsOK, CallOK
  <2>4. blocked' \in [Servers -> [Costs -> Int]]
    <3>1. blocked' = [blocked EXCEPT ![ServerOf[c]][LocalCacheIdentifier(k)] = 0]
      BY <1>1 DEF Start
    <3>2. blocked \in [Servers -> [Costs -> Int]] /\ 0 \in Int
      OBVIOUS
    <3> QED
      BY <3>1, <3>2, BlockUpdate, Zenon
  <2> QED
    BY <1>1, <2>3, <2>4 DEF Start
<1>2. ASSUME NEW c \in Calls, EvaluateNew(c) PROVE TypeInv'
  <2> DEFINE k == calls[c].cost
             remaining == MaxTokens - k
             reset == calls[c].now + ResetCost(remaining, k) * FillInterval
  <2>1. k \in Costs /\ calls[c].now \in Nat /\ k \in Nat
    BY <1>2, ConstantFacts DEF EvaluateNew, CallsOK, CallOK, Call
  <2>2. remaining \in Int /\ ResetCost(remaining, k) \in Int
    BY <2>1, ConstantFacts DEF ResetCost
  <2>3. reset \in Int
    <3>1. ResetCost(remaining, k) * FillInterval \in Int
      BY <2>2, ConstantFacts
    <3> QED
      BY <2>1, <3>1
  <2>4. calls' \in [Calls -> Call] /\ CallsOK' /\ spent' \in Nat
    BY <1>2, <2>2, <2>3, AnsweredOK DEF EvaluateNew
  <2>5. Created(calls[c].now, k) \in Bucket
    BY <2>1, ConstantFacts DEF Created, Bucket
  <2>6. bucket' = {Created(calls[c].now, k)} /\ since' \in Nat
    BY <1>2, <2>1 DEF EvaluateNew
  <2> QED
    BY <1>2, <2>4, <2>5, <2>6 DEF EvaluateNew
<1>3. ASSUME NEW c \in Calls, Evaluate(c) PROVE TypeInv'
  <2>1. PICK b \in bucket :
          /\ bucket' = {After(b, calls[c].now, calls[c].cost)}
          /\ Answered(c, Remaining(b, calls[c].now, calls[c].cost),
                         ResetOf(b, calls[c].now, calls[c].cost))
    BY <1>3 DEF Evaluate
  <2>2. calls[c].cost \in Costs /\ calls[c].now \in Nat /\ b \in Bucket
    BY <1>3 DEF Evaluate, CallsOK, CallOK, Call
  <2>3. /\ After(b, calls[c].now, calls[c].cost) \in Bucket
        /\ Remaining(b, calls[c].now, calls[c].cost) \in Int
        /\ ResetOf(b, calls[c].now, calls[c].cost) \in Int
    BY <2>2, AfterFacts
  <2>4. calls' \in [Calls -> Call] /\ CallsOK' /\ spent' \in Nat
    BY <1>3, <2>1, <2>3, AnsweredOK DEF Evaluate
  <2> QED
    BY <1>3, <2>1, <2>3, <2>4 DEF Evaluate
<1>4. ASSUME NEW c \in Calls, Reply(c) PROVE TypeInv'
  <2>1. calls' \in [Calls -> Call] /\ CallsOK'
    BY <1>4, NoCallOK DEF Reply, CallsOK, CallOK
  <2>2. blocked' \in [Servers -> [Costs -> Int]]
    <3>1. calls[c].reset \in Int
      BY DEF Call
    <3> QED
      BY <1>4, <3>1, BlockUpdate DEF Reply
  <2> QED
    BY <1>4, <2>1, <2>2 DEF Reply
<1>5. ASSUME NEW c \in Calls, Fail(c) PROVE TypeInv'
  BY <1>5, NoCallOK DEF Fail, CallsOK, CallOK
<1>6. ASSUME NEW s \in Servers, Restart(s) PROVE TypeInv'
  BY <1>6, NoCallOK DEF Restart, CallsOK, CallOK
<1>7. ASSUME Tick PROVE TypeInv'
  <2>1. CallsOK'
    BY <1>7, ConstantFacts DEF Tick, CallsOK, CallOK, Call
  <2> QED
    BY <1>7, <2>1 DEF Tick
<1>8. CASE UNCHANGED vars
  BY <1>8 DEF vars, CallsOK, CallOK
<1> QED
  BY <1>1, <1>2, <1>3, <1>4, <1>5, <1>6, <1>7, <1>8 DEF Next

LEMMA TypeInit == Init => TypeInv
BY NoCallOK DEF Init, TypeInv, TypeOK, CallsOK, CallOK

\* Every variable keeps its type, and the bucket never holds more than its capacity.
THEOREM TypeCorrect == Spec => []TypeOK
<1>1. TypeInv => TypeOK
  BY DEF TypeInv
<1> QED
  BY <1>1, TypeInit, TypeStep, PTL DEF Spec

-----------------------------------------------------------------------------
(* The rate.                                                                *)

LEMMA RateStep ==
    ASSUME Sized, RateInv, [Next]_vars
    PROVE  RateInv'
<1> TypeInv'
  BY TypeStep DEF RateInv
<1> USE DEF TypeInv, TypeOK
<1> DEFINE S == spent * FillInterval
           M == MaxTokens * FillInterval
<1>0. clock \in Nat /\ since \in Nat /\ spent \in Nat
  BY DEF RateInv
\* A step that leaves the bucket, the clock and the history alone.
<1>1. ASSUME UNCHANGED <<clock, bucket, since, spent>> PROVE RateInv'
  BY <1>1 DEF RateInv, BucketOK
<1>2. ASSUME NEW c \in Calls, EvaluateNew(c) PROVE RateInv'
  <2> DEFINE k == calls[c].cost
             now == calls[c].now
  <2>1. k \in Costs /\ k \in Nat /\ k > 0 /\ k <= MaxTokens /\ now \in Nat /\ now <= clock
        /\ clock - now <= MaxLatency
    BY <1>2, ConstantFacts DEF EvaluateNew, RateInv, CallsOK, CallOK, Call, Sized
  <2> PICK n : n = Created(now, k)
    OBVIOUS
  <2>2. spent' = spent + k /\ clock' = clock /\ bucket' = {n}
    BY <1>2, <2>1, ConstantFacts DEF EvaluateNew, Answered
  <2>3. n.tokens = MaxTokens - k /\ n.lastRefill = now /\ n.expires = clock + TimeToLive
    BY DEF Created
  <2>4. /\ (spent + k) * FillInterval = S + k * FillInterval
        /\ (MaxTokens - k) * FillInterval = M - k * FillInterval
    BY <1>0, <2>1, ConstantFacts
  <2>5. since' \in Nat /\ since' <= now /\ S + since' <= now
    <3>1. CASE spent = 0
      BY <1>2, <2>1, <3>1, ConstantFacts DEF EvaluateNew
    <3>2. CASE spent # 0
      <4>1. since' = since
        BY <1>2, <3>2 DEF EvaluateNew
      <4>2. S + MaxLatency <= clock - since
        BY <1>2, <3>2 DEF EvaluateNew, RateInv
      <4>3. S \in Nat
        BY <1>0, ConstantFacts
      <4> QED
        BY <1>0, <2>1, <4>1, <4>2, <4>3, ConstantFacts
    <3> QED
      BY <3>1, <3>2
  <2>6. BucketOK(n)'
    <3>1. k * FillInterval \in Nat /\ S \in Nat /\ M \in Nat
      BY <1>0, <2>1, ConstantFacts
    <3>2. n.tokens >= 0 /\ n.lastRefill <= clock /\ n.lastRefill + TimeToLive <= n.expires
      BY <1>0, <2>1, <2>3, ConstantFacts
    <3>3. (spent + k) * FillInterval + (MaxTokens - k) * FillInterval <= M + (now - since')
      <4>1. (S + k * FillInterval) + (M - k * FillInterval) <= M + (now - since')
        BY <2>1, <2>5, <3>1, Shift
      <4> QED
        BY <2>4, <4>1
    <3> QED
      BY <2>2, <2>3, <3>2, <3>3 DEF BucketOK
  <2> QED
    BY <1>0, <2>1, <2>2, <2>5, <2>6 DEF RateInv
<1>3. ASSUME NEW c \in Calls, Evaluate(c) PROVE RateInv'
  <2> DEFINE k == calls[c].cost
             now == calls[c].now
  <2>1. PICK b \in bucket :
          bucket' = {After(b, now, k)} /\ Answered(c, Remaining(b, now, k), ResetOf(b, now, k))
    BY <1>3 DEF Evaluate
  <2>2. k \in Costs /\ k \in Nat /\ k > 0 /\ now \in Nat /\ now <= clock
    BY <1>3, ConstantFacts DEF Evaluate, RateInv, CallsOK, CallOK, Call
  <2>3. b \in Bucket /\ BucketOK(b) /\ clock' = clock /\ since' = since /\ spent # 0
    BY <1>3 DEF Evaluate, RateInv
  <2>4. spent' = IF Remaining(b, now, k) >= 0 THEN spent + k ELSE spent
    BY <2>1 DEF Answered
  <2>5. (spent + k) * FillInterval = S + k * FillInterval
    BY <1>0, <2>2, ConstantFacts
  <2>6. CASE b.tokens >= k
    <3> DEFINE d == Drained(b, k)
    <3>1. After(b, now, k) = d /\ spent' = spent + k
      BY <2>2, <2>3, <2>4, <2>6 DEF After, Remaining, Bucket
    <3>2. d.tokens = b.tokens - k /\ d.lastRefill = b.lastRefill /\ d.expires = b.expires
      BY <2>3 DEF Drained, Bucket
    <3>3. (b.tokens - k) * FillInterval = b.tokens * FillInterval - k * FillInterval
      BY <2>2, <2>3, ConstantFacts DEF Bucket
    <3>4. /\ d.tokens >= 0 /\ d.lastRefill <= clock /\ d.lastRefill + TimeToLive <= d.expires
          /\ spent' * FillInterval + d.tokens * FillInterval
                <= MaxTokens * FillInterval + (d.lastRefill - since)
      <4>1. k * FillInterval \in Nat /\ S \in Nat /\ M \in Nat /\ b.tokens * FillInterval \in Int
        BY <1>0, <2>2, <2>3, ConstantFacts DEF Bucket
      <4>2. /\ b.lastRefill <= clock /\ b.lastRefill + TimeToLive <= b.expires
            /\ S + b.tokens * FillInterval <= M + (b.lastRefill - since)
        BY <2>3 DEF BucketOK
      <4>3. d.tokens >= 0
        BY <2>2, <2>3, <2>6, <3>2 DEF Bucket
      <4>4. (S + k * FillInterval) + (b.tokens * FillInterval - k * FillInterval)
              <= M + (b.lastRefill - since)
        <5> HIDE DEF S, M, k
        <5> QED
          BY <4>1, <4>2
      <4> QED
        BY <2>5, <3>1, <3>2, <3>3, <4>2, <4>3, <4>4
    <3> QED
      BY <2>1, <2>2, <2>3, <3>1, <3>4, <1>0 DEF RateInv, BucketOK
  <2>7. CASE b.tokens < k /\ Refilled(b, now, k).tokens >= 0
    <3> DEFINE d == Refilled(b, now, k)
    <3>1. After(b, now, k) = d /\ spent' = spent + k
      BY <2>2, <2>3, <2>4, <2>7 DEF After, Remaining, Bucket
    <3>2. /\ d \in Bucket /\ d.lastRefill <= now /\ d.expires = clock + TimeToLive
          /\ d.tokens * FillInterval - b.tokens * FillInterval
                <= d.lastRefill - b.lastRefill - k * FillInterval
      BY <1>0, <2>2, <2>3, RefillFacts
    <3>3. /\ d.tokens >= 0 /\ d.lastRefill <= clock /\ d.lastRefill + TimeToLive <= d.expires
          /\ spent' * FillInterval + d.tokens * FillInterval
                <= MaxTokens * FillInterval + (d.lastRefill - since)
      <4>1. /\ k * FillInterval \in Nat /\ S \in Nat /\ M \in Nat
            /\ b.tokens * FillInterval \in Int /\ d.tokens * FillInterval \in Int
            /\ b.lastRefill \in Int /\ d.lastRefill \in Int
        <5> HIDE DEF d
        <5> QED
          BY <1>0, <2>2, <2>3, <3>2, ConstantFacts DEF Bucket
      <4>2. S + b.tokens * FillInterval <= M + (b.lastRefill - since)
        BY <2>3 DEF BucketOK
      <4>3. (S + k * FillInterval) + d.tokens * FillInterval <= M + (d.lastRefill - since)
        <5> HIDE DEF S, M, k, d
        <5> QED
          BY <1>0, <3>2, <4>1, <4>2
      <4>4. d.lastRefill <= clock /\ d.lastRefill + TimeToLive <= d.expires
        <5> HIDE DEF d
        <5> QED
          BY <1>0, <2>2, <3>2, <4>1, ConstantFacts
      <4> QED
        BY <2>5, <2>7, <3>1, <4>3, <4>4
    <3> QED
      <4> HIDE DEF d
      <4> QED
        BY <2>1, <2>2, <2>3, <3>1, <3>3, <1>0 DEF RateInv, BucketOK
  <2>8. CASE b.tokens < k /\ ~(Refilled(b, now, k).tokens >= 0)
    <3>1. After(b, now, k) = b /\ spent' = spent
      BY <2>2, <2>3, <2>4, <2>8 DEF After, Remaining, Bucket
    <3> QED
      BY <2>1, <2>3, <3>1 DEF RateInv, BucketOK
  <2> QED
    BY <2>2, <2>3, <2>6, <2>7, <2>8 DEF Bucket
<1>4. ASSUME Tick PROVE RateInv'
  <2>1. clock' = clock + 1 /\ since' = since /\ spent' = spent
        /\ bucket' = {b \in bucket : clock + 1 < b.expires}
    BY <1>4 DEF Tick
  <2>2. \A b \in bucket' : BucketOK(b)'
    <3> SUFFICES ASSUME NEW b \in bucket' PROVE BucketOK(b)'
      OBVIOUS
    <3>1. b \in bucket /\ BucketOK(b) /\ b \in Bucket
      BY <2>1 DEF RateInv
    <3>2. b.lastRefill <= clock + 1
      BY <1>0, <3>1 DEF BucketOK, Bucket
    <3> QED
      BY <2>1, <3>1, <3>2 DEF BucketOK
  <2>3. ASSUME bucket' = {}, spent # 0 PROVE S + MaxLatency <= clock + 1 - since
    <3>1. CASE bucket = {}
      <4>1. S + MaxLatency <= clock - since /\ S \in Nat
        BY <1>0, <2>3, <3>1, ConstantFacts DEF RateInv
      <4> QED
        BY <1>0, <4>1, ConstantFacts
    <3>2. CASE bucket # {}
      <4>1. PICK b \in bucket : ~(clock + 1 < b.expires)
        BY <2>1, <2>3, <3>2
      <4>2. BucketOK(b) /\ b \in Bucket
        BY DEF RateInv
      <4>3. S \in Nat /\ M \in Nat /\ b.tokens * FillInterval \in Nat
        BY <1>0, <4>2, ConstantFacts DEF BucketOK, Bucket
      <4>4. b.lastRefill + TimeToLive <= b.expires /\ S + b.tokens * FillInterval <= M + (b.lastRefill - since)
        BY <4>2 DEF BucketOK
      <4>5. M + MaxLatency <= TimeToLive
        BY DEF Sized
      <4>6. b.lastRefill \in Int /\ b.expires \in Int
        BY <4>2 DEF Bucket
      <4> HIDE DEF S, M
      <4> QED
        BY <1>0, <4>1, <4>3, <4>4, <4>5, <4>6, ConstantFacts
    <3> QED
      BY <3>1, <3>2
  <2> QED
    BY <1>0, <2>1, <2>2, <2>3 DEF RateInv
<1>5. CASE \E c \in Calls, k \in Costs : Start(c, k)
  BY <1>1, <1>5 DEF Start
<1>6. CASE \E c \in Calls : Reply(c) \/ Fail(c)
  BY <1>1, <1>6 DEF Reply, Fail
<1>7. CASE \E s \in Servers : Restart(s)
  BY <1>1, <1>7 DEF Restart
<1>8. CASE UNCHANGED vars
  BY <1>1, <1>8 DEF vars
<1> QED
  BY <1>2, <1>3, <1>4, <1>5, <1>6, <1>7, <1>8 DEF Next

\* From the creation of the first bucket the limiter admits no more than the capacity of
\* the bucket plus the refills, for all costs that fit into the bucket, any number of
\* servers and any delays shorter than the slack of the bucket's time to live.
THEOREM RateBounded ==
    ASSUME Sized
    PROVE  Spec => []RateIsBounded
<1>1. Init => RateInv
  BY TypeInit DEF Init, RateInv, BucketOK
<1>2. RateInv /\ [Next]_vars => RateInv'
  BY RateStep
<1>3. RateInv => RateIsBounded
  <2> SUFFICES ASSUME RateInv PROVE RateIsBounded
    OBVIOUS
  <2> DEFINE S == spent * FillInterval
             M == MaxTokens * FillInterval
  <2>1. clock \in Nat /\ since \in Nat /\ spent \in Nat /\ since <= clock
    BY DEF RateInv, TypeInv, TypeOK
  <2>2. S \in Nat /\ M \in Nat
    BY <2>1, ConstantFacts
  <2>3. CASE spent = 0
    <3>1. S = 0
      BY <2>3, ConstantFacts
    <3> HIDE DEF S, M
    <3>2. S <= M + (clock - since)
      BY <2>1, <2>2, <3>1
    <3> QED
      BY <3>2 DEF RateIsBounded, S, M
  <2>4. CASE bucket = {} /\ spent # 0
    <3>1. S + MaxLatency <= clock - since
      BY <2>4 DEF RateInv
    <3> HIDE DEF S, M
    <3>2. S <= M + (clock - since)
      BY <2>1, <2>2, <3>1, ConstantFacts
    <3> QED
      BY <3>2 DEF RateIsBounded, S, M
  <2>5. ASSUME NEW b \in bucket PROVE RateIsBounded
    <3>1. BucketOK(b) /\ b \in Bucket
      BY DEF RateInv, TypeInv, TypeOK
    <3>2. b.tokens * FillInterval \in Nat /\ b.lastRefill \in Int
      BY <3>1, ConstantFacts DEF BucketOK, Bucket
    <3>3. b.lastRefill <= clock /\ S + b.tokens * FillInterval <= M + (b.lastRefill - since)
      BY <3>1 DEF BucketOK
    <3> HIDE DEF S, M
    <3>4. S <= M + (clock - since)
      BY <2>1, <2>2, <3>2, <3>3
    <3> QED
      BY <3>4 DEF RateIsBounded, S, M
  <2> QED
    BY <2>3, <2>4, <2>5
<1> QED
  BY <1>1, <1>2, <1>3, PTL DEF Spec

-----------------------------------------------------------------------------
(***************************************************************************)
(* What the rate limiter says is true: a reset is a time at which the      *)
(* request is admitted, and the ephemeral caches refuse only what Redis    *)
(* would refuse.  Both rest on one number, the time at which a bucket      *)
(* would hold the tokens of a cost: nothing the script does moves it back. *)
(***************************************************************************)

\* The time at which bucket b would hold k tokens.
Due(b, k) == b.lastRefill + (k - b.tokens) * FillInterval

\* Until that time the bucket has not enough for k.
Refused(until, k) == until > clock => \E b \in bucket : until <= Due(b, k)

\* What the servers remember, and what they are about to remember.
JustInv ==
    /\ RateInv
    /\ \A s \in Servers, k \in Costs : Refused(blocked[s][k], k)
    /\ \A c \in Calls : calls[c].pc = "reply" =>
          /\ calls[c].cost \in Costs
          /\ ~calls[c].success => Refused(calls[c].reset, calls[c].cost)

-----------------------------------------------------------------------------
(* Arithmetic.                                                              *)

LEMMA QuotientBelow ==
    ASSUME NEW e \in Int, NEW m \in Int, e < m * FillInterval
    PROVE  e \div FillInterval < m
<1> DEFINE q == e \div FillInterval
<1>1. q \in Int /\ q * FillInterval <= e
  BY Quotient
<1> HIDE DEF q
<1>2. ASSUME q >= m PROVE FALSE
  <2>1. (q - m) * FillInterval >= 0
    BY <1>1, <1>2, ConstantFacts
  <2>2. (q - m) * FillInterval = q * FillInterval - m * FillInterval
    BY <1>1, ConstantFacts
  <2>3. q * FillInterval \in Int /\ m * FillInterval \in Int
    BY <1>1, ConstantFacts
  <2> QED
    BY <1>1, <2>1, <2>2, <2>3
<1>3. q < m
  BY <1>1, <1>2
<1> QED
  BY <1>3 DEF q

LEMMA QuotientAbove ==
    ASSUME NEW e \in Int, NEW m \in Int, e >= m * FillInterval
    PROVE  e \div FillInterval >= m
<1> DEFINE q == e \div FillInterval
<1>1. q \in Int
  BY Quotient
<1>2. e < (q + 1) * FillInterval
  BY ConstantFacts
<1> HIDE DEF q
<1>3. ASSUME q < m PROVE FALSE
  <2>1. (m - (q + 1)) * FillInterval >= 0
    BY <1>1, <1>3, ConstantFacts
  <2>2. (m - (q + 1)) * FillInterval = m * FillInterval - (q + 1) * FillInterval
    BY <1>1, ConstantFacts
  <2>3. (q + 1) * FillInterval \in Int /\ m * FillInterval \in Int
    BY <1>1, ConstantFacts
  <2> QED
    BY <1>2, <2>1, <2>2, <2>3
<1>4. q >= m
  BY <1>1, <1>3
<1> QED
  BY <1>4 DEF q

-----------------------------------------------------------------------------
(* A bucket that refuses a cost.                                            *)

LEMMA DueFacts ==
    ASSUME NEW b \in Bucket, NEW k \in Costs
    PROVE  /\ Due(b, k) \in Int
           /\ Due(b, k) = b.lastRefill + k * FillInterval - b.tokens * FillInterval
           /\ k * FillInterval \in Nat /\ b.tokens * FillInterval \in Int
           /\ b.lastRefill \in Int /\ b.tokens \in Int
<1>1. b.lastRefill \in Int /\ b.tokens \in Int /\ k \in Nat
  BY ConstantFacts DEF Bucket
<1>2. (k - b.tokens) * FillInterval = k * FillInterval - b.tokens * FillInterval
  BY <1>1, ConstantFacts
<1>3. k * FillInterval \in Nat /\ b.tokens * FillInterval \in Int
  BY <1>1, ConstantFacts
<1> QED
  BY <1>1, <1>2, <1>3 DEF Due

\* Whatever the script does to a bucket, it is not earlier that it holds k tokens.
LEMMA DueGrows ==
    ASSUME NEW b \in Bucket, NEW now \in Nat, NEW k \in Costs, NEW j \in Costs, clock \in Nat
    PROVE  Due(b, k) <= Due(After(b, now, j), k)
<1>0. j \in Nat /\ j * FillInterval \in Nat
  BY DueFacts, ConstantFacts
<1>1. CASE b.tokens >= j
  <2>1. /\ After(b, now, j).lastRefill = b.lastRefill
        /\ After(b, now, j).tokens = b.tokens - j
    BY <1>1 DEF After, Drained, Bucket
  <2>2. (b.tokens - j) * FillInterval = b.tokens * FillInterval - j * FillInterval
    BY <1>0, DueFacts, ConstantFacts
  <2>3. After(b, now, j) \in Bucket
    BY AfterFacts
  <2>4. Due(After(b, now, j), k)
           = b.lastRefill + k * FillInterval - (b.tokens * FillInterval - j * FillInterval)
    BY <2>1, <2>2, <2>3, DueFacts
  <2> QED
    BY <1>0, <2>4, DueFacts
<1>2. CASE b.tokens < j /\ After(b, now, j) = b
  BY <1>2, DueFacts
<1>3. CASE b.tokens < j /\ After(b, now, j) # b
  <2> DEFINE r == Refilled(b, now, j)
  <2>1. After(b, now, j) = r
    BY <1>0, <1>3, DueFacts DEF After
  <2>2. r \in Bucket
        /\ r.tokens * FillInterval - b.tokens * FillInterval
              <= r.lastRefill - b.lastRefill - j * FillInterval
    BY RefillFacts
  <2> HIDE DEF r
  <2>3. Due(b, k) <= Due(r, k)
    BY <1>0, <2>2, DueFacts
  <2> QED
    BY <2>1, <2>3
<1> QED
  BY <1>0, <1>1, <1>2, <1>3, DueFacts

\* A request that is refused is told when the bucket will hold its cost.
LEMMA RefusalIsDue ==
    ASSUME NEW b \in Bucket, NEW now \in Nat, NEW k \in Costs, clock \in Nat,
           Remaining(b, now, k) < 0
    PROVE  After(b, now, k) = b /\ ResetOf(b, now, k) = Due(b, k)
<1>1. ~(b.tokens >= k)
  BY ConstantFacts DEF Remaining, Bucket
<1>2. ~(Refilled(b, now, k).tokens >= 0)
  <2>1. Refilled(b, now, k).tokens \in Int
    BY RefillFacts DEF Bucket
  <2> QED
    BY <1>1, <2>1 DEF Remaining
<1>3. After(b, now, k) = b
  BY <1>1, <1>2 DEF After
<1>4. ~(Remaining(b, now, k) >= 0)
  BY AfterFacts
<1> QED
  BY <1>3, <1>4 DEF ResetOf, Due

\* Before that time the bucket does not admit the cost.
LEMMA DueIsNotAdmitted ==
    ASSUME NEW b \in Bucket, BucketOK(b), NEW k \in Costs, clock \in Nat, Due(b, k) > clock
    PROVE  ~Admits(b, clock, k)
<1> DEFINE n == TokensToAdd(b, clock)
           t == Least(MaxTokens, b.tokens + n)
<1>1. k \in Nat /\ b.tokens \in Int /\ b.lastRefill \in Int
  BY ConstantFacts DEF Bucket
<1>2. ~(b.tokens >= k)
  <2>1. ASSUME b.tokens >= k PROVE FALSE
    <3>1. (b.tokens - k) * FillInterval >= 0
      BY <1>1, <2>1, ConstantFacts
    <3>2. (b.tokens - k) * FillInterval = b.tokens * FillInterval - k * FillInterval
      BY <1>1, ConstantFacts
    <3> QED
      BY <1>1, <3>1, <3>2, DueFacts DEF BucketOK
  <2> QED
    BY <2>1
<1>3. n < k - b.tokens
  <2> DEFINE e == clock - b.lastRefill
             m == k - b.tokens
  <2>1. e \in Int /\ m \in Int
    BY <1>1
  <2>2. m * FillInterval \in Int
    BY <2>1, ConstantFacts
  <2>3. e < m * FillInterval
    <3> HIDE DEF m
    <3>1. Due(b, k) = b.lastRefill + m * FillInterval
      BY DEF Due, m
    <3> QED
      BY <1>1, <2>2, <3>1
  <2>4. e \div FillInterval < m
    <3> HIDE DEF e, m
    <3> QED
      BY <2>1, <2>3, QuotientBelow
  <2> QED
    BY <2>4 DEF TokensToAdd
<1>4. n \in Int
  BY <1>1, Quotient DEF TokensToAdd
<1> HIDE DEF n
<1>5. t \in Int /\ t - k < 0
  BY <1>1, <1>3, <1>4, ConstantFacts DEF Least
<1>6. Remaining(b, clock, k) = t - k
  BY <1>2 DEF Remaining, Refilled, n
<1> HIDE DEF t
<1> QED
  BY <1>1, <1>5, <1>6 DEF Admits

\* A bucket that will hold enough for any cost does not expire before.
LEMMA DueBeforeExpiry ==
    ASSUME Sized, NEW b \in Bucket, BucketOK(b), NEW k \in Costs
    PROVE  Due(b, k) <= b.expires
<1>1. k \in Nat /\ k <= MaxTokens
  BY ConstantFacts DEF Sized
<1>2. (MaxTokens - k) * FillInterval >= 0
  BY <1>1, ConstantFacts
<1>3. (MaxTokens - k) * FillInterval = MaxTokens * FillInterval - k * FillInterval
  BY <1>1, ConstantFacts
<1>4. b.tokens * FillInterval >= 0
  BY ConstantFacts DEF BucketOK, Bucket
<1>5. MaxTokens * FillInterval + MaxLatency <= TimeToLive /\ MaxTokens * FillInterval \in Nat
  BY ConstantFacts DEF Sized
<1>6. b.lastRefill + TimeToLive <= b.expires /\ b.expires \in Int
  BY DEF BucketOK, Bucket
<1> QED
  BY <1>2, <1>3, <1>4, <1>5, <1>6, DueFacts, ConstantFacts

-----------------------------------------------------------------------------
(* The ephemeral caches.                                                    *)

\* A step that leaves the clock and the bucket alone leaves the refusals true.
LEMMA RefusedStays ==
    ASSUME UNCHANGED <<clock, bucket>>, NEW until, NEW k, Refused(until, k)
    PROVE  Refused(until, k)'
BY DEF Refused, Due

LEMMA EvaluateKeepsRefused ==
    ASSUME RateInv, NEW c \in Calls, Evaluate(c), NEW until \in Int, NEW k \in Costs,
           Refused(until, k)
    PROVE  Refused(until, k)'
<1> DEFINE cost == calls[c].cost
           now == calls[c].now
<1>1. cost \in Costs /\ now \in Nat /\ clock \in Nat /\ clock' = clock
  BY DEF Evaluate, RateInv, TypeInv, TypeOK, CallsOK, CallOK, Call
<1>2. PICK b \in bucket : bucket' = {After(b, now, cost)}
  BY DEF Evaluate
<1>3. b \in Bucket /\ After(b, now, cost) \in Bucket
  BY <1>1, <1>2, AfterFacts DEF RateInv, TypeInv, TypeOK
<1>4. Due(b, k) <= Due(After(b, now, cost), k)
  BY <1>1, <1>3, DueGrows
<1> DEFINE a == After(b, now, cost)
<1> HIDE DEF a
<1> SUFFICES ASSUME until > clock PROVE until <= Due(a, k)
  BY <1>1, <1>2 DEF Refused, Due, a
<1>5. until <= Due(b, k)
  BY <1>2 DEF Refused, RateInv, TypeInv, TypeOK
<1>6. Due(b, k) \in Int /\ Due(a, k) \in Int
  BY <1>3, DueFacts DEF a
<1> QED
  BY <1>4, <1>5, <1>6 DEF a

LEMMA TickKeepsRefused ==
    ASSUME Sized, RateInv, Tick, NEW until \in Int, NEW k \in Costs, Refused(until, k)
    PROVE  Refused(until, k)'
<1>1. clock \in Nat /\ clock' = clock + 1 /\ bucket' = {b \in bucket : clock + 1 < b.expires}
  BY DEF Tick, RateInv, TypeInv, TypeOK
<1> SUFFICES ASSUME until > clock + 1 PROVE \E b \in bucket' : until <= Due(b, k)
  BY <1>1 DEF Refused, Due
<1>2. PICK b \in bucket : until <= Due(b, k)
  BY <1>1 DEF Refused
<1>3. b \in Bucket /\ BucketOK(b)
  BY DEF RateInv, TypeInv, TypeOK
<1>4. Due(b, k) <= b.expires /\ Due(b, k) \in Int /\ b.expires \in Int
  BY <1>3, DueBeforeExpiry, DueFacts DEF Bucket
<1> QED
  BY <1>1, <1>2, <1>4

LEMMA JustStep ==
    ASSUME Sized, JustInv, [Next]_vars
    PROVE  JustInv'
<1> RateInv /\ RateInv'
  BY RateStep DEF JustInv
<1>0. /\ clock \in Nat /\ blocked \in [Servers -> [Costs -> Int]] /\ calls \in [Calls -> Call]
      /\ calls' \in [Calls -> Call]
  BY DEF RateInv, TypeInv, TypeOK
<1> DEFINE Told(c) == calls[c].pc = "reply" =>
                         /\ calls[c].cost \in Costs
                         /\ ~calls[c].success => Refused(calls[c].reset, calls[c].cost)
<1>1. ASSUME NEW c \in Calls, NEW cost \in Costs, Start(c, cost) PROVE JustInv'
  <2>1. \A s \in Servers, k \in Costs : blocked'[s][k] \in {blocked[s][k], 0}
    BY <1>0, <1>1 DEF Start, LocalCacheIdentifier
  <2>2. \A d \in Calls : calls'[d].pc = "reply" => calls'[d] = calls[d]
    BY <1>0, <1>1 DEF Start, NoCall
  <2> QED
    BY <1>0, <1>1, <2>1, <2>2 DEF Start, JustInv, Refused, Due
<1>2. ASSUME NEW c \in Calls, EvaluateNew(c) PROVE JustInv'
  <2>1. \A until, k : Refused(until, k) => ~(until > clock)
    BY <1>2 DEF EvaluateNew, Refused
  <2>2. \A until, k : Refused(until, k) => Refused(until, k)'
    BY <1>2, <2>1 DEF EvaluateNew, Refused
  <2>3. calls[c].cost \in Costs /\ MaxTokens - calls[c].cost >= 0
    BY <1>2, ConstantFacts DEF EvaluateNew, RateInv, TypeInv, CallsOK, CallOK, Sized
  <2>4. /\ \A d \in Calls : d # c => calls'[d] = calls[d]
        /\ calls'[c].cost = calls[c].cost /\ calls'[c].success
    BY <1>0, <1>2, <2>3 DEF EvaluateNew, Answered
  <2> QED
    BY <1>2, <2>2, <2>3, <2>4 DEF EvaluateNew, JustInv
<1>3. ASSUME NEW c \in Calls, Evaluate(c) PROVE JustInv'
  <2> DEFINE cost == calls[c].cost
             now == calls[c].now
  <2>1. cost \in Costs /\ now \in Nat
    BY <1>3 DEF Evaluate, RateInv, TypeInv, TypeOK, CallsOK, CallOK, Call
  <2>2. PICK b \in bucket :
          bucket' = {After(b, now, cost)} /\ Answered(c, Remaining(b, now, cost), ResetOf(b, now, cost))
    BY <1>3 DEF Evaluate
  <2>3. b \in Bucket
    BY DEF RateInv, TypeInv, TypeOK
  <2>4. /\ \A d \in Calls : d # c => calls'[d] = calls[d]
        /\ calls'[c].cost = cost
        /\ calls'[c].success = (Remaining(b, now, cost) >= 0)
        /\ calls'[c].reset = ResetOf(b, now, cost)
    BY <1>0, <2>2 DEF Answered
  <2>5. ASSUME ~calls'[c].success PROVE Refused(calls[c].reset, calls[c].cost)'
    <3>1. Remaining(b, now, cost) < 0
      <4>1. ~(Remaining(b, now, cost) >= 0)
        BY <2>4, <2>5
      <4> QED
        BY <1>0, <2>1, <2>3, <4>1, AfterFacts
    <3>2. bucket' = {b} /\ calls'[c].reset = Due(b, cost)
      BY <1>0, <2>1, <2>2, <2>3, <2>4, <3>1, RefusalIsDue
    <3>3. Due(b, cost) <= Due(b, cost)
      BY <2>1, <2>3, DueFacts
    <3> QED
      BY <2>4, <3>2, <3>3 DEF Refused, Due
  <2>6. \A d \in Calls : Told(d)'
    <3> SUFFICES ASSUME NEW d \in Calls PROVE Told(d)'
      OBVIOUS
    <3>1. CASE d = c
      BY <2>1, <2>4, <2>5, <3>1
    <3>2. CASE d # c
      <4>1. calls'[d] = calls[d] /\ Told(d)
        BY <2>4, <3>2 DEF JustInv
      <4>2. calls[d].reset \in Int
        BY <1>0 DEF Call
      <4>3. ASSUME calls[d].pc = "reply", ~calls[d].success
            PROVE  Refused(calls[d].reset, calls[d].cost)'
        <5>1. Refused(calls[d].reset, calls[d].cost) /\ calls[d].cost \in Costs
          BY <4>1, <4>3
        <5>2. PICK until, k : until = calls[d].reset /\ k = calls[d].cost
          OBVIOUS
        <5>3. Refused(until, k)'
          BY <1>3, <4>2, <5>1, <5>2, EvaluateKeepsRefused
        <5> QED
          BY <4>1, <5>2, <5>3 DEF Refused, Due
      <4> QED
        BY <4>1, <4>3
    <3> QED
      BY <3>1, <3>2
  <2>7. ASSUME NEW s \in Servers, NEW k \in Costs PROVE Refused(blocked[s][k], k)'
    <3>1. PICK until : until = blocked[s][k]
      OBVIOUS
    <3>2. until \in Int /\ Refused(until, k)
      BY <1>0, <3>1 DEF JustInv
    <3>3. Refused(until, k)'
      BY <1>3, <3>2, EvaluateKeepsRefused
    <3> QED
      BY <1>3, <3>1, <3>3 DEF Evaluate, Refused
  <2> QED
    BY <2>6, <2>7 DEF JustInv
<1>4. ASSUME NEW c \in Calls, Reply(c) PROVE JustInv'
  <2>1. \A s \in Servers, k \in Costs :
           \/ blocked'[s][k] = blocked[s][k]
           \/ ~calls[c].success /\ k = calls[c].cost /\ blocked'[s][k] = calls[c].reset
    BY <1>0, <1>4 DEF Reply, LocalCacheIdentifier
  <2>2. \A s \in Servers, k \in Costs : Refused(blocked'[s][k], k)
    <3>1. ~calls[c].success => Refused(calls[c].reset, calls[c].cost)
      BY <1>4 DEF Reply, JustInv
    <3>2. \A s \in Servers, k \in Costs : Refused(blocked[s][k], k)
      BY DEF JustInv
    <3> SUFFICES ASSUME NEW s \in Servers, NEW k \in Costs PROVE Refused(blocked'[s][k], k)
      OBVIOUS
    <3>3. CASE blocked'[s][k] = blocked[s][k]
      BY <3>2, <3>3 DEF Refused
    <3>4. CASE ~calls[c].success /\ k = calls[c].cost /\ blocked'[s][k] = calls[c].reset
      BY <3>1, <3>4 DEF Refused
    <3> QED
      BY <2>1, <3>3, <3>4
  <2>3. \A d \in Calls : calls'[d].pc = "reply" => calls'[d] = calls[d]
    BY <1>0, <1>4 DEF Reply, NoCall
  <2> QED
    BY <1>4, <2>2, <2>3 DEF Reply, JustInv, Refused, Due
<1>5. ASSUME NEW c \in Calls, Fail(c) PROVE JustInv'
  <2>1. \A d \in Calls : calls'[d].pc = "reply" => calls'[d] = calls[d]
    BY <1>0, <1>5 DEF Fail, NoCall
  <2> QED
    BY <1>5, <2>1 DEF Fail, JustInv, Refused, Due
<1>6. ASSUME NEW s \in Servers, Restart(s) PROVE JustInv'
  <2>1. \A t \in Servers, k \in Costs : blocked'[t][k] \in {blocked[t][k], 0}
    BY <1>0, <1>6 DEF Restart
  <2>2. \A d \in Calls : calls'[d].pc = "reply" => calls'[d] = calls[d]
    BY <1>0, <1>6 DEF Restart, NoCall
  <2> QED
    BY <1>0, <1>6, <2>1, <2>2 DEF Restart, JustInv, Refused, Due
<1>7. CASE Tick
  <2>1. ASSUME NEW s \in Servers, NEW k \in Costs PROVE Refused(blocked[s][k], k)'
    <3>1. PICK until : until = blocked[s][k]
      OBVIOUS
    <3>2. until \in Int /\ Refused(until, k)
      BY <1>0, <3>1 DEF JustInv
    <3>3. Refused(until, k)'
      BY <1>7, <3>2, TickKeepsRefused
    <3> QED
      BY <1>7, <3>1, <3>3 DEF Tick, Refused
  <2>2. ASSUME NEW d \in Calls PROVE Told(d)'
    <3>1. calls' = calls /\ Told(d)
      BY <1>7 DEF Tick, JustInv
    <3>2. ASSUME calls[d].pc = "reply", ~calls[d].success
          PROVE  Refused(calls[d].reset, calls[d].cost)'
      <4>1. PICK until, k : until = calls[d].reset /\ k = calls[d].cost
        OBVIOUS
      <4>2. until \in Int /\ k \in Costs /\ Refused(until, k)
        BY <1>0, <3>1, <3>2, <4>1 DEF Call
      <4>3. Refused(until, k)'
        BY <1>7, <4>2, TickKeepsRefused
      <4> QED
        BY <3>1, <4>1, <4>3 DEF Refused, Due
    <3> QED
      BY <3>1, <3>2
  <2> QED
    BY <2>1, <2>2 DEF JustInv
<1>8. CASE UNCHANGED vars
  BY <1>8 DEF vars, JustInv, Refused, Due
<1> QED
  BY <1>1, <1>2, <1>3, <1>4, <1>5, <1>6, <1>7, <1>8 DEF Next

\* A server refuses by itself only what Redis would refuse as well, except in the
\* millisecond of the reset that it was told, for any servers and costs that fit and
\* whatever other requests do meanwhile.
THEOREM CacheRefusesJustly ==
    ASSUME Sized
    PROVE  Spec => []LocalRefusalIsJust
<1>1. Init => JustInv
  <2> SUFFICES ASSUME Init PROVE JustInv
    OBVIOUS
  <2>1. RateInv
    BY TypeInit DEF Init, RateInv, BucketOK
  <2> QED
    BY <2>1 DEF Init, JustInv, Refused, NoCall
<1>2. JustInv /\ [Next]_vars => JustInv'
  BY JustStep
<1>3. JustInv => LocalRefusalIsJust
  <2> SUFFICES ASSUME JustInv, NEW s \in Servers, NEW k \in Costs, blocked[s][k] >= clock,
                      clock # blocked[s][k]
               PROVE  \E b \in bucket : ~Admits(b, clock, k)
    BY DEF LocalRefusalIsJust, IsBlocked, LocalCacheIdentifier
  <2>0. clock \in Nat /\ blocked[s][k] \in Int /\ blocked[s][k] > clock
    BY DEF JustInv, RateInv, TypeInv, TypeOK
  <2>1. PICK b \in bucket : blocked[s][k] <= Due(b, k)
    BY <2>0 DEF JustInv, Refused
  <2>2. b \in Bucket /\ BucketOK(b) /\ clock \in Nat /\ blocked[s][k] \in Int
    BY <2>0 DEF JustInv, RateInv, TypeInv, TypeOK
  <2>3. Due(b, k) > clock
    BY <2>0, <2>1, <2>2, DueFacts
  <2> QED
    BY <2>2, <2>3, DueIsNotAdmitted
<1> QED
  BY <1>1, <1>2, <1>3, PTL DEF Spec

-----------------------------------------------------------------------------
(* The resets.                                                              *)

\* A bucket that lacks m tokens for a cost admits it m fill intervals after its refill.
LEMMA AdmittedWhenDue ==
    ASSUME Sized, NEW a \in Bucket, NEW k \in Costs, NEW m \in Int, a.tokens + m >= k,
           NEW at \in Int, at >= a.lastRefill + m * FillInterval
    PROVE  Admits(a, at, k)
<1> DEFINE n == TokensToAdd(a, at)
           t == Least(MaxTokens, a.tokens + n)
<1>1. k \in Nat /\ k <= MaxTokens /\ a.tokens \in Int /\ a.lastRefill \in Int
  BY ConstantFacts DEF Sized, Bucket
<1>2. n \in Int /\ n >= m
  <2> DEFINE e == at - a.lastRefill
  <2>1. e \in Int /\ m * FillInterval \in Int
    BY <1>1, ConstantFacts
  <2>2. e >= m * FillInterval
    BY <1>1, <2>1
  <2>3. n = e \div FillInterval
    BY DEF TokensToAdd
  <2> HIDE DEF e, n
  <2> QED
    BY <2>1, <2>2, <2>3, QuotientAbove, Quotient
<1> HIDE DEF n
<1>3. t - k >= 0
  BY <1>1, <1>2, ConstantFacts DEF Least
<1>4. Remaining(a, at, k) = IF a.tokens >= k THEN a.tokens - k ELSE t - k
  BY DEF Remaining, Refilled, n
<1> HIDE DEF t
<1> QED
  BY <1>1, <1>3, <1>4 DEF Admits

\* What an answer says is missing is enough.
LEMMA ResetSuffices ==
    ASSUME NEW b \in Bucket, NEW now \in Nat, NEW k \in Costs, clock \in Nat
    PROVE  \E m \in Int :
              /\ After(b, now, k).tokens + m >= k
              /\ ResetOf(b, now, k) = After(b, now, k).lastRefill + m * FillInterval
<1> DEFINE rem == Remaining(b, now, k)
           m == IF rem >= 0 THEN ResetCost(rem, k) ELSE k - b.tokens
<1>1. rem \in Int /\ k \in Nat /\ b.tokens \in Int
  BY AfterFacts, ConstantFacts DEF Bucket
<1>2. rem >= 0 => After(b, now, k).tokens = rem
  BY ConstantFacts DEF Remaining, After, Drained, Bucket
<1>3. rem < 0 => After(b, now, k).tokens = b.tokens
  BY RefusalIsDue
<1> HIDE DEF rem
<1>4. m \in Int /\ After(b, now, k).tokens + m >= k
  BY <1>1, <1>2, <1>3 DEF ResetCost
<1>5. ResetOf(b, now, k) = After(b, now, k).lastRefill + m * FillInterval
  BY DEF ResetOf, rem
<1> QED
  BY <1>4, <1>5

\* The reset of every answer is a time at which a request of the same cost is admitted, if
\* no other one comes between, for all costs that fit into the bucket.
THEOREM ResetsAreHonoured ==
    ASSUME Sized
    PROVE  Spec => ResetIsHonoured
<1>1. ASSUME TypeInv, [Next]_vars, NEW c \in Calls, calls[c].pc = "eval", calls'[c].pc = "reply"
      PROVE  LET at == IF calls'[c].reset > clock THEN calls'[c].reset ELSE clock
             IN  \A b \in bucket' : at < b.expires => Admits(b, at, calls[c].cost)
  <2> DEFINE k == calls[c].cost
             now == calls[c].now
             at == IF calls'[c].reset > clock THEN calls'[c].reset ELSE clock
  <2>0. /\ k \in Costs /\ now \in Nat /\ clock \in Nat /\ calls \in [Calls -> Call]
        /\ bucket \subseteq Bucket /\ TypeInv' /\ k <= MaxTokens
    BY <1>1, TypeStep DEF TypeInv, TypeOK, CallsOK, CallOK, Call, Sized
  <2>1. EvaluateNew(c) \/ Evaluate(c)
    <3>1. ASSUME NEW d \in Calls, d # c, EvaluateNew(d) \/ Evaluate(d) PROVE FALSE
      <4>1. \E r : calls' = [calls EXCEPT ![d] = r]
        BY <3>1 DEF EvaluateNew, Evaluate, Answered
      <4>2. calls'[c] = calls[c]
        BY <2>0, <3>1, <4>1
      <4> QED
        BY <1>1, <4>2
    <3>2. ASSUME NEW d \in Calls, (\E j \in Costs : Start(d, j)) \/ Reply(d) \/ Fail(d) PROVE FALSE
      <4>1. (\E r : r.pc = "eval" /\ calls' = [calls EXCEPT ![d] = r])
            \/ calls' = [calls EXCEPT ![d] = NoCall]
        <5>1. ASSUME NEW j \in Costs, Start(d, j)
              PROVE  \E r : r.pc = "eval" /\ calls' = [calls EXCEPT ![d] = r]
          <6> DEFINE r == [NoCall EXCEPT !.pc = "eval", !.cost = j, !.now = clock]
          <6>1. r.pc = "eval" /\ calls' = [calls EXCEPT ![d] = r]
            BY <5>1 DEF Start, NoCall
          <6> QED
            BY <6>1
        <5>2. CASE Reply(d) \/ Fail(d)
          BY <5>2 DEF Reply, Fail
        <5> QED
          BY <3>2, <5>1, <5>2
      <4> QED
        BY <1>1, <2>0, <4>1 DEF NoCall
    <3>3. ASSUME NEW s \in Servers, Restart(s) PROVE FALSE
      BY <1>1, <2>0, <3>3 DEF Restart, NoCall
    <3>4. ~Tick /\ ~UNCHANGED vars
      BY <1>1 DEF Tick, vars
    <3> QED
      BY <1>1, <3>1, <3>2, <3>3, <3>4 DEF Next
  <2>2. PICK a \in bucket', m \in Int :
          /\ bucket' = {a}
          /\ a.tokens + m >= k
          /\ calls'[c].reset = a.lastRefill + m * FillInterval
    <3>1. CASE EvaluateNew(c)
      <4> DEFINE a == Created(now, k)
                 m == ResetCost(MaxTokens - k, k)
      <4>1. bucket' = {a} /\ calls'[c].reset = now + m * FillInterval
        BY <2>0, <3>1 DEF EvaluateNew, Answered
      <4>2. m \in Int /\ a.tokens + m >= k /\ a.lastRefill = now
        BY <2>0, ConstantFacts DEF ResetCost, Created
      <4> QED
        BY <4>1, <4>2
    <3>2. CASE Evaluate(c)
      <4>1. PICK b \in bucket : bucket' = {After(b, now, k)} /\ calls'[c].reset = ResetOf(b, now, k)
        BY <2>0, <3>2 DEF Evaluate, Answered
      <4>2. b \in Bucket
        BY <2>0, <4>1
      <4> QED
        BY <2>0, <4>1, <4>2, ResetSuffices
    <3> QED
      BY <2>1, <3>1, <3>2
  <2>3. a \in Bucket
    BY <2>0, <2>2 DEF TypeInv, TypeOK
  <2>4. at \in Int /\ at >= a.lastRefill + m * FillInterval
    <3>1. a.lastRefill + m * FillInterval \in Int
      BY <2>2, <2>3, ConstantFacts DEF Bucket
    <3> QED
      BY <2>0, <2>2, <3>1
  <2>5. Admits(a, at, k)
    BY <2>0, <2>2, <2>3, <2>4, AdmittedWhenDue
  <2> QED
    BY <2>2, <2>5
<1>2. TypeInv /\ [Next]_vars =>
        [\A c \in Calls : calls[c].pc = "eval" /\ calls'[c].pc = "reply" =>
          LET at == IF calls'[c].reset > clock THEN calls'[c].reset ELSE clock
          IN  \A b \in bucket' : at < b.expires => Admits(b, at, calls[c].cost)]_vars
  BY <1>1
<1> QED
  BY <1>2, TypeInit, TypeStep, PTL DEF Spec, ResetIsHonoured
=============================================================================
