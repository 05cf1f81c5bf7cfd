----------------------------- MODULE TokenBucket -----------------------------
(***************************************************************************)
(* The API rate limiter (apps/api, EvaluateTokenBucketRateLimit): a token  *)
(* bucket in Redis that a Lua script evaluates, shared by all API servers, *)
(* and in front of it the ephemeral cache in which every server remembers  *)
(* the requests it need not ask Redis about.  One bucket is modelled: one  *)
(* environment and one category of requests.                               *)
(*                                                                         *)
(* Time is in milliseconds.  The clocks of the servers and of Redis agree, *)
(* and FillInterval, a quotient in the code, is a whole number.            *)
(***************************************************************************)
EXTENDS Integers, FiniteSets

CONSTANTS
    Servers,        \* API servers
    Calls,          \* requests in progress, at most
    ServerOf,       \* the server of a request
    Costs,          \* costs of the requests (single, bulk)
    MaxTokens,      \* burstLimit, the capacity of the bucket
    RefillRate,     \* tokens per window
    FillInterval,   \* time between refills
    MaxLatency,     \* longest time from Date.now to the script (not in the code)
    MaxTime         \* bound on the clock

ASSUME CallAssumption == ServerOf \in [Calls -> Servers]

ASSUME BucketAssumption ==
    /\ Costs \subseteq Nat \ {0}
    /\ MaxTokens \in Nat \ {0}
    /\ RefillRate \in Nat \ {0}
    /\ FillInterval \in Nat \ {0}
    /\ MaxLatency \in Nat
    /\ MaxTime \in Nat

VARIABLES
    clock,     \* Date.now() and the clock of Redis
    bucket,    \* the hash in Redis, a set of at most one record
    blocked,   \* ephemeralCache of every server: until when a cost is blocked
    calls,     \* control state and local variables of every request
    since,     \* history: when the first bucket was created
    spent      \* history: total cost of the requests that were admitted

vars == <<clock, bucket, blocked, calls, since, spent>>

NoCall == [pc |-> "idle", cost |-> 0, now |-> 0, success |-> TRUE, reset |-> 0]

Init ==
    /\ clock = 0
    /\ bucket = {}
    /\ blocked = [s \in Servers |-> [k \in Costs |-> 0]]
    /\ calls = [c \in Calls |-> NoCall]
    /\ since = 0
    /\ spent = 0

-----------------------------------------------------------------------------
(* The Lua script.                                                          *)

Interval == RefillRate * FillInterval

\* PEXPIRE: the bucket lives for two windows after its creation or last refill.
TimeToLive == 2 * Interval

\* math.floor(elapsed / fillInterval); negative when the request is older than the
\* last refill.
TokensToAdd(b, now) == (now - b.lastRefill) \div FillInterval

Least(x, y) == IF x <= y THEN x ELSE y

\* Mutant: the time of the last refill stays what it was.
RefilledForgotten(b, now, cost) ==
    [lastRefill |-> b.lastRefill,
     tokens |-> Least(MaxTokens, b.tokens + TokensToAdd(b, now)) - cost,
     expires |-> clock + TimeToLive]

\* Mutant: the refill is not limited by the capacity.
RefilledUncapped(b, now, cost) ==
    [lastRefill |-> b.lastRefill + TokensToAdd(b, now) * FillInterval,
     tokens |-> b.tokens + TokensToAdd(b, now) - cost,
     expires |-> clock + TimeToLive]

Refilled(b, now, cost) ==
    [lastRefill |-> b.lastRefill + TokensToAdd(b, now) * FillInterval,
     tokens |-> Least(MaxTokens, b.tokens + TokensToAdd(b, now)) - cost,
     expires |-> clock + TimeToLive]

Created(now, cost) ==
    [lastRefill |-> now, tokens |-> MaxTokens - cost, expires |-> clock + TimeToLive]

\* The bucket is refilled only when its tokens do not suffice.
Drained(b, cost) == [b EXCEPT !.tokens = @ - cost]

\* What the script leaves in Redis: a bucket that does not admit the request stays as
\* it is, but a new one is written even if it does not.
After(b, now, cost) ==
    IF b.tokens >= cost THEN Drained(b, cost)
    ELSE IF Refilled(b, now, cost).tokens >= 0 THEN Refilled(b, now, cost) ELSE b

Remaining(b, now, cost) ==
    IF b.tokens >= cost THEN b.tokens - cost ELSE Refilled(b, now, cost).tokens

\* Mutant: the tokens that are left are not counted, nor the one that is missing.
ResetCostShort(remaining, cost) == cost - 1

\* resetCost of a request that was admitted, and of the first one.
ResetCost(remaining, cost) == IF remaining < cost THEN cost - remaining ELSE cost

ResetOf(b, now, cost) ==
    LET remaining == Remaining(b, now, cost)
        a == After(b, now, cost)
    IN  a.lastRefill
        + (IF remaining >= 0 THEN ResetCost(remaining, cost) ELSE cost - b.tokens) * FillInterval

\* Would the script admit a request of this cost now?
Admits(b, now, cost) == Remaining(b, now, cost) >= 0

-----------------------------------------------------------------------------
(* The limiter.                                                             *)

\* Mutant: the key of the ephemeral cache does not include the cost.
IdentifierOnly(cost) == CHOOSE k \in Costs : TRUE

\* localCacheIdentifier: the cost is part of the key.
LocalCacheIdentifier(cost) == cost

\* isBlocked of the ephemeral cache: refused without asking Redis, up to and with the
\* millisecond of the reset.
IsBlocked(s, cost) ==
    LET until == blocked[s][LocalCacheIdentifier(cost)] IN until # 0 /\ until >= clock

\* A request that the ephemeral cache does not refuse takes the time and calls Redis.
\* (One that it refuses changes nothing.)
Start(c, cost) ==
    /\ calls[c] = NoCall
    /\ ~IsBlocked(ServerOf[c], cost)
    /\ blocked' = [blocked EXCEPT ![ServerOf[c]][LocalCacheIdentifier(cost)] = 0]
    /\ calls' = [calls EXCEPT ![c] = [NoCall EXCEPT !.pc = "eval", !.cost = cost, !.now = clock]]
    /\ UNCHANGED <<clock, bucket, since, spent>>

Answered(c, remaining, reset) ==
    /\ calls' = [calls EXCEPT ![c] = [pc |-> "reply", cost |-> calls[c].cost, now |-> 0,
                                      success |-> remaining >= 0, reset |-> reset]]
    /\ spent' = IF remaining >= 0 THEN spent + calls[c].cost ELSE spent

\* The script runs: there is no bucket.
EvaluateNew(c) ==
    LET cost == calls[c].cost
        now == calls[c].now
        remaining == MaxTokens - cost
    IN  /\ calls[c].pc = "eval"
        /\ bucket = {}
        /\ bucket' = {Created(now, cost)}
        /\ Answered(c, remaining, now + ResetCost(remaining, cost) * FillInterval)
        /\ since' = IF spent = 0 THEN now ELSE since
        /\ UNCHANGED <<clock, blocked>>

\* The script runs: there is one.
Evaluate(c) ==
    LET cost == calls[c].cost
        now == calls[c].now
    IN  /\ calls[c].pc = "eval"
        /\ \E b \in bucket :
              /\ bucket' = {After(b, now, cost)}
              /\ Answered(c, Remaining(b, now, cost), ResetOf(b, now, cost))
        /\ UNCHANGED <<clock, blocked, since>>

\* The server reads the answer of the script, and remembers a refusal.
Reply(c) ==
    LET s == ServerOf[c]
        key == LocalCacheIdentifier(calls[c].cost)
    IN  /\ calls[c].pc = "reply"
        /\ blocked' = IF calls[c].success
                      THEN blocked ELSE [blocked EXCEPT ![s][key] = calls[c].reset]
        /\ calls' = [calls EXCEPT ![c] = NoCall]
        /\ UNCHANGED <<clock, bucket, since, spent>>

\* Redis cannot be reached, before or after the script has run: the request is answered
\* with 503.
Fail(c) ==
    /\ calls[c] # NoCall
    /\ calls' = [calls EXCEPT ![c] = NoCall]
    /\ UNCHANGED <<clock, bucket, blocked, since, spent>>

\* A server that restarts has an empty ephemeral cache and no requests.
Restart(s) ==
    /\ blocked' = [blocked EXCEPT ![s] = [k \in Costs |-> 0]]
    /\ calls' = [c \in Calls |-> IF ServerOf[c] = s THEN NoCall ELSE calls[c]]
    /\ UNCHANGED <<clock, bucket, since, spent>>

\* Time passes, and Redis removes a bucket whose time is over.
Tick ==
    /\ clock < MaxTime
    /\ \A c \in Calls : calls[c].pc = "eval" => clock - calls[c].now < MaxLatency
    /\ clock' = clock + 1
    /\ bucket' = {b \in bucket : clock + 1 < b.expires}
    /\ UNCHANGED <<blocked, calls, since, spent>>

Next ==
    \/ \E c \in Calls, cost \in Costs : Start(c, cost)
    \/ \E c \in Calls : EvaluateNew(c) \/ Evaluate(c) \/ Reply(c) \/ Fail(c)
    \/ \E s \in Servers : Restart(s)
    \/ Tick

Spec == Init /\ [][Next]_vars

-----------------------------------------------------------------------------
Bucket == [lastRefill : Int, tokens : {t \in Int : t <= MaxTokens}, expires : Int]

Call == [pc : {"idle", "eval", "reply"}, cost : Nat, now : Nat, success : BOOLEAN, reset : Int]

\* Every variable has its type, and the bucket never holds more than its capacity.
TypeOK ==
    /\ clock \in Nat
    /\ bucket \subseteq Bucket
    /\ \A b1, b2 \in bucket : b1 = b2
    /\ blocked \in [Servers -> [Costs -> Int]]
    /\ calls \in [Calls -> Call]
    /\ since \in Nat
    /\ spent \in Nat

\* From the creation of the first bucket the limiter admits no more than the capacity of
\* the bucket and what is refilled at the rate, however the requests of the servers are
\* ordered and delayed on their way to Redis, and although a bucket that expires is
\* replaced by a full one.
RateIsBounded == spent * FillInterval <= MaxTokens * FillInterval + (clock - since)

\* What a server refuses by itself Redis would refuse too (the comment "Cost needs to be
\* included in local cache identifier to ensure lower cost requests are not blocked"),
\* whatever other requests do meanwhile, but for one millisecond: at the reset itself the
\* cache still refuses what Redis admits again.
LocalRefusalIsJust ==
    \A s \in Servers, cost \in Costs :
       IsBlocked(s, cost) =>
          \/ clock = blocked[s][LocalCacheIdentifier(cost)]
          \/ \E b \in bucket : ~Admits(b, clock, cost)

\* The reset of an answer is a "timestamp when next request of {cost} token(s) can be
\* accepted" (comment of the script): a request of the same cost that comes then, with no
\* other one in between, is admitted.
ResetIsHonoured ==
    [][\A c \in Calls : calls[c].pc = "eval" /\ calls'[c].pc = "reply" =>
          LET at == IF calls'[c].reset > clock THEN calls'[c].reset ELSE clock
          IN  \A b \in bucket' : at < b.expires => Admits(b, at, calls[c].cost)]_vars
=============================================================================
