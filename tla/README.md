# Formal model of the Novu workflow engine

Novu delivers notifications: a client *triggers* a workflow for subscribers, and the
workflow runs as a chain of steps (digest, delay, e-mail, in-app, SMS, push, chat) in
worker processes that share MongoDB, Redis and BullMQ queues. This directory holds TLA+
models of the parts whose correctness depends on the order in which processes act, TLC
configurations that check them on small instances, and TLAPS proofs for all instances.

Contents: 1 the system, 2 the modules and the code, 3 the abstractions, 4 the runs and
their bounds, 5 fairness, 6 what is proved, 7 disagreements between code and comments,
8 what is not modelled, 9 what a next step would be.

Run from this directory: `tlc -config digest.cfg MCJobEngine` (or any other cfg, with the
MC module of its family, section 4), and `tlapm M.tla` for each of the modules whose name
ends in `_proofs`.

## 1. The system

### Path of a notification

    API  POST /events/trigger      ParseEventRequest -> "workflow" queue
    worker  TriggerEvent           (+ multicast, broadcast) -> "process-subscriber" queue
    worker  SubscriberJobBound     CreateNotificationJobs, StoreSubscriberJobs
            AddJob (first job) ----------------------------+
    worker  StandardWorker: RunJob -> SendMessage          |-> "standard" queue
            QueueNextJob -> AddJob (next job) -------------+
    API  DELETE /events/trigger/:transactionId   CancelDelayed

Everything after `StoreSubscriberJobs` is one component in the sense that matters here:
the jobs collection is shared by all worker processes and by the API, and a job is
changed by whoever gets to it.

### Components

| component | state | operations | hard behaviour | correct when |
|---|---|---|---|---|
| Job store (`libs/dal` JobRepository) | `status`, `_mergedDigestId`, `digest.events`, `_parentId` of every job | storeJobs, updateStatus, shouldDelayDigestJobOrMerge, getTrigger, updateAllChildJobStatus | read and write are separate queries | one open digest per group, merges one level deep |
| AddJob, MergeOrCreateDigest (`apps/worker`) | lock of the digest group in Redis | schedule a job: queue, delay, open a digest, merge, skip | concurrent triggers; expiry of the lock; crash between the write and the enqueue | every event is in at most one message, and lost only by a merge that comes too late |
| RunJob, StandardWorker (`apps/worker`) | BullMQ deliveries and attempts | receive, run, complete, queue the next job, retry, last failure | retries, at-least-once delivery, cancelled deliveries, errors in `finally` | chain ends; nothing after a stop; nothing sent twice |
| CancelDelayed (`apps/api`) | none of its own | cancel a transaction, hand the followers of a digest over | runs against the workers, several writes without a transaction | cancelled in time means never sent; followers get a new digest |
| Rate limiting (`apps/api`) | token bucket in Redis, ephemeral cache per server | evaluate a request | late requests, several servers, expiry | rate bounded; refusals justified; reset true |
| Idempotency interceptor (`apps/api`) | entry per key in Redis, TTL 5 min / 24 h | mark in progress, store the answer, replay | handler slower than the mark, failed write of the answer, error answers nobody awaits | one execution per mark; true replays; nobody stuck |
| Trigger pipeline (`apps/api`, `apps/worker`, `application-generic`) | workflow and subscriber queue, stored jobs of a transaction | accept, validate the transaction, fan out by name, topic or broadcast, store per subscriber | check-then-act on the transaction; partial fan-out; redelivery of a stalled job | everybody addressed is reached, once per delivery, nobody else |
| Process subscriber, entity cache (`application-generic`) | subscriber document, its cache entry, a secondary | get or create, update, remove, bulk create, read through the cache | two creators; updates from stale copies; invalidation before the write | no details lost or ignored; the cache ends up true |
| Integrations (`apps/api`, `libs/dal`) | `primary`, `priority`, `active`, `conditions` of the integrations of a channel | create, update, set as primary, remove, recalculate priorities | every request is several updates; requests overlap | one primary, different priorities, no primary lost |
| Presence (`apps/ws`) | `isOnline`, `lastOnlineAt`, sockets per server | connect, disconnect | connect racing the count of a disconnect | not modelled (section 8) |
| Query cache (`application-generic`) | Redis entries, sets of queries | read-through, invalidate sets of keys | fill racing an invalidation | not modelled (section 8) |
| Distributed lock service | redlock, counters | acquire, release, shutdown | lock lost, shutdown with locks held | mutual exclusion while it lives |
| Readiness | paused workers | poll queues, start workers | queue never ready | not modelled (section 8) |

The other parts (providers, templates, filters, CRUD of the configuration, auth, dashboard,
client packages) have no protocol between processes; they are listed in `PROJECT.json` with
the reason they are left out.

### What is hard to test

`PROJECT.json` lists the hazards at their lines. In short: two triggers that reach the
digest step together; the 1500 ms lock that is never extended; MERGED that is written after
the lock is gone; the back-off decision that depends on which trigger step completes first;
a cancel call between any two queries of a worker; a digest that runs under the delivery of
a cancelled one; a webhook filter that fails at the last attempt; a process that dies
between a write and an enqueue; an enqueue that nobody awaits; requests that reach the
rate limiter later than the time they carry; a repeated request while the first one runs, dies
or cannot store its answer; a workflow job that is delivered again and meets its own jobs; a
cache entry that was filled while its subscriber changed; two choices of a primary integration
that overlap.

## 2. Modules

    JobStore       jobs, queue, locks, control state; constants and their assumptions
     |- AddJob         AddJob, AddDelayJob, MergeOrCreateDigest, StoreSubscriberJobs
     |- RunJob         StandardWorker, RunJob, SendMessage, Digest, QueueNextJob, HandleLastFailedJob
     |- CancelDelayed  CancelDelayed
    JobEngine      EXTENDS the three: Next, fairness, properties
     |- DigestRefinement    JobEngine implements DigestWindow
         |- MCJobEngine     instances for TLC
     |- JobEngine_proofs    types, one open digest, the oldest goes at once, cancelled stays silent
         |- Chain_proofs        one token, every event once, flat merges, complete batches, stops
             |- DigestRefinement_proofs   the refinement (with DigestRefinement)
    DigestWindow   what a digest promises (abstract)

    TriggerEvent           accept, validate the transaction, fan out
     |- SubscriberJobBound     the job of one subscriber
         |- TriggerPipeline        both queues together: Next, fairness, properties
             |- MCTriggerPipeline, TriggerPipeline_proofs
    ProcessSubscriber      one subscriber, its cache entry and its secondary
     |- MCProcessSubscriber, ProcessSubscriber_proofs
    Idempotency            the interceptor
     |- MCIdempotency, Idempotency_proofs
    Integrations           primary integration and priorities
     |- MCIntegrations, Integrations_proofs
    TokenBucket            rate limiter
     |- MCTokenBucket, TokenBucket_proofs

### The engine

A job is `<<n, s>>`, step `s` of notification `n`; its child is `<<n, s+1>>`. A notification
is a (transaction, subscriber) pair, with its transaction, its creation time and its digest
group (environment, template, subscriber, digest value).

| variable | code |
|---|---|
| `status`, `mergedInto`, `events` | `JobEntity.status`, `_mergedDigestId`, `digest.events` (as the set of notifications whose payload it holds) |
| `waiting[j][a]` | BullMQ deliveries of job `j` that wait, after `a` starts |
| `lock[g]` | the redlock key of the group, with its holder |
| `wk[w]` | a slot of a worker process: program counter and the local variables that live across an `await` (job of the delivery, job that is run, job that is added, error, digest found, events read) |
| `cc[x]` | the same for the cancel call of transaction `x` |
| `delivered`, `silenced`, `missed`, `faults` | history: messages per step and event; notifications cancelled in time; digest jobs whose MERGED was still to be written when their digest read its events, or when the cancel call of their digest ended; faults so far |

An action is what the code does between two awaits that others can observe. `AddJob` is
used by three callers (`phase` of a slot): `StoreSubscriberJobs`, `RunJob` through
`QueueNextJob` in its `finally`, and `HandleLastFailedJob`; what an error means depends on
the caller (`Return`). The actions of a slot, by program counter:

    idle     StoreJobs | Receive
    add      AddPlain | AddDelay | AddDelayMisconfigured | AddThrows | DigestFiltered
             | DecideSkip | DecideCreate | DecideMerge
    claim    Claim           merge  MergeWrite        skip  Skip        enqueue  Enqueue | EnqueueLost
    follow   FindFollower | NoFollower                mark  MarkRunning
    send     SendNothing | Deliver | ReadBatch | FilterOut | SendThrows | DeliverThrows
    digest   WriteBatch      complete  MarkCompleted  next  QueueNext
    reject   Reject          failed    HandleFailed   any   Crash

`CancelDelayed` goes off, pending, write, find, promote, children, repoint, done. Outside the
slots: `LockExpires`, `DeadLockExpires`.

`DigestWindow` is the digest as its user sees it: an event opens a digest (`Open`), joins the
open one of its group (`Join`, and arrives later, `Settle`), or (back-off) goes alone; a digest
closes, collects its events (`Collect`) and leaves with them in one message (`Send`). An event
that has joined and not arrived when its digest is collected is `missed`, and is never sent: the
window promises no more than the code can keep. `DigestRefinement` maps the engine to it. An
event belongs to a digest from the moment its slot has found it under the lock and arrives with
the write of MERGED to its digest job; the same write to the jobs behind it is a stutter. A
digest opens with the write of DELAYED, closes with the write of RUNNING, is collected when the
Digest step reads its events, and is sent by the last step of its notification; everything else
stutters.

`TokenBucket` has the Lua script as one action (`EvaluateNew` without a bucket, `Evaluate`
with one), preceded by `Start` (look at the ephemeral cache, take `Date.now()`) and followed
by `Reply` (read the answer, `blockUntil`), which interleave with those of other requests and
servers. `Tick` advances the clock and expires the bucket.

### In front of the engine

`TriggerPipeline` begins with the API (`Accept`, or `AcceptLost` as nobody awaits the enqueue)
and ends where the engine begins, with the stored jobs of a subscriber. `trig[t]` is what the
worker of a workflow job is doing, `sq` the subscriber queue with its deliveries, `stored` the
notifications. A workflow job goes through `Reject` or `Admit` (the check of the transaction
id), `ProcessActor`, then `SendSingles` and `ResolveTopics` or `TopicMissing` for a multicast,
`OpenCursor` for a broadcast, `SendBatch` until nothing is left, `Finish`. A subscriber job is
`StoreNotification`, then `Acknowledge`. `Throw`, `GiveUp`, `CrashTrigger` and
`CrashSubscriberJob` are the ways in which it fails: BullMQ tries such a job once, and delivers
it again only if its worker died. A subscriber or an actor whose creation is rejected is such an
error (`GiveUp`, `Throw`).

`ProcessSubscriber` is what `StoreNotification` and `ProcessActor` call, in detail and for one
subscriber: `proc[p]` walks from `Begin` through `Lookup` (cache), `Read` (primary or
secondary) and `Fill` to `Invalidate` and one of `Insert`, `InsertDuplicate`, `Update`,
`Remove`. `stage` says which use case is looking the subscriber up (`process`, `create`,
`update`, `remove` or `get`). `InsertDuplicate` ends the call with the stage `rejected`: the error goes
up (section 7). `BulkUpsert` is one action and does not touch the cache. `Expire` and `Replicate` are the cache and the secondary.

`Idempotency` has the entry of every key in `cache`. `First` is `SET NX` and the call of the
handler; `Duplicate` then `Replay` or `Unavailable` is everybody else; `HandlerReturns` and
`StoreAnswer`, or `HandlerThrows` and, later and by nobody awaited, `StoreError`, are the end of
the handler. `MarkFails`, `Crash` and `Expire` are its environment.

### Configuration

`Integrations` has a request as a record of its own in `req`: kind, program counter, the
integration it found, the environment it works in, the `$set` it has put together so far, and
the updates of priorities that are still to be written. `CreateIntegration`,
`UpdateIntegration`, `SetIntegrationAsPrimary` and `RemoveIntegration` begin a request;
`CalculatePriority`, `FindActive`, `WritePriority`, `Recalculated`, `UnsetPrimary`, `Write` and
`Delete` are its queries. That the recalculation after a removed primary flag is given the id
of the organization in the place of that of the environment is in the model as it is in the
code.

## 3. Abstractions

* Delays and digest windows are not timed: a delivery may come at any time. A property that
  holds here holds for every length of the window. All triggers are within one back-off window.
* The queries under the lock of a group are one action with its acquisition (`Decide*`);
  the write of DELAYED and the release are another (`Claim`), so a slot can be overtaken,
  crash, or lose the lock in the critical section. A slot that finds a digest or skips releases
  the lock in the same action, and writes MERGED or SKIPPED afterwards, as the code does.
* The two parts of `processMergedDigest` (the job, and its descendants in order) run under
  `Promise.all`: `MergeWrite` interleaves them.
* A worker reads a job with its events when it receives it (`batch`) and writes statuses
  blindly, as `updateStatus` does.
* `getEvents` with the merged-digest-id feature flag on; the backward-compatible query is left
  out. The events are the set of notifications, not the order of payloads.
* `getJobsToUpdate` and the update are one action; `setFailed` and `setError` are one write.
* The Digest step waits for nobody: it may read its events while a merge into it is being written
  (`ReadBatch`). The history variable `missed` remembers the digest jobs this happens to, so that
  the properties can say that no event is lost in any other way.
* `StoreJobs` of two notifications may come in either order, whatever their creation times are:
  `createdAt` is taken before the awaited insert.
* A step of `InAppSteps` is an in-app message, which gets `digest.events` even if it is COMPLETED
  (`getJobsToUpdate`).
* A cancel call is made at most once per transaction. Database errors, failure to acquire the
  lock after the retries of redlock, and the mode without Redis are left out; so is BullMQ's
  limit on stalled deliveries.
* Faults: `crash` (a slot dies anywhere; its delivery is found stalled and delivered again;
  its lock stays until it expires), `lock_expiry` (of a live holder), `lost_enqueue`
  (`BullMqService.add` does not await the queue), at most `MaxFaults` of them.
* A crash after `StoreJobs` and before its first AddJob is followed by nothing: the
  redelivery of the subscriber job creates a new notification and is outside the model.
* TriggerPipeline: topics and their members do not change while a trigger is resolved; a batch
  is any `BatchSize` subscribers still to be read (the order of a cursor is not promised); the
  transaction of a trigger is given; tenants, payload validation and attachments are one
  outcome of `Accept`. Processing a subscriber is one action here, and all of ProcessSubscriber
  there. A notification document without jobs, left by a death between two writes, is left out.
* ProcessSubscriber: one subscriber with two fields, which `subscriberNeedUpdate` treats
  differently (an e-mail that is not given is a difference, any other field is not). Channel
  credentials, and the topics of a removed subscriber, are left out. A read may come from the
  primary or from a lagging secondary at any time. Two creations of the cache entry by two
  readers are two `Fill`s in any order.
* Idempotency: a body is its hash, an answer the number of the execution behind it. The
  requests are those the interceptor guards; a client repeats a request until it has a final
  answer. Time is the choice of when an entry expires, so a handler may always outlive its mark.
* Integrations: one channel that supports a primary integration, in one organization.
  Credentials and identifiers, which refuse a request before it writes, are left out, as are
  the limits of the built-in providers. Conditions are there or not.
* TokenBucket: one bucket, clocks agree, the fill interval is a whole number of milliseconds
  (a quotient in the code, whose answer Redis truncates), a request reaches the script within
  `MaxLatency` (the code has no such limit).

## 4. Runs

All runs of JobEngine have two worker slots, the smallest number that interleaves; the runs
with `TypeOK`, the proofs and the mutants of `PROJECT.json` guard against a vacuous model.
Deadlock is not checked: the system stops when all jobs are over (and the clock of
TokenBucket is bounded by `MaxTime`).

| run (MC module) | instance | shows |
|---|---|---|
| `digest` (MCJobEngine) | 3 triggers, TRIGGER-digest-channel | one open digest; an event in at most one message; every event gets out, unless its digest missed it; refinement of DigestWindow |
| `digest_backoff` (MCJobEngine) | 3 triggers, back-off digest, one fault of the three kinds at any point | the oldest notification never waits; a digest holds all that was merged into it but what it missed; the lock of a dead holder goes. (`OneOpenDigest` is false with an expired lock, and `EventOncePerStep` with a crash: delivery is at least once, so they are not claimed here.) |
| `cancel` (MCJobEngine) | 3 triggers in transactions of their own, one cancelled, the filter of the digest may say no | merges stay one level deep; a notification cancelled in time is silent; the followers are handed over, but for a merge in flight when the call ends |
| `failures` (MCJobEngine) | 2 triggers, channel-channel-delay-channel, 3 attempts for the first step, stop-on-fail second step, a delay that may be misconfigured, one trigger cancelled | stop is respected; no second send; chains end |
| `trigger` (MCTriggerPipeline) | 2 triggers, each a multicast to a name and two overlapping topics, a multicast with a missing topic, or a broadcast; 3 subscribers, batches of 2, one fault | nobody is notified twice by one delivery or by mistake; a rejection has a cause; everybody is reached |
| `subscribers` (MCProcessSubscriber) | 2 calls of six kinds, a subscriber that exists or not, a reader that refills the cache at any time, one failure of the cache | details are kept and used; whoever begins with the subscriber in sight gets it; the cache becomes true again |
| `idempotency` (MCIdempotency) | a request, its repetition, one with another body under the same key; one expiry, 2 faults | one execution per mark; answers are true and agree; a 422 is just; everybody gets a final answer |
| `integrations` (MCIntegrations) | 3 integrations in 2 environments, in order or left in disorder, 2 requests of any kind | sequential requests keep order; a choice alone restores it; overlapping choices and creations lose no primary |
| `token_bucket` (MCTokenBucket) | 2 servers, costs 1 and 2, 2 tokens, 10 ms | the rate, refusals that Redis would repeat (but for the millisecond of the reset), true resets |
| `self_duplicate` (MCTriggerPipeline), `creation_race` (MCProcessSubscriber), `late_merge` (MCJobEngine) | smallest instance of each | violations, section 7 |

Three notifications are what it takes for a digest to have two followers, so that one can
be promoted and another re-pointed; two digests of a group need two notifications, a
second window needs three. Three steps give every job of interest a parent and a child;
four let a failure be followed by a delay that fails as well. `DefaultAttempts` is 3 as in
the code: the difference between the first, a middle and the last attempt is visible.
One fault of any kind at any point, with three triggers, lets a lock expire or its holder die while
two others wait for it. Ten ms with windows of four
let a bucket of two tokens drain, refill, expire and be created again with a late request.
Three subscribers and batches of two give every trigger a full batch, a rest, a member of two
topics, one that is named as well, and an actor among the members; one fault at any point is
either a death, an error or a lost enqueue, and two of them would only repeat it. Two calls
interleave every pair of use cases, and the reader supplies any number of stale fills. Three
requests of one key are one that runs, one that repeats it and one that disagrees; with one
expiry and two faults a mark can be lost, run again, and lose an answer as well. Two requests on
integrations are every pair of requests, sequential or overlapping; the store in disorder stands
for longer histories, as a third request would make the instance too large.

`EverybodyIsReached` is about triggers whose workflow job was not interrupted: a workflow job is
tried once, and section 7 says what a redelivery does; an error of `addBulk` is such an interruption,
and only a broadcast has both a full batch and a rest here. `NobodyIsLostInSight` has the premise
(`InSight`) that when the call began the secondary showed the subscriber, the cache did not deny it
and nobody was about to fill in that there is none; what it shows is that no other call, no failure
of the cache and no stale fill brings such an entry into being from then on. Without the premise the
code does turn the call down (section 7). `CallerGetsHisDetails` speaks of calls that are not
rejected. `LocalRefusalIsJust` leaves out the one millisecond at which the reset comes: `isBlocked`
of the limiter's library refuses up to and with it, while the bucket admits again. `PrimaryIsNotLost` leaves out
environments with a removal, a move, new conditions or an update that gives `active`, all of
which may give the primary integration up.

`CancelledStaysSilent` speaks of notifications that were cancelled *in time* (`InTime`):
when CANCELED is written, no slot works on the notification, no digest has collected it and
none of its jobs waits in the queue except those being cancelled. Without this premise it is
false, since a step that was started is not stopped.

`FollowersAreHandedOver` is judged at the end of the call and ever after, for transactions with one
notification and one cancel call at a time; a merge into the cancelled digest that is being written
when the call ends is left behind (section 7).

`BatchComplete` excepts the events in `missed`, and `EveryEventSent` their notifications: nothing
in the code prevents such a loss, and `late_merge` shows it. That both hold with the exception,
with any interleaving of merges and reads, says that a merge in flight is the only way to lose an
event there.

`OneOpenDigest` and `BatchComplete` are stated without cancel calls: a promotion races a
new claim, and a promoted follower may run, under the delivery of the cancelled digest,
before the other followers point to it. `EveryEventSent` is stated without faults (a lost
enqueue loses the chain) and without filters (a digest filtered at the end of its window
drops the events merged into it, by the code's own decision).

## 5. Fairness

Weak fairness for each worker slot as a whole (the BullMQ worker takes what waits, and an
async function goes on after an await), for a cancel call that was accepted, and for the
expiry of a dead holder's lock (its TTL). Nothing forces a cancel call, a fault, or one
outcome of a choice: a filter may always say no, a webhook may fail at each attempt.
TriggerPipeline: every worker goes on with its trigger, and the subscriber queue is served;
not every job in it has to be the next one, because the jobs are finitely many. The API need not
be called, and no fault has to happen.

ProcessSubscriber: servers go on with what they began, entries expire (every entry has a TTL,
`CacheService.set`) and the secondary catches up. Nothing makes the cache fail or succeed.

Idempotency: a server goes on; a client that was told to wait (`Retry-After`) or was told
nothing asks again; an error answer under way arrives or fails; a mark that nobody will replace
expires. That the handler ends is an assumption about the handler.

TokenBucket and Integrations have only safety properties and no fairness.

## 6. Proofs

* `JobEngine_proofs!TypeCorrect`: `Spec => []TypeOK` for all constants that satisfy the
  assumptions of JobStore. `TypeOK` alone is not inductive: that `status` stays a function
  on jobs, or that a delivery is pushed for a job, needs `SlotOK` and `CallOK` - in which
  control states the local variables hold a job. One lemma per component, one step per action.
* `JobEngine_proofs!OpenDigestIsUnique`: `Spec => []OneOpenDigest`, assuming no cancel calls
  and no expiry of a live holder's lock; crashes and lost enqueues are allowed. Inductive
  invariant `DigestInv`: types, uniqueness, and that a slot between the read and the write
  of the critical section (pc `claim`) holds the lock of its group *and what it read is still
  true* (no open digest). All actions but `DecideCreate`, `Claim` and `DeadLockExpires` are
  shown to be `Quiet`: they take or release no lock and make no digest DELAYED, so the set of
  open digests only shrinks.
* `JobEngine_proofs!OldestIsNotDigested`: `Spec => []OldestGoesAtOnce`, for back-off digests and
  groups in which no two notifications have the same creation time; any workflow, any faults, any
  cancel calls. Inductive invariant `BackoffInv`: a slot that is about to write DELAYED or MERGED
  (pc `claim`, `merge`) works on a notification with an older one in its group. That is the part
  the lock does not protect: MERGED is written long after the decision, but what was decided does
  not become false. A cancel call only makes DELAYED what was MERGED.
* `JobEngine_proofs!CancelledAreNotHeard`: `Spec => CancelledStaysSilent`, for any cancel calls,
  also several in one group, under every fault, and with channel steps and delays that fail and
  are retried. Inductive invariant `SilenceInv`: of a silenced notification nothing is in a
  batch or in `events`, no job is DELAYED or MERGED, so no digest can collect it any more, and its
  only deliveries are of cancelled digests and delays (`JobIsSilent`). What has to be followed is the
  slot that takes such a delivery: it runs another digest under the cancelled job
  (`SlotIsSilent`), and must not come back to that job by its own failure. Assumptions: a digest step
  throws nothing, and neither a digest nor a delay comes after one. TLC finds the counterexamples: a
  webhook filter on the digest, and the promotion of section 7 that revives a cancelled
  delay. With a digest whose errors are ordinary ones TLC finds none; there the job becomes FAILED
  and is silent only if no second delivery of it waits, which `SilenceInv` does not say.
* `Chain_proofs!OneTokenEach`, the ledger of a notification, on which everything else about the
  chain rests: at most one slot works on the chain of a notification, or at most one delivery of
  it waits. `ChainInv` says besides what the slot remembers of its delivery (`SlotChain`: which
  job it runs, which it adds, with which error) and that jobs ahead of the token are untouched.
  Assumptions (`Calm`): no transaction with a digest is cancelled (the delivery of a cancelled
  digest is handed to another notification), a step whose webhook filter is retried fails in no
  other way, and crashes come alone, without failing steps and filtered digests. Each is needed:
  the end of this section says what happens without it.
* `Chain_proofs!EventsGoOnce` (`EventOncePerStep`) and `MergesAreFlat` (`FlatMerge`) from
  `OnceInv`. The token has a position on a scale on which step `s` is scheduled at `2s - 1` and run
  at `2s` (`Pos`); a message of step `s` can only leave when the token passes `2s`, and it passes
  once. An event is owned by the notification it belongs to until that merges, and then by the
  one it was merged into (`EventsOwned`, `BatchOwned`), which is not merged itself, so two
  messages of a step never have an owner in common. Assumptions (`NoRepeats`): `Calm`, no crash, at
  most one digest step, and no digest or delay that may fail right behind a step that is retried.
  The run `digest` is such an instance, and so is `failures` but for its transaction without a digest
  that is cancelled, which `Calm` allows; `FlatMerge` is checked beyond its theorem, with a digest
  that is cancelled (`cancel`).
* `Chain_proofs!BatchesAreComplete` (`BatchComplete`) from `BatchInv`: once the events are read no
  new merge into the digest begins, since a merge is decided under DELAYED and the digest is RUNNING by
  then, and those already decided are all in `missed` (`AllMissed`), whenever they are
  written. Assumptions: `Calm`, and no filter on a digest step. Other than for `EventsGoOnce`,
  crashes are allowed.
* `Chain_proofs!StopsAreRespected` (`StopIsRespected`) from `StopInv`: a slot that is about to write
  FAILED on a step with shouldStopOnFail has the last token of its chain, and statuses are written by
  the holder of the token only (`StatusWrites`). Assumptions: those of `NoRepeats` but for the number
  of digests, and that no digest step stands between the step and a delay or digest that may fail
  (`StopsAreClean`).
* `DigestRefinement_proofs!DigestWindowIsImplemented` (`ImplementsDigestWindow`), for the workflow
  trigger, digest, message (`WindowFlow`), with filters, failures and webhook retries on trigger and
  message, lost enqueues, plain and back-off digests, any number of triggers, groups and slots.
  `Claim` is `Open`, `DecideMerge` is `Join`, `MergeWrite` of the digest job is `Settle`, `Skip` is
  `Alone`, `MarkRunning` of a digest is `Close`, `ReadBatch` is `Collect`, `Deliver` and
  `DeliverThrows` of the message are `Send`; all other actions are stutters. The invariant
  `WindowInv` joins `OnceInv`, `StopInv`, `BatchInv` and `DigestInv` and adds where every
  notification stands (`Placed`): what its three statuses, its slot and its place in a digest may be
  together. `Full` is what a batch has from the read to the message: every event of the digest but
  exactly those that were missed. It is kept because only a digest that has been read misses anything
  (`MissedByReader`, `HasRead`) and a job that is on its way is not yet MERGED (`JoinsUnwritten`), so a merge
  that is written late adds a follower that is missed already. `Join` is where the parts meet: the
  lock says that the digest found is still open, the batch that it has all who arrived when it
  was collected, and the ledger that it is sent once.
* `TriggerPipeline_proofs`: types; `SentToTheAddressed` (`OnlyTheAddressed`) and
  `StoredOncePerDelivery` (`OncePerDelivery`) from one invariant `DueInv`: every job in the queue or stored is
  addressed to its subscriber *and came by the one way in which it could*
  (`SourceFor`: broadcast, name, topic), which makes two jobs of one delivery equal; it needs to
  know what a worker may still send where it stands (`WorkerIsRight`). `TurnedDownForCause`
  (`RejectionHasCause`) from `WaitingHasNone`: a trigger that was never interrupted has no job
  of its own while it waits.
* `ProcessSubscriber_proofs`: types; `DetailsArrive` (`CallerGetsHisDetails`); `DetailsStay`
  (`DetailsAreKept`) from `NoCopyAhead`: no copy of the subscriber, in the cache, on the
  secondary or in the hands of a call, has the value of a field that only one call gives unless the document
  has it too. A copy may be old; it is never ahead. So nobody takes a detail for stored that
  is not, and skips the update. `SightedCallsFind` (`NobodyIsLostInSight`) from `FoundInv`: as long as
  nobody removes the subscriber, once a call began with it in sight it stays in sight (`Seen`), since whoever
  reads finds it and so fills it in; therefore no such call comes to the creation, where it
  would be rejected (`Finds`).
* `Idempotency_proofs`: types; `RunsOncePerMark` (`OncePerMark`) from `Credit`, which counts the
  free key as well; `AnswersAreTrue` and `RefusalsAreJust` from `TrueInv`: whatever is stored, on its
  way or given is the answer of an execution that ended; `OneAnswer` (`AnswersAgree`) in addition from
  `RunInv`: executions have numbers of their own and end once.
* `Integrations_proofs`: types, with what every `$set` may hold; `PrimariesStay` (`PrimaryIsNotLost`)
  from `HeldInv`: what a request under way may still do to an environment has been noted in `dropped`
  (`Noted`), and between the two updates of a choice the environment has a primary integration
  or a choice that is about to write one (`Held`). `LoneChoicesRepair` (`LoneChoiceRepairs`) from
  `LoneInv`: of every active integration the new priority is written or still to be written
  (`Turn`), so when nothing is left the ranks are the priorities. `TidyStaysOrdered`
  (`TidyIsOrdered`) from `TidyInv`, which says how far a request has come that nothing
  interferes with (`Midway`): one that comes (`Joins`) keeps the environment in order and has a
  place below the primary one by the time it is written; one that goes (`Leaves`) is
  ranked with the others first and written last; in between nobody else becomes primary
  (`Sound`). No assumption but that there are finitely many integrations.
* `TokenBucket_proofs!TypeCorrect`: types and `tokens <= MaxTokens`.
* `TokenBucket_proofs!RateBounded`: `Spec => []RateIsBounded`, assuming `Sized`: every cost
  fits into the bucket and the time to live exceeds the time to fill up by at least the latency
  (2 windows against 1.1 windows with the default burst allowance). Inductive invariant
  `RateInv`: spent + left <= capacity + (last refill - creation) / fill interval while there
  is a bucket; and when it has expired, enough time has passed to pay for a full one.
* `TokenBucket_proofs!CacheRefusesJustly` (`LocalRefusalIsJust`) and `ResetsAreHonoured`
  (`ResetIsHonoured`), under `Sized`. Both are about `Due(b, k)`, the time at which a bucket
  would hold k tokens. Nothing the script does moves it back (`DueGrows`), a refusal tells it
  (`RefusalIsDue`), the bucket admits nothing before it (`DueIsNotAdmitted`) and does not expire
  before it (`DueBeforeExpiry`). For the cache this holds strictly before the reset: at the reset
  itself the bucket admits and the cache does not yet, which the property excepts. The invariant `JustInv` says it of what a server remembers and of
  the answers that are still on their way.

Proofs assume nothing but the assumptions named in the modules and those in the statements.

Assumptions that the proofs could not do without, since the code does otherwise:

* Two digest steps: each can be merged into the other's notification, and `FlatMerge` fails.
* Errors and retries of one step: after an error that is not its webhook's RunJob adds the next job
  in its `finally`; if the delivery then goes back to the queue (an attempt that is left, or a
  crash between the error and its booking), the chain has two tokens.
* A digest that its filter takes out at the end of its window, and a crash right behind: the
  redelivery finds it CANCELED and runs another open digest of the group in its place.
* A webhook step followed by a delay that cannot be computed: the error of the delay is thrown out of
  the `finally` of the step, whose message has left, and the retry sends it again.
* A crash between `Claim` and the enqueue: the redelivery of the parent finds its own child open
  and merges it into itself.
* A step with shouldStopOnFail, a digest that is skipped and a delay that fails: the step becomes FAILED
  and what follows it is SKIPPED, not pending.

Model-checked only: the liveness properties `EveryEventSent`, `LockIsReleased`, `ChainEnds`,
`EverybodySettles`, `EverybodyIsReached` and `CacheIsFreshAgain` (beyond the prover), and
`FollowersAreHandedOver`, which needs the ledger to follow a token that changes its
notification.

## 7. Where the code and its comments disagree

Three are runs:

| run | what the code does |
|---|---|
| `self_duplicate` | a workflow job whose worker dies half way is delivered again, meets the jobs of its own recipients and is turned down as a duplicate; the other recipients are never notified, and the message blames the caller |
| `creation_race` | `createSubscriber` compares the number 11000 of MongoDB with the string `'11000'` (`libs/dal`, error.enum.ts:2), so the branch that would fetch the subscriber the other call has created is dead (create-subscriber.usecase.ts:82) and the error is thrown on: the slower of two triggers for a new subscriber fails |
| `late_merge` | MERGED is written after the lock of the group is released (`processMergedDigest`) and the Digest step does not wait, so a job may become merged into a digest that has read its events and is over; its event is then in no message. A test of concurrent triggers expects the digest to be updated last (digest-events.e2e.ts:1003-1004) |

Others were met while modelling and are not runs. The first six were reproduced by TLC on
smaller instances of the same modules:

* Two concurrent back-off triggers are both skipped if the younger completes its trigger step
  first; the comment says only one of them is (`libs/dal`, job.repository.ts:197-198).
* The delivery of a cancelled digest runs any open digest of the group, also one that was opened
  later and never merged, which then runs again by its own delivery
  (`activeDigestMainFollowerExist`; run-job.usecase.ts:139-143).
* When a follower runs under a cancelled digest's delivery, its last failure is booked on the
  cancelled job, and the follower's chain stops (handle-last-failed-job.usecase.ts:23-24).
* A transaction with two subscribers has two main digests; only the first one found (`find`,
  cancel-delayed.usecase.ts:56) hands its followers over, and those of the other are left MERGED into a
  CANCELED digest. The runs cancel transactions with one notification.
* `updateAllChildJobStatus` sets every job after a promoted follower to PENDING, whatever its status
  (job.repository.ts:283-312). Between the promotion and this write the follower may have run, under the
  delivery of the cancelled digest, and a delay behind it may have been queued and
  cancelled by a second call: it is PENDING again, runs, and its message leaves.
* A request that costs more than the bucket holds (bulk requests at the FREE level, by default)
  is told a reset at which it is refused again. `Sized` excludes it from the theorems.
* The delayed refill of the bucket lets up to twice the burst limit through in one window (idle,
  drain, refill at once), while `burstLimit` is described as the maximum within a window.
* An error of the child's filter in the `finally` of a parent without a webhook filter stops the
  chain with neither a retry nor a FAILED status (run-job.usecase.ts:104).
* A digest step whose filter says no at the end of its window drops the events merged into it.
* A merge that is being written when its digest is cancelled leaves a job MERGED into the CANCELED
  digest. The comment of the case without a follower, 'meaning that only one trigger was send, and
  it was cancelled' (cancel-delayed.usecase.ts:80), is then untrue: another was sent and is lost.
* A removed subscriber can never come back by a trigger or a POST: its deleted document is invisible
  to queries and still in the unique index (subscriber.schema.ts:178-184), so every creation is a duplicate
  and fails. Only the bulk endpoint, which upserts, revives it.
* A `null` in the cache, or a secondary that lags, makes a call take an existing subscriber for a
  new one; its creation is a duplicate as well, and the call fails until the entry has expired or the
  secondary has caught up.
* The ephemeral cache of the rate limiter refuses one millisecond longer than the bucket: at the
  reset, which the script describes as the 'timestamp when next request of {cost} token(s) can be
  accepted' (evaluate-token-bucket-rate-limit.usecase.ts:92), the server still refuses.
* Two overlapping cancel calls of digests that follow one another can leave a follower without
  a main digest.
* update-integration.usecase.ts:210 gives the id of the organization as that of the
  environment, so the priorities are not recalculated when conditions take the primary flag away.
* update-integration.usecase.ts:187 writes back a primary flag it read before it looked for the
  priority: an activation that overlaps the choice of the same integration undoes the choice.
* An update that moves a primary integration to another environment (:159) checks nothing there:
  two primary integrations can meet.
* The parameter `exclude` of `recalculatePriorityForAllActive` is ignored (update-integration.usecase.ts:84).

## 8. Not modelled

Every component is listed in `PROJECT.json`, with the reason if it is left out:

* Content: templates, payloads, channels and providers. For the engine a channel step is a
  message that leaves, or an error. Pure decisions (filters, preferences) are nondeterministic
  choices; date arithmetic is the freedom of when a delivery comes.
* Presence and the web socket gateway: a count of sockets and a blind write of `isOnline`. What is
  counted, whether a socket that goes is still in its room, and how late it is known to the other
  servers, are decided by socket.io, which is not part of the repository; the code orders nothing, so
  that the last write wins is all a model could say.
* The query cache (`CachedQuery`, sets of keys): the entity cache is modelled with the subscriber;
  the sets of queries share its read-fill-invalidate pattern, but the atomicity of their set
  operations is that of the Redis provider in use.
* The distributed lock service beyond one group lock: retries of redlock, the mode without Redis,
  the shutdown, which polls counters of one process.
* Readiness: ten polls at the start of one process.
* The configuration other than integrations (workflows, topics, layouts, feeds, tenants, changes), auth,
  users and organizations: CRUD on single documents.
* Dashboard, widgets, client packages, deployment, migrations, tests, generated and vendored
  code: no state shared between processes. This is most of the repository by lines, which is why
  the models cover a small share of it.

## 9. What a next step would be

1. The ledger of a notification with cancelled digests, whose delivery runs for the notification
   that is promoted: `FollowersAreHandedOver` and `FlatMerge` under cancel calls would follow from it,
   and `CancelledStaysSilent` for digests with ordinary errors.
2. ProcessSubscriber in the place of the one action in SubscriberJobBound: a subscriber job that
   fails because the creation of its subscriber is rejected would then be an outcome and not a fault.
3. `CachedQuery` with its sets of keys.
