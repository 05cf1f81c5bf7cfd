----------------------- MODULE DigestRefinement_proofs -----------------------
(***************************************************************************)
(* The engine implements the digest window: what is known of a digest step *)
(* between its scheduling and the message that follows it, and the step of *)
(* the window that every step of the engine is.                            *)
(***************************************************************************)
EXTENDS DigestRefinement, Chain_proofs

\* The workflows considered: a trigger, a digest that is not filtered and does not fail,
\* and a message.  The trigger and the message may be filtered, fail and, if they do not
\* fail otherwise, have a webhook filter; enqueues may be lost.
WindowFlow ==
    /\ NumSteps = 3
    /\ StepType[1] = "trigger" /\ StepType[2] = "digest" /\ StepType[3] = "channel"
    /\ 2 \notin Filterable \cup Fallible \cup WebhookSteps
    /\ RetriesAreWebhooks
    /\ Cancelled = {}
    /\ Faults \subseteq {"lost_enqueue"}

\* The digest jobs that have an event, their own one, to send.
Begun == {"delayed", "running", "completed", "skipped"}

MessageJob(n) == <<n, 3>>

\* The digest jobs that have been scheduled and are not over.
Current == {"delayed", "running"}

\* A batch that has every event of the digest of n but those that were missed, among them
\* all that are still on their way.
Full(n, batch) ==
    /\ n \in batch
    /\ AllMissed(DigestJob(n))
    /\ \A e \in Notifs : Into(DigestJob(e), DigestJob(n)) =>
                            (e \in batch <=> DigestJob(e) \notin missed)

\* The events of digest i have been read.
HasRead(i) ==
    \/ status[i] = "completed"
    \/ \E w \in Workers : wk[w].pc \in {"digest", "complete"} /\ wk[w].cur = i

\* What was missed belongs to a digest whose events have been read.
MissedByReader == \A j \in missed : j \in Digests /\ \E i \in Digests : Into(j, i) /\ HasRead(i)

\* An event is on its way until its digest job is MERGED.
JoinsUnwritten == \A w \in Workers, n \in Notifs : Joins(w, n) => status[DigestJob(n)] # "merged"

\* The slot has put the digest of n into the queue, or runs it.
Digesting(r, n) ==
    \/ r.pc = "enqueue" /\ r.add = DigestJob(n)
    \/ r.pc \in {"mark", "send", "digest", "complete"} /\ r.cur = DigestJob(n)

\* The slot is past the digest of n.
Messaging(r, n) ==
    \/ Live(r) /\ JobOf(r) = MessageJob(n)
    \/ r.pc = "next" /\ r.cur = DigestJob(n)

Waits(j) == \E a \in 0..MaxStarts : waiting[j][a] > 0

AtDigest(n) == Waits(DigestJob(n)) \/ \E w \in Workers : Digesting(wk[w], n)

AtMessage(n) == Waits(MessageJob(n)) \/ \E w \in Workers : Messaging(wk[w], n)

\* What a slot carries from the digest to the message.
SlotWindow(r) ==
    /\ r.pc = "skip" => Backoff
    /\ r.pc \in Failing => r.bull[2] # 2
    /\ r.pc = "digest" => Full(r.cur[1], r.batch)
    /\ r.pc = "complete" /\ r.cur[2] = 2 => Full(r.cur[1], Carries(MessageJob(r.cur[1])))
    /\ r.pc \in {"mark", "send"} /\ r.cur[2] = 3 => Full(r.cur[1], r.batch)

\* How far the digest of n is.
Placed(n) ==
    LET d == DigestJob(n)
    IN  /\ status[d] \in Begun => Stored(n) /\ \A m \in Notifs : ~Into(d, DigestJob(m))
        /\ AtDigest(n) => status[d] \in Current
        /\ AtMessage(n) => status[d] \in {"completed", "skipped"}
        /\ status[d] \in {"completed", "skipped"} => Full(n, Carries(MessageJob(n)))

WindowInv ==
    /\ OnceInv /\ StopInv /\ BatchInv /\ DigestInv
    /\ MissedByReader /\ JoinsUnwritten
    /\ \A w \in Workers : SlotWindow(wk[w])
    /\ \A n \in Notifs : Placed(n)

-----------------------------------------------------------------------------
(* The workflow and its jobs.                                               *)

LEMMA FlowFacts ==
    ASSUME WindowFlow
    PROVE  /\ Steps = {1, 2, 3} /\ NumSteps = 3 /\ DigestSteps = {2}
           /\ NoRepeats /\ CleanRuns /\ Calm /\ OneDigestStep
           /\ DigestsAreNotFiltered /\ StopsAreClean
           /\ "lock_expiry" \notin Faults /\ "crash" \notin Faults
<1>1. Steps = {1, 2, 3} /\ NumSteps = 3
  BY DEF WindowFlow, Steps
<1>2. DigestSteps = {2}
  BY <1>1 DEF WindowFlow, DigestSteps
<1>3. Calm /\ "lock_expiry" \notin Faults /\ "crash" \notin Faults
  BY DEF WindowFlow, Calm, NoDigestIsCancelled, CrashesAlone
<1>4. \A s, t \in Steps : Follows(s, t) /\ StepType[t] \in {"digest", "delay"} => t = 2
  BY <1>1 DEF WindowFlow
<1>5. RetriesAreClean /\ StopsAreClean
  <2>1. WebhookSteps \subseteq Steps /\ StopOnFail \subseteq Steps
    BY StepAssumption
  <2> QED
    BY <1>4, <2>1 DEF WindowFlow, RetriesAreClean, StopsAreClean
<1>6. OneDigestStep /\ DigestsAreNotFiltered
  BY <1>2 DEF WindowFlow, OneDigestStep, DigestsAreNotFiltered
<1> QED
  BY <1>1, <1>2, <1>3, <1>5, <1>6 DEF NoRepeats, CleanRuns

LEMMA JobsOfFlow ==
    ASSUME WindowFlow
    PROVE  /\ \A n \in Notifs : /\ DigestJob(n) \in Digests /\ DigestJob(n) \in Jobs
                                /\ MessageJob(n) \in Jobs
                                /\ DigestJob(n)[1] = n /\ DigestJob(n)[2] = 2
                                /\ MessageJob(n)[1] = n /\ MessageJob(n)[2] = 3
                                /\ DigestJob(n) # MessageJob(n)
           /\ \A d \in Digests : d[1] \in Notifs /\ d = DigestJob(d[1])
           /\ \A j \in Jobs : /\ j[1] \in Notifs /\ j[2] \in {1, 2, 3} /\ j = <<j[1], j[2]>>
                              /\ IsDigest(j) <=> j[2] = 2
                              /\ IsAction(j) <=> j[2] = 2
                              /\ TypeOf(j) # "delay"
                              /\ TypeOf(j) = "channel" <=> j[2] = 3
                              /\ HasChild(j) <=> j[2] # 3
                              /\ j[2] = 2 => j \in Digests /\ j = DigestJob(j[1])
                                             /\ Child(j) = MessageJob(j[1])
                              /\ j[2] = 3 => j = MessageJob(j[1])
<1>1. Steps = {1, 2, 3} /\ NumSteps = 3
  BY FlowFacts
<1>2. \A j \in Jobs : j[1] \in Notifs /\ j[2] \in {1, 2, 3} /\ j = <<j[1], j[2]>>
  BY <1>1 DEF Jobs
<1>3. \A n \in Notifs, s \in {1, 2, 3} : <<n, s>> \in Jobs
  BY <1>1 DEF Jobs
<1>4. \A j \in Jobs : /\ IsDigest(j) <=> j[2] = 2
                      /\ IsAction(j) <=> j[2] = 2
                      /\ TypeOf(j) # "delay"
                      /\ TypeOf(j) = "channel" <=> j[2] = 3
  BY <1>2 DEF WindowFlow, IsDigest, IsAction, TypeOf
<1>5. \A j \in Jobs : HasChild(j) <=> j[2] # 3
  BY <1>1, <1>2 DEF HasChild
<1>6. \A n \in Notifs : /\ DigestJob(n) \in Digests /\ DigestJob(n) \in Jobs
                         /\ MessageJob(n) \in Jobs
                         /\ DigestJob(n)[1] = n /\ DigestJob(n)[2] = 2
                         /\ MessageJob(n)[1] = n /\ MessageJob(n)[2] = 3
                         /\ DigestJob(n) # MessageJob(n)
  <2> TAKE n \in Notifs
  <2>1. <<n, 2>> \in Jobs /\ <<n, 3>> \in Jobs /\ <<n, 2>>[2] = 2
    BY <1>3
  <2>2. <<n, 2>> \in Digests
    BY <1>4, <2>1 DEF Digests
  <2> QED
    BY <2>1, <2>2 DEF DigestJob, MessageJob
<1>7. \A d \in Digests : d[1] \in Notifs /\ d = DigestJob(d[1])
  BY <1>2, <1>4 DEF DigestJob, Digests
<1>8. \A j \in Jobs : /\ j[2] = 2 => j \in Digests /\ j = DigestJob(j[1])
                                       /\ Child(j) = MessageJob(j[1])
                      /\ j[2] = 3 => j = MessageJob(j[1])
  <2> TAKE j \in Jobs
  <2>1. j = <<j[1], j[2]>> /\ (IsDigest(j) <=> j[2] = 2)
    BY <1>2, <1>4
  <2> QED
    BY <2>1 DEF DigestJob, MessageJob, Digests, Child
<1> QED
  BY <1>2, <1>4, <1>5, <1>6, <1>7, <1>8

-----------------------------------------------------------------------------
(* Where a slot is after a step.                                            *)

\* A step of slot w puts nobody into the digest or past it but by the three writes.
Places(w) ==
    \A n \in Notifs :
        /\ AtDigest(n)' => AtDigest(n) \/ (Claim(w) /\ wk[w].add = DigestJob(n))
        /\ AtMessage(n)' => \/ AtMessage(n)
                            \/ Skip(w) /\ wk[w].add = DigestJob(n)
                            \/ MarkCompleted(w) /\ wk[w].cur = DigestJob(n)

\* The slot has nothing to do with any digest.
Apart(r) ==
    /\ \A n \in Notifs : ~Digesting(r, n) /\ ~Messaging(r, n)
    /\ r.pc \in Failing => r.bull[2] # 2

\* A slot that returns from AddJob leaves its token, and fails the trigger at most.
LEMMA ReturnApart ==
    ASSUME WindowFlow, OnceInv, NEW w \in Workers, wk[w].pc \in Sched, Return(w, "none")
    PROVE  Apart(wk'[w]) /\ wk'[w].pc \in {"idle", "reject"} /\ Others(w)
<1> DEFINE rej == [wk[w] EXCEPT !.pc = "reject", !.err = wk[w].err]
<1>1. /\ wk \in [Workers -> WorkerState] /\ wk[w] \in WorkerState /\ SlotChain(wk[w])
      /\ SlotOK(wk[w]) /\ ~Live(wk'[w])
  BY ReturnMoves, FlowFacts DEF OnceInv, ChainInv, TypeInv, TypeOK, SlotsOK, SlotsInChain, Errors,
                                CleanRuns, Sched
<1>2. wk'[w].pc \in {"idle", "reject"} /\ Others(w)
  BY <1>1, ReturnPC
<1>3. /\ rej.bull = wk[w].bull
      /\ wk'[w] = Idle \/ (wk'[w] = rej /\ wk[w].phase = "run" /\ wk[w].err # "none")
  BY <1>1 DEF Return, WorkerState
<1> HIDE DEF rej
<1>4. wk'[w].pc \in Failing => wk'[w].bull[2] # 2
  BY <1>1, <1>3, IdleIsFree DEF SlotChain, WindowFlow, Failing
<1> QED
  BY <1>1, <1>2, <1>4 DEF Apart, Digesting, Messaging

\* What the slot has got to know by its step.
Learns(w) ==
    LET r == wk[w]
        q == wk'[w]
    IN  /\ q.pc = "skip" => Backoff
        /\ q.pc \in Failing => q.bull[2] # 2
        /\ q.pc = "digest" => /\ ReadBatch(w) /\ q.cur = r.cur
                              /\ q.batch = DigestEvents(r.cur)
        /\ q.pc = "complete" /\ q.cur[2] = 2 => WriteBatch(w) /\ q.cur = r.cur
        /\ q.pc \in {"mark", "send"} /\ q.cur[2] = 3 =>
              \/ r.pc = "mark" /\ q.cur = r.cur /\ q.batch = r.batch
              \/ Waits(q.cur) /\ q.batch = Carries(q.cur)

LEMMA PlacesFrom ==
    ASSUME NEW w \in Workers, Others(w), waiting' = waiting,
           \A n \in Notifs :
              /\ Digesting(wk'[w], n) => AtDigest(n) \/ (Claim(w) /\ wk[w].add = DigestJob(n))
              /\ Messaging(wk'[w], n) => \/ AtMessage(n)
                                         \/ Skip(w) /\ wk[w].add = DigestJob(n)
                                         \/ MarkCompleted(w) /\ wk[w].cur = DigestJob(n)
    PROVE  Places(w)
<1> SUFFICES ASSUME NEW n \in Notifs
             PROVE  /\ AtDigest(n)' => AtDigest(n) \/ (Claim(w) /\ wk[w].add = DigestJob(n))
                    /\ AtMessage(n)' => \/ AtMessage(n)
                                        \/ Skip(w) /\ wk[w].add = DigestJob(n)
                                        \/ MarkCompleted(w) /\ wk[w].cur = DigestJob(n)
  BY DEF Places
<1>1. \A j : Waits(j)' <=> Waits(j)
  BY DEF Waits
<1>2. \A v \in Workers : v # w => wk'[v] = wk[v]
  BY DEF Others
<1>3. AtDigest(n)' => Waits(DigestJob(n)) \/ \E v \in Workers : Digesting(wk'[v], n)
  BY <1>1 DEF AtDigest, Digesting, DigestJob
<1>4. AtMessage(n)' => Waits(MessageJob(n)) \/ \E v \in Workers : Messaging(wk'[v], n)
  BY <1>1 DEF AtMessage, Messaging, MessageJob, DigestJob, Live, JobOf, Retried, Last
<1> QED
  BY <1>2, <1>3, <1>4 DEF AtDigest, AtMessage

LEMMA ApartPlaces ==
    ASSUME NEW w \in Workers, Others(w), waiting' = waiting, Apart(wk'[w])
    PROVE  Places(w)
BY PlacesFrom DEF Apart

\* A slot that schedules a job.
LEMMA SchedSlot ==
    ASSUME NEW q, q.pc \in Sched
    PROVE  \A n : /\ Digesting(q, n) <=> q.pc = "enqueue" /\ q.add = DigestJob(n)
                  /\ Messaging(q, n) <=> q.add = MessageJob(n)
BY JobOfSched DEF Sched, Digesting, Messaging

LEMMA AddJobPlaces ==
    ASSUME WindowFlow, OnceInv, NEW w \in Workers, AddJobStep(w)
    PROVE  Places(w) /\ Learns(w)
<1>1. /\ wk \in [Workers -> WorkerState] /\ wk[w] \in WorkerState /\ SlotChain(wk[w])
      /\ SlotOK(wk[w])
      /\ \A n \in Notifs : /\ Digesting(wk[w], n) => AtDigest(n)
                           /\ Messaging(wk[w], n) => AtMessage(n)
  BY DEF OnceInv, ChainInv, TypeInv, TypeOK, SlotsOK, SlotsInChain, AtDigest, AtMessage
<1>2. wk[w].pc \in Sched => wk[w].add \in Jobs
  BY <1>1 DEF SlotOK, Sched
<1>3. ASSUME NEW pc \in {"claim", "skip", "enqueue"}, GoTo(w, pc), wk[w].pc \in Sched,
             waiting' = waiting,
             pc = "enqueue" => wk[w].add[2] # 2 \/ Claim(w),
             pc = "skip" => Backoff
      PROVE  Places(w) /\ Learns(w)
  <2> DEFINE q == [wk[w] EXCEPT !.pc = pc]
  <2>1. wk'[w] = q /\ q.pc = pc /\ q.add = wk[w].add /\ Others(w)
    BY <1>1, <1>3, GoToPC DEF GoTo, WorkerState
  <2> HIDE DEF q
  <2>2. q.pc \in Sched
    BY <2>1 DEF Sched
  <2>3. ASSUME NEW n \in Notifs
        PROVE  /\ Digesting(q, n) => Claim(w) /\ wk[w].add = DigestJob(n)
               /\ Messaging(q, n) => AtMessage(n)
    <3>1. /\ Digesting(q, n) <=> pc = "enqueue" /\ wk[w].add = DigestJob(n)
          /\ Messaging(q, n) <=> Messaging(wk[w], n)
      BY <1>3, <2>1, <2>2, SchedSlot
    <3> QED
      BY <1>1, <1>3, <3>1, JobsOfFlow
  <2>4. Places(w)
    BY <1>3, <2>1, <2>3, PlacesFrom
  <2> QED
    BY <1>3, <2>1, <2>2, <2>4 DEF Learns, Sched, Failing
<1>4. ASSUME Return(w, "none"), wk[w].pc \in Sched, waiting' = waiting
      PROVE  Places(w) /\ Learns(w)
  BY <1>4, ReturnApart, ApartPlaces DEF Learns, Apart, Failing
<1>5. ASSUME NEW n \in Notifs, StoreJobs(w, n) PROVE Places(w) /\ Learns(w)
  <2> DEFINE q == [Idle EXCEPT !.pc = "add", !.add = <<n, 1>>]
  <2>1. wk'[w] = q /\ q.pc = "add" /\ q.add = <<n, 1>> /\ Others(w) /\ waiting' = waiting
    BY <1>1, <1>5 DEF StoreJobs, Others, Idle
  <2> HIDE DEF q
  <2>2. Apart(q)
    BY <2>1, SchedSlot DEF Sched, Apart, Failing, DigestJob, MessageJob
  <2> QED
    BY <2>1, <2>2, ApartPlaces DEF Learns, Failing
<1>6. ASSUME AddPlain(w) PROVE Places(w) /\ Learns(w)
  <2>1. wk[w].pc \in Sched /\ wk[w].add[2] # 2 /\ GoTo(w, "enqueue") /\ waiting' = waiting
    BY <1>2, <1>6, JobsOfFlow DEF AddPlain, Sched
  <2> QED
    BY <1>3, <2>1
<1>7. ~AddDelay(w) /\ ~AddDelayMisconfigured(w) /\ ~AddThrows(w) /\ ~DigestFiltered(w)
  <2>1. wk[w].pc = "add" => wk[w].pc \in Sched
    BY DEF Sched
  <2>2. wk[w].pc = "add" /\ (IsAction(wk[w].add) \/ TypeOf(wk[w].add) = "digest") =>
          wk[w].add[2] = 2 /\ TypeOf(wk[w].add) = "digest"
    BY <1>2, <2>1, JobsOfFlow DEF IsDigest
  <2>3. ErrorsOf(2) = {} /\ 2 \notin Filterable
    BY DEF WindowFlow, ErrorsOf
  <2> QED
    BY <2>1, <2>2, <2>3, <1>2, JobsOfFlow
       DEF AddDelay, AddDelayMisconfigured, AddThrows, DigestFiltered, Adding
<1>8. ASSUME DecideSkip(w) PROVE Places(w) /\ Learns(w)
  <2>1. wk[w].pc \in Sched /\ GoTo(w, "skip") /\ waiting' = waiting /\ Backoff
    BY <1>8 DEF DecideSkip, Adding, Sched, SkippedByBackoff
  <2> QED
    BY <1>3, <2>1
<1>9. ASSUME DecideCreate(w) PROVE Places(w) /\ Learns(w)
  <2>1. wk[w].pc \in Sched /\ GoTo(w, "claim") /\ waiting' = waiting
    BY <1>9 DEF DecideCreate, Adding, Sched
  <2> QED
    BY <1>3, <2>1
<1>10. ASSUME Claim(w) PROVE Places(w) /\ Learns(w)
  <2>1. wk[w].pc \in Sched /\ GoTo(w, "enqueue") /\ waiting' = waiting
    BY <1>10 DEF Claim, Sched
  <2> QED
    BY <1>3, <1>10, <2>1
<1>11. ASSUME NEW q, wk' = [wk EXCEPT ![w] = q], waiting' = waiting, q.pc = "merge",
              wk[w].pc \in {"add", "merge"}, q.add = wk[w].add
       PROVE  Places(w) /\ Learns(w)
  <2>1. wk'[w] = q /\ Others(w) /\ wk[w].pc \in Sched /\ q.pc \in Sched
    BY <1>1, <1>11 DEF Others, Sched
  <2>2. \A n : ~Digesting(q, n) /\ (Messaging(q, n) <=> Messaging(wk[w], n))
    BY <1>11, <2>1, SchedSlot
  <2> QED
    BY <1>1, <1>11, <2>1, <2>2, PlacesFrom DEF Learns, Failing
<1>12. ASSUME DecideMerge(w) PROVE Places(w) /\ Learns(w)
  <2>1. PICK d : wk' = [wk EXCEPT ![w].pc = "merge", ![w].hit = d,
                                  ![w].todo = wk[w].add[2]..NumSteps]
    BY <1>12 DEF DecideMerge
  <2> DEFINE q == [wk[w] EXCEPT !.pc = "merge", !.hit = d, !.todo = wk[w].add[2]..NumSteps]
  <2>2. wk' = [wk EXCEPT ![w] = q] /\ q.pc = "merge" /\ q.add = wk[w].add
    BY <1>1, <2>1 DEF WorkerState
  <2>3. wk[w].pc = "add" /\ waiting' = waiting
    BY <1>12 DEF DecideMerge, Adding
  <2> HIDE DEF q
  <2> QED
    BY <1>11, <2>2, <2>3
<1>13. ASSUME MergeWrite(w) PROVE Places(w) /\ Learns(w)
  <2>1. PICK s : IF wk[w].todo = {s} THEN Merged(w) ELSE wk' = [wk EXCEPT ![w].todo = @ \ {s}]
    BY <1>13 DEF MergeWrite
  <2>2. wk[w].pc = "merge" /\ waiting' = waiting
    BY <1>13 DEF MergeWrite
  <2> DEFINE q == [wk[w] EXCEPT !.todo = wk[w].todo \ {s}]
  <2>3. q.pc = "merge" /\ q.add = wk[w].add /\ (Return(w, "none") \/ wk' = [wk EXCEPT ![w] = q])
    BY <1>1, <2>1, <2>2 DEF WorkerState, Merged
  <2> HIDE DEF q
  <2> QED
    BY <1>4, <1>11, <2>2, <2>3 DEF Sched
<1>14. ASSUME Skip(w) PROVE Places(w) /\ Learns(w)
  <2>1. wk[w].pc = "skip" /\ waiting' = waiting
        /\ wk[w].add \in Jobs /\ wk[w].add[2] = 2
        /\ wk[w].add = DigestJob(wk[w].add[1]) /\ Child(wk[w].add) = MessageJob(wk[w].add[1])
    BY <1>2, <1>14, JobsOfFlow DEF Skip, Sched, OnceInv, AttemptsOK, SlotAttempts
  <2> DEFINE q == [wk[w] EXCEPT !.pc = "add", !.add = Child(wk[w].add)]
  <2>2. wk'[w] = q /\ q.pc = "add" /\ q.add = MessageJob(wk[w].add[1]) /\ Others(w)
    BY <1>1, <1>14, <2>1, JobsOfFlow DEF Skip, Skipped, WorkerState, Others
  <2> HIDE DEF q
  <2>3. \A n : ~Digesting(q, n) /\ (Messaging(q, n) => wk[w].add = DigestJob(n))
    BY <2>1, <2>2, SchedSlot DEF Sched, MessageJob, DigestJob
  <2> QED
    BY <1>14, <2>1, <2>2, <2>3, PlacesFrom DEF Learns, Failing
<1>15. ASSUME Enqueue(w) PROVE Places(w) /\ Learns(w)
  <2>1. /\ wk[w].pc = "enqueue" /\ wk[w].pc \in Sched /\ wk[w].add \in Jobs
        /\ Push(wk[w].add, 0) /\ Return(w, "none")
    BY <1>2, <1>15 DEF Enqueue, Sched
  <2>2. Apart(wk'[w]) /\ wk'[w].pc \in {"idle", "reject"} /\ Others(w)
    BY <2>1, ReturnApart
  <2>3. \A j \in Jobs : Waits(j)' => Waits(j) \/ j = wk[w].add
    <3>1. waiting \in [Jobs -> [0..MaxStarts -> Nat]] /\ 0 \in 0..MaxStarts
      BY MaxStartsNat DEF OnceInv, ChainInv, TypeInv, TypeOK
    <3>2. \A j \in Jobs : j # wk[w].add => waiting'[j] = waiting[j]
      BY <2>1, <3>1 DEF Push
    <3> QED
      BY <3>2 DEF Waits
  <2>4. ASSUME NEW n \in Notifs
        PROVE  (AtDigest(n)' => AtDigest(n)) /\ (AtMessage(n)' => AtMessage(n))
    <3>1. /\ Waits(DigestJob(n))' => AtDigest(n)
          /\ Waits(MessageJob(n))' => AtMessage(n)
      BY <1>1, <2>1, <2>3, JobsOfFlow, SchedSlot DEF AtDigest, AtMessage
    <3>2. AtDigest(n)' => Waits(DigestJob(n))' \/ \E v \in Workers : Digesting(wk'[v], n)
      BY DEF AtDigest, Digesting, DigestJob
    <3>3. AtMessage(n)' => Waits(MessageJob(n))' \/ \E v \in Workers : Messaging(wk'[v], n)
      BY DEF AtMessage, Messaging, MessageJob, DigestJob, Live, JobOf, Retried, Last
    <3>4. \A v \in Workers : v # w => wk'[v] = wk[v]
      BY <2>2 DEF Others
    <3> QED
      BY <2>2, <3>1, <3>2, <3>3, <3>4 DEF Apart, AtDigest, AtMessage
  <2> QED
    BY <2>2, <2>4 DEF Places, Learns, Apart
<1> QED
  BY <1>5, <1>6, <1>7, <1>8, <1>9, <1>10, <1>12, <1>13, <1>14, <1>15 DEF AddJobStep

\* A slot that runs a job.
LEMMA RunningSlot ==
    ASSUME NEW q, q.pc \in Running
    PROVE  \A n : /\ Digesting(q, n) <=> q.pc # "next" /\ q.cur = DigestJob(n)
                  /\ Messaging(q, n) <=> \/ q.cur = MessageJob(n)
                                         \/ q.pc = "next" /\ q.cur = DigestJob(n)
BY JobOfRunning DEF Running, Digesting, Messaging

\* A slot that fails one.
LEMMA FailingSlot ==
    ASSUME NEW q, q.pc \in Failing
    PROVE  \A n : ~Digesting(q, n) /\ (Messaging(q, n) => q.bull = MessageJob(n))
BY JobOfFailing DEF Failing, Digesting, Messaging

\* A delivery that is pushed is that of a job that has been past the digest.
LEMMA PushPlaces ==
    ASSUME WindowFlow, OnceInv, NEW w \in Workers, Others(w), NEW j \in Jobs,
           NEW a \in 0..MaxStarts, Push(j, a), j[2] # 2,
           j[2] = 3 => Messaging(wk[w], j[1]),
           \A n \in Notifs : ~Digesting(wk'[w], n) /\ (Messaging(wk'[w], n) => Messaging(wk[w], n))
    PROVE  Places(w)
<1> SUFFICES ASSUME NEW n \in Notifs
             PROVE  (AtDigest(n)' => AtDigest(n)) /\ (AtMessage(n)' => AtMessage(n))
  BY DEF Places
<1>1. \A i \in Jobs : Waits(i)' => Waits(i) \/ i = j
  <2>1. waiting \in [Jobs -> [0..MaxStarts -> Nat]]
    BY DEF OnceInv, ChainInv, TypeInv, TypeOK
  <2>2. \A i \in Jobs : i # j => waiting'[i] = waiting[i]
    BY <2>1 DEF Push
  <2> QED
    BY <2>2 DEF Waits
<1>2. /\ Waits(DigestJob(n))' => AtDigest(n)
      /\ Waits(MessageJob(n))' => AtMessage(n)
  BY <1>1, JobsOfFlow DEF AtDigest, AtMessage
<1>3. AtDigest(n)' => Waits(DigestJob(n))' \/ \E v \in Workers : Digesting(wk'[v], n)
  BY DEF AtDigest, Digesting, DigestJob
<1>4. AtMessage(n)' => Waits(MessageJob(n))' \/ \E v \in Workers : Messaging(wk'[v], n)
  BY DEF AtMessage, Messaging, MessageJob, DigestJob, Live, JobOf, Retried, Last
<1>5. \A v \in Workers : v # w => wk'[v] = wk[v]
  BY DEF Others
<1> QED
  BY <1>2, <1>3, <1>4, <1>5 DEF AtDigest, AtMessage

LEMMA ReceivePlaces ==
    ASSUME WindowFlow, OnceInv, NEW w \in Workers, NEW j \in Jobs, NEW a \in 0..MaxStarts,
           Receive(w, j, a)
    PROVE  Places(w) /\ Learns(w)
<1> DEFINE run == [Idle EXCEPT !.phase = "run", !.bull = j, !.made = a + 1]
           mark == [run EXCEPT !.pc = "mark", !.cur = j, !.batch = Carries(j)]
           follow == [run EXCEPT !.pc = "follow"]
<1>1. mark.pc = "mark" /\ mark.cur = j /\ mark.batch = Carries(j) /\ follow.pc = "follow"
  BY DEF Idle
<1>2. \/ wk' = [wk EXCEPT ![w] = mark] \/ wk' = [wk EXCEPT ![w] = follow]
      \/ wk' = wk /\ wk[w] = Idle
  BY DEF Receive
<1> HIDE DEF mark, follow
<1>3. wk \in [Workers -> WorkerState] /\ waiting \in [Jobs -> [0..MaxStarts -> Nat]]
  BY DEF OnceInv, ChainInv, TypeInv, TypeOK
<1>4. wk'[w] \in {mark, follow, Idle} /\ Others(w)
  BY <1>2, <1>3 DEF Others
<1>5. Waits(j) /\ \A i \in Jobs : Waits(i)' => Waits(i)
  <2>1. waiting[j][a] > 0 /\ Pull(j, a)
    BY DEF Receive, HasDelivery, Pull
  <2>2. \A i \in Jobs, b \in 0..MaxStarts : waiting'[i][b] > 0 => waiting[i][b] > 0
    BY <1>3, <2>1, TakeCounts
  <2> QED
    BY <2>1, <2>2 DEF Waits
<1>6. ASSUME NEW n \in Notifs
      PROVE  /\ Digesting(wk'[w], n) => wk'[w] = mark /\ j = DigestJob(n)
             /\ Messaging(wk'[w], n) => wk'[w] = mark /\ j = MessageJob(n)
  <2>1. CASE wk'[w] = mark
    BY <1>1, <2>1, RunningSlot DEF Running
  <2>2. CASE wk'[w] = follow
    <3>1. ~Live(follow)
      BY <1>1 DEF Live, Retried, Last, Sched, Running, Failing
    <3> QED
      BY <1>1, <2>2, <3>1 DEF Digesting, Messaging
  <2>3. CASE wk'[w] = Idle
    BY <2>3, IdleIsFree DEF Digesting, Messaging
  <2> QED
    BY <1>4, <2>1, <2>2, <2>3
<1>7. ASSUME NEW n \in Notifs
      PROVE  (AtDigest(n)' => AtDigest(n)) /\ (AtMessage(n)' => AtMessage(n))
  <2>1. AtDigest(n)' => Waits(DigestJob(n))' \/ \E v \in Workers : Digesting(wk'[v], n)
    BY DEF AtDigest, Digesting, DigestJob
  <2>2. AtMessage(n)' => Waits(MessageJob(n))' \/ \E v \in Workers : Messaging(wk'[v], n)
    BY DEF AtMessage, Messaging, MessageJob, DigestJob, Live, JobOf, Retried, Last
  <2>3. \A v \in Workers : v # w => wk'[v] = wk[v]
    BY <1>4 DEF Others
  <2> QED
    BY <1>5, <1>6, <2>1, <2>2, <2>3, JobsOfFlow DEF AtDigest, AtMessage
<1>8. Learns(w)
  BY <1>1, <1>4, <1>5, IdleIsFree DEF Learns, Failing
<1> QED
  BY <1>7, <1>8 DEF Places

LEMMA RunJobPlaces ==
    ASSUME WindowFlow, OnceInv, NEW w \in Workers, RunJobStep(w), SlotWindow(wk[w])
    PROVE  Places(w) /\ Learns(w)
<1>1. /\ wk \in [Workers -> WorkerState] /\ wk[w] \in WorkerState /\ SlotChain(wk[w])
      /\ SlotOK(wk[w])
      /\ \A n \in Notifs : /\ Digesting(wk[w], n) => AtDigest(n)
                           /\ Messaging(wk[w], n) => AtMessage(n)
  BY DEF OnceInv, ChainInv, TypeInv, TypeOK, SlotsOK, SlotsInChain, AtDigest, AtMessage
<1>2. /\ wk[w].pc \in Running => wk[w].cur \in Jobs /\ wk[w].cur = wk[w].bull
      /\ wk[w].pc \in Failing => wk[w].bull \in Jobs
  BY <1>1 DEF SlotOK, SlotChain, Running, Failing
<1>3. ASSUME NEW q, wk' = [wk EXCEPT ![w] = q], q.pc \in Running, wk[w].pc \in Running,
             wk[w].pc # "next", q.cur = wk[w].cur, waiting' = waiting,
             q.pc = "next" => MarkCompleted(w) \/ wk[w].cur[2] # 2
      PROVE  Places(w) /\ wk'[w] = q
  <2>1. wk'[w] = q /\ Others(w)
    BY <1>1, <1>3 DEF Others
  <2>2. ASSUME NEW n \in Notifs
        PROVE  /\ Digesting(q, n) => AtDigest(n)
               /\ Messaging(q, n) => AtMessage(n) \/ (MarkCompleted(w) /\ wk[w].cur = DigestJob(n))
    BY <1>1, <1>2, <1>3, RunningSlot, JobsOfFlow
  <2> QED
    BY <1>3, <2>1, <2>2, PlacesFrom
<1>4. ASSUME NEW e, Caught(w, e), wk[w].pc = "send", waiting' = waiting, wk[w].cur[2] # 2
      PROVE  Places(w) /\ Learns(w)
  <2> DEFINE q == [wk[w] EXCEPT !.err = e,
                                !.pc = IF StopsChain(wk[w].cur[2], e) THEN "reject" ELSE "next"]
  <2>1. /\ wk' = [wk EXCEPT ![w] = q] /\ q.cur = wk[w].cur /\ q.bull = wk[w].cur
        /\ q.pc \in {"reject", "next"} /\ wk[w].pc \in Running
    BY <1>1, <1>2, <1>4 DEF Caught, WorkerState, Running
  <2> HIDE DEF q
  <2>2. CASE q.pc = "next"
    BY <1>3, <1>4, <2>1, <2>2 DEF Running, Learns, Failing
  <2>3. CASE q.pc = "reject"
    <3>1. wk'[w] = q /\ Others(w)
      BY <1>1, <2>1 DEF Others
    <3>2. \A n : ~Digesting(q, n) /\ (Messaging(q, n) => Messaging(wk[w], n))
      BY <2>1, <2>3, FailingSlot, RunningSlot DEF Failing
    <3> QED
      BY <1>1, <1>4, <2>1, <2>3, <3>1, <3>2, PlacesFrom DEF Learns
  <2> QED
    BY <2>1, <2>2, <2>3
<1>5. ~FindFollower(w) /\ ~NoFollower(w)
  BY <1>1 DEF FindFollower, NoFollower, At, SlotChain
<1>6. ASSUME MarkRunning(w) PROVE Places(w) /\ Learns(w)
  <2> DEFINE q == [wk[w] EXCEPT !.pc = "send"]
  <2>1. /\ wk' = [wk EXCEPT ![w] = q] /\ q.pc = "send" /\ q.cur = wk[w].cur
        /\ q.batch = wk[w].batch /\ waiting' = waiting /\ wk[w].pc = "mark"
    BY <1>1, <1>6 DEF MarkRunning, At, WorkerState
  <2> HIDE DEF q
  <2> QED
    BY <1>3, <2>1 DEF Running, Learns, Failing
<1>7. ASSUME SendNothing(w) \/ Deliver(w) \/ FilterOut(w) \/ WriteBatch(w)
      PROVE  Places(w) /\ Learns(w)
  <2> DEFINE q == [wk[w] EXCEPT !.pc = "complete"]
  <2>1. /\ wk' = [wk EXCEPT ![w] = q] /\ q.pc = "complete" /\ q.cur = wk[w].cur
        /\ waiting' = waiting /\ wk[w].pc \in {"send", "digest"}
    BY <1>1, <1>7 DEF SendNothing, Deliver, FilterOut, WriteBatch, At, WorkerState
  <2>2. wk[w].cur[2] = 2 => WriteBatch(w)
    <3>1. wk[w].cur[2] = 2 => TypeOf(wk[w].cur) = "digest" /\ wk[w].cur[2] \notin Filterable
      BY <1>2, <2>1, JobsOfFlow DEF Running, WindowFlow, IsDigest
    <3> QED
      BY <1>7, <3>1 DEF SendNothing, Deliver, FilterOut
  <2> HIDE DEF q
  <2> QED
    BY <1>3, <2>1, <2>2 DEF Running, Learns, Failing
<1>8. ASSUME ReadBatch(w) PROVE Places(w) /\ Learns(w)
  <2> DEFINE q == [wk[w] EXCEPT !.pc = "digest", !.batch = DigestEvents(wk[w].cur)]
  <2>1. /\ wk' = [wk EXCEPT ![w] = q] /\ q.pc = "digest" /\ q.cur = wk[w].cur
        /\ q.batch = DigestEvents(wk[w].cur) /\ waiting' = waiting /\ wk[w].pc = "send"
    BY <1>1, <1>8 DEF ReadBatch, At, WorkerState
  <2> HIDE DEF q
  <2> QED
    BY <1>3, <1>8, <2>1 DEF Running, Learns, Failing
<1>9. ASSUME SendThrows(w) \/ DeliverThrows(w) PROVE Places(w) /\ Learns(w)
  <2>1. wk[w].pc = "send" /\ waiting' = waiting
    BY <1>9 DEF SendThrows, DeliverThrows, At
  <2>2. wk[w].cur[2] # 2 /\ \E e : Caught(w, e)
    BY <1>9 DEF SendThrows, DeliverThrows, ErrorsOf, WindowFlow
  <2> QED
    BY <1>4, <2>1, <2>2
<1>10. ASSUME MarkCompleted(w) PROVE Places(w) /\ Learns(w)
  <2> DEFINE q == [wk[w] EXCEPT !.pc = "next"]
  <2>1. /\ wk' = [wk EXCEPT ![w] = q] /\ q.pc = "next" /\ q.cur = wk[w].cur
        /\ waiting' = waiting /\ wk[w].pc = "complete"
    BY <1>1, <1>10 DEF MarkCompleted, At, WorkerState
  <2> HIDE DEF q
  <2> QED
    BY <1>3, <1>10, <2>1 DEF Running, Learns, Failing
<1>11. ASSUME QueueNext(w) PROVE Places(w) /\ Learns(w)
  <2>1. wk[w].pc = "next" /\ waiting' = waiting /\ wk[w].pc \in Running /\ wk[w].cur \in Jobs
    BY <1>2, <1>11 DEF QueueNext, At, Running
  <2>2. CASE HasChild(wk[w].cur)
    <3> DEFINE q == [wk[w] EXCEPT !.pc = "add", !.add = Child(wk[w].cur)]
    <3>1. wk'[w] = q /\ q.pc = "add" /\ q.add = Child(wk[w].cur) /\ Others(w)
      BY <1>1, <1>11, <2>2 DEF QueueNext, WorkerState, Others
    <3> HIDE DEF q
    <3>2. \A n \in Notifs : q.add = MessageJob(n) => wk[w].cur = DigestJob(n)
      BY <2>1, <3>1, JobsOfFlow DEF Child, MessageJob, DigestJob
    <3>3. \A n \in Notifs : ~Digesting(q, n) /\ (Messaging(q, n) => Messaging(wk[w], n))
      BY <2>1, <3>1, <3>2, SchedSlot, RunningSlot DEF Sched
    <3> QED
      BY <1>1, <2>1, <3>1, <3>3, PlacesFrom DEF Learns, Failing
  <2>3. CASE ~HasChild(wk[w].cur)
    <3> DEFINE rej == [wk[w] EXCEPT !.pc = "reject", !.err = wk[w].err]
    <3>1. /\ rej.pc = "reject" /\ rej.bull = wk[w].cur /\ wk'[w] \in {Idle, rej} /\ Others(w)
      BY <1>1, <1>2, <1>11, <2>1, <2>3 DEF QueueNext, Return, WorkerState, Others
    <3> HIDE DEF rej
    <3>2. wk[w].cur[2] = 3
      BY <2>1, <2>3, JobsOfFlow
    <3>3. CASE wk'[w] = Idle
      BY <2>1, <3>1, <3>3, IdleIsFree, ApartPlaces DEF Apart, Digesting, Messaging, Learns, Failing
    <3>4. CASE wk'[w] = rej
      <4>1. \A n : ~Digesting(rej, n) /\ (Messaging(rej, n) => Messaging(wk[w], n))
        BY <2>1, <3>1, FailingSlot, RunningSlot DEF Failing
      <4> QED
        BY <1>1, <2>1, <3>1, <3>2, <3>4, <4>1, PlacesFrom DEF Learns
    <3> QED
      BY <3>1, <3>3, <3>4
  <2> QED
    BY <2>2, <2>3
<1>12. ASSUME Reject(w) PROVE Places(w) /\ Learns(w)
  <2> DEFINE q == [wk[w] EXCEPT !.pc = "failed"]
  <2>1. /\ wk'[w] = q /\ q.pc = "failed" /\ q.bull = wk[w].bull /\ q.err = wk[w].err
        /\ q.made = wk[w].made /\ Others(w) /\ wk[w].pc = "reject"
    BY <1>1, <1>12 DEF Reject, At, WorkerState, Others
  <2> HIDE DEF q
  <2>2. wk[w].bull \in Jobs /\ wk[w].bull[2] # 2
    BY <1>2, <2>1 DEF SlotWindow, Failing
  <2>3. ASSUME NEW n \in Notifs
        PROVE  ~Digesting(q, n) /\ (Messaging(q, n) => Messaging(wk[w], n))
    <3>1. Messaging(q, n) => q.bull = MessageJob(n) /\ Live(q)
      BY <2>1, FailingSlot DEF Failing, Messaging
    <3>2. Live(q) => Live(wk[w])
      BY <2>1, JobOfFailing DEF Failing, Retried, Last, Live
    <3> QED
      BY <2>1, <3>1, <3>2, FailingSlot, JobOfFailing DEF Failing, Messaging
  <2>4. CASE wk[w].made < Attempts(wk[w].bull)
    <3>1. Push(wk[w].bull, wk[w].made) /\ wk[w].made \in 0..MaxStarts
      BY <1>1, <1>12, <2>4 DEF Reject, WorkerState
    <3>2. wk[w].bull[2] = 3 => Messaging(wk[w], wk[w].bull[1])
      BY <2>1, <2>2, <2>4, JobsOfFlow, JobOfFailing DEF Failing, Messaging, Live, Retried
    <3> QED
      BY <2>1, <2>2, <2>3, <3>1, <3>2, PushPlaces DEF Learns
  <2>5. CASE ~(wk[w].made < Attempts(wk[w].bull))
    <3>1. waiting' = waiting
      BY <1>12, <2>5 DEF Reject
    <3> QED
      BY <1>1, <2>1, <2>2, <2>3, <3>1, PlacesFrom DEF Learns
  <2> QED
    BY <2>4, <2>5
<1>13. ASSUME HandleFailed(w) PROVE Places(w) /\ Learns(w)
  <2> DEFINE q == [wk[w] EXCEPT !.pc = "next", !.phase = "last", !.cur = wk[w].bull, !.err = "none"]
  <2>1. /\ q.pc = "next" /\ q.cur = wk[w].bull /\ Others(w) /\ waiting' = waiting
        /\ wk'[w] = Idle \/ (wk'[w] = q /\ IsLastFailure(wk[w].err, wk[w].made))
        /\ wk[w].pc = "failed"
    BY <1>1, <1>13 DEF HandleFailed, At, WorkerState, Others
  <2> HIDE DEF q
  <2>2. CASE wk'[w] = Idle
    BY <2>1, <2>2, IdleIsFree, ApartPlaces DEF Apart, Digesting, Messaging, Learns, Failing
  <2>3. CASE wk'[w] = q /\ IsLastFailure(wk[w].err, wk[w].made)
    <3>1. wk[w].bull \in Jobs /\ wk[w].bull[2] # 2
      BY <1>2, <2>1 DEF SlotWindow, Failing
    <3>2. Live(wk[w]) /\ JobOf(wk[w]) = wk[w].bull
      BY <2>1, <2>3, JobOfFailing DEF Failing, Live, Last
    <3>3. \A n \in Notifs : ~Digesting(q, n) /\ (Messaging(q, n) => Messaging(wk[w], n))
      BY <2>1, <3>1, <3>2, RunningSlot, JobsOfFlow DEF Running, Messaging
    <3> QED
      BY <1>1, <2>1, <2>3, <3>3, PlacesFrom DEF Learns, Failing
  <2> QED
    BY <2>1, <2>2, <2>3
<1> QED
  BY <1>5, <1>6, <1>7, <1>8, <1>9, <1>10, <1>11, <1>12, <1>13, ReceivePlaces DEF RunJobStep

LEMMA SlotPlaces ==
    ASSUME WindowFlow, OnceInv, NEW w \in Workers, SlotStep(w), SlotWindow(wk[w])
    PROVE  Places(w) /\ Learns(w)
<1>1. CASE EnqueueLost(w)
  <2>1. wk[w].pc \in Sched /\ Return(w, "none") /\ waiting' = waiting
    BY <1>1 DEF EnqueueLost, Sched
  <2> QED
    BY <2>1, ReturnApart, ApartPlaces DEF Learns, Apart, Failing
<1>2. ~Crash(w)
  BY FlowFacts DEF Crash
<1> QED
  BY <1>1, <1>2, AddJobPlaces, RunJobPlaces DEF SlotStep

-----------------------------------------------------------------------------
(* What a step does to the digests.                                         *)

\* A decision to merge points one digest to one that is open.
LEMMA DecideMergePoints ==
    ASSUME WindowFlow, OnceInv, NEW w \in Workers, DecideMerge(w)
    PROVE  /\ wk[w].add \in Digests /\ wk[w].pc = "add" /\ Others(w)
           /\ status' = status /\ events' = events /\ delivered' = delivered
           /\ \E d \in OpenDigests(GroupOf[wk[w].add[1]]) :
                 \A i, j \in Digests : Into(j, i)' <=> Into(j, i) \/ (j = wk[w].add /\ i = d)
<1>1. /\ wk \in [Workers -> WorkerState] /\ wk[w] \in WorkerState /\ SlotOK(wk[w])
  BY DEF OnceInv, ChainInv, TypeInv, TypeOK, SlotsOK
<1>2. /\ wk[w].pc = "add" /\ wk[w].add \in Digests
      /\ status' = status /\ mergedInto' = mergedInto /\ events' = events /\ delivered' = delivered
  BY <1>1 DEF DecideMerge, Adding, SlotOK, Digests, IsDigest, db, history
<1>3. PICK d \in OpenDigests(GroupOf[wk[w].add[1]]) :
         wk' = [wk EXCEPT ![w].pc = "merge", ![w].hit = d, ![w].todo = wk[w].add[2]..NumSteps]
  BY DEF DecideMerge
<1> DEFINE q == [wk[w] EXCEPT !.pc = "merge", !.hit = d, !.todo = wk[w].add[2]..NumSteps]
<1>4. wk' = [wk EXCEPT ![w] = q] /\ q.pc = "merge" /\ q.add = wk[w].add /\ q.hit = d
  BY <1>1, <1>3 DEF WorkerState
<1> HIDE DEF q
<1>5. wk'[w] = q /\ \A v \in Workers : v # w => wk'[v] = wk[v]
  BY <1>1, <1>4
<1>6. ASSUME NEW i \in Digests, NEW j \in Digests
      PROVE  Into(j, i)' <=> Into(j, i) \/ (j = wk[w].add /\ i = d)
  BY <1>2, <1>4, <1>5 DEF Into, Merging
<1> QED
  BY <1>2, <1>5, <1>6 DEF Others

\* A slot step keeps what is stored and what is merged.
LEMMA SlotBasics ==
    ASSUME WindowFlow, OnceInv, NEW w \in Workers, SlotStep(w)
    PROVE  /\ Others(w) /\ StoredStays
           /\ DecideMerge(w) \/ SameInto
           /\ \A i, j \in Digests : Into(j, i) => Into(j, i)'
           /\ \A i, j \in Digests : Into(j, i)' =>
                 Into(j, i) \/ (DecideMerge(w) /\ j = wk[w].add /\ status[i] = "delayed")
<1>1. ~Crash(w)
  BY FlowFacts DEF Crash
<1>2. Steady(w) \/ FilterOut(w) \/ MarkCompleted(w)
  BY <1>1, FlowFacts, AddJobSteady, RunJobSteady, EnqueueLostSteady DEF SlotStep, OnceInv
<1>3. Others(w) /\ StoredStays
  BY <1>2, EndMoves DEF Steady, Moves, Keeps, Puts, Takes, Starts, OnceInv
<1>4. DecideMerge(w) \/ SameInto
  BY <1>1, FlowFacts, AddJobInto, RunJobInto, EnqueueLostInto DEF SlotStep, OnceInv, MergesStay
<1>5. CASE DecideMerge(w)
  <2>1. PICK d \in OpenDigests(GroupOf[wk[w].add[1]]) :
           \A i, j \in Digests : Into(j, i)' <=> Into(j, i) \/ (j = wk[w].add /\ i = d)
    BY <1>5, DecideMergePoints
  <2>2. status[d] = "delayed"
    BY DEF OpenDigests, WithStatus
  <2> QED
    BY <1>3, <1>5, <2>1, <2>2
<1>6. CASE SameInto
  BY <1>3, <1>6 DEF SameInto
<1> QED
  BY <1>4, <1>5, <1>6

\* What is on its way into a digest has been pointed to it.
LEMMA FlightInto ==
    ASSUME WindowFlow, MergesOK, NEW i, NEW j \in InFlight(i)
    PROVE  /\ j \in Digests /\ j = DigestJob(j[1]) /\ j[1] \in Notifs /\ Into(j, i)
           /\ \E w \in Workers : Joins(w, j[1]) /\ wk[w].hit = i
<1>1. j \in Digests /\ j = DigestJob(j[1]) /\ j[1] \in Notifs /\ j[2] = 2
  BY JobsOfFlow DEF InFlight, Digests
<1>2. PICK w \in Workers : /\ wk[w].pc = "merge" /\ wk[w].hit = i
                           /\ wk[w].add[1] = j[1] /\ j[2] \in wk[w].todo
  BY DEF InFlight
<1>3. wk[w].add = j
  <2>1. wk[w].add \in Digests
    BY <1>2 DEF MergesOK
  <2>2. wk[w].add = DigestJob(wk[w].add[1])
    BY <2>1, JobsOfFlow
  <2> QED
    BY <1>1, <1>2, <2>2
<1> QED
  BY <1>1, <1>2, <1>3 DEF Into, Merging, Joins, Merges

\* An event that was pointed to a digest has arrived there or is on its way.
LEMMA IntoFlight ==
    ASSUME WindowFlow, MergesOK, JoinsUnwritten, NEW i \in Digests, NEW j \in Digests, Into(j, i)
    PROVE  j \in Followers(i) <=> j \notin InFlight(i)
<1>1. j \in Jobs /\ IsDigest(j)
  BY DEF Digests
<1>2. ASSUME j \in Followers(i), j \in InFlight(i) PROVE FALSE
  <2>1. PICK w \in Workers : Joins(w, j[1])
    BY <1>2, FlightInto
  <2>2. status[j] = "merged" /\ j = DigestJob(j[1]) /\ j[1] \in Notifs
    BY <1>2, JobsOfFlow DEF Followers, WithStatus
  <2> QED
    BY <2>1, <2>2 DEF JoinsUnwritten
<1>3. ASSUME j \notin Followers(i) PROVE j \in InFlight(i)
  <2>1. PICK w \in Workers : Merging(w, j) /\ wk[w].hit = i
    BY <1>1, <1>3 DEF Into, Followers, WithStatus
  <2>2. status[j] # "merged"
    BY <1>1, <1>3, <2>1 DEF MergesOK, Merging, Followers, WithStatus
  <2>3. j[2] \in wk[w].todo
    BY <2>1, <2>2 DEF MergesOK, Merging
  <2> QED
    BY <1>1, <2>1, <2>3 DEF InFlight, Merging
<1> QED
  BY <1>2, <1>3

\* A batch that is full stays so, unless the digest is open.
LEMMA FullStays ==
    ASSUME WindowFlow, OnceInv, NEW w \in Workers, SlotStep(w), NEW n \in Notifs, NEW B,
           Full(n, B), status[DigestJob(n)] # "delayed"
    PROVE  Full(n, B)'
<1> PICK d : d = DigestJob(n)
  OBVIOUS
<1>1. /\ ChainInv /\ MergesOK /\ d \in Digests /\ Others(w) /\ AllMissed(d)
      /\ \A e \in Notifs : DigestJob(e) \in Digests
  BY SlotBasics, JobsOfFlow DEF OnceInv, Full
<1>2. \A e \in Notifs : Into(DigestJob(e), d)' => Into(DigestJob(e), d)
  BY <1>1, SlotBasics DEF DigestJob
<1>3. AllMissed(d)'
  BY <1>1, NoNewFollower
<1>4. ASSUME NEW e \in Notifs, Into(DigestJob(e), d), DigestJob(e) \in missed'
      PROVE  DigestJob(e) \in missed
  <2> SUFFICES ASSUME DigestJob(e) \notin missed PROVE FALSE
    OBVIOUS
  <2>1. ReadBatch(w) /\ DigestJob(e) \in InFlight(wk[w].cur)
    BY <1>4, MissedStays
  <2>2. Into(DigestJob(e), wk[w].cur)
    BY <1>1, <2>1, FlightInto
  <2>3. wk[w].cur = d
    BY <1>1, <1>4, <2>2, IntoOne
  <2> QED
    BY <1>1, <2>1, <2>3 DEF AllMissed
<1>5. \A e \in Notifs : DigestJob(e) \in missed => DigestJob(e) \in missed'
  BY MissedStays
<1> QED
  BY <1>2, <1>3, <1>4, <1>5 DEF Full, DigestJob

\* Who writes the status of a digest, and what.
LEMMA DigestStatus ==
    ASSUME WindowFlow, OnceInv, NEW w \in Workers, SlotStep(w), SlotWindow(wk[w]), NEW n \in Notifs
    PROVE  LET d == DigestJob(n)
           IN  \/ status'[d] = status[d]
               \/ ~Stored(n) /\ status'[d] = "pending"
               \/ Claim(w) /\ wk[w].add = d /\ status'[d] = "delayed"
               \/ Skip(w) /\ wk[w].add = d /\ status'[d] = "skipped"
               \/ MergeWrite(w) /\ wk[w].add = d /\ status'[d] = "merged"
               \/ MarkRunning(w) /\ wk[w].cur = d /\ status'[d] = "running"
               \/ MarkCompleted(w) /\ wk[w].cur = d /\ status'[d] = "completed"
<1> DEFINE d == DigestJob(n)
<1>1. /\ status \in [Jobs -> Statuses] /\ SlotOK(wk[w]) /\ SlotChain(wk[w])
      /\ d \in Jobs /\ d \in Digests /\ d[1] = n /\ d[2] = 2 /\ IsDigest(d)
      /\ \A k, s : status' = [status EXCEPT ![k] = s] =>
            IF k = d THEN status'[d] = s ELSE status'[d] = status[d]
  BY JobsOfFlow DEF OnceInv, ChainInv, TypeInv, TypeOK, SlotsOK, SlotsInChain
<1>2. CASE \E m \in Notifs : StoreJobs(w, m)
  <2>1. PICK m \in Notifs : StoreJobs(w, m)
    BY <1>2
  <2>2. CASE m = n
    BY <1>1, <2>1, <2>2 DEF StoreJobs, Stored
  <2>3. CASE m # n
    BY <1>1, <2>1, <2>3 DEF StoreJobs
  <2> QED
    BY <2>2, <2>3
<1>3. CASE AddPlain(w) \/ AddDelay(w) \/ AddDelayMisconfigured(w)
  <2>1. d # wk[w].add
    BY <1>1, <1>3 DEF AddPlain, AddDelay, AddDelayMisconfigured, Adding, IsAction, IsDigest
  <2> QED
    BY <1>1, <1>3, <2>1 DEF AddPlain, AddDelay, AddDelayMisconfigured, SetStatus
<1>4. CASE Claim(w) \/ Skip(w)
  BY <1>1, <1>4 DEF Claim, Skip, SetStatus
<1>5. CASE MergeWrite(w)
  <2>1. PICK s : status' = [status EXCEPT ![<<wk[w].add[1], s>>] = "merged"]
    BY <1>5 DEF MergeWrite
  <2>2. wk[w].add \in Digests
    BY <1>5 DEF MergeWrite, OnceInv, MergesOK
  <2>3. <<wk[w].add[1], s>> = d => wk[w].add = d
    BY <2>2, JobsOfFlow DEF DigestJob
  <2> QED
    BY <1>1, <1>5, <2>1, <2>3
<1>6. CASE MarkRunning(w) \/ MarkCompleted(w)
  BY <1>1, <1>6 DEF MarkRunning, MarkCompleted
<1>7. CASE FilterOut(w)
  <2>1. wk[w].cur # d
    BY <1>1, <1>7 DEF FilterOut, WindowFlow
  <2> QED
    BY <1>1, <1>7, <2>1 DEF FilterOut
<1>8. CASE HandleFailed(w)
  <2>1. wk[w].bull # d
    BY <1>1, <1>8 DEF HandleFailed, At, SlotWindow, Failing
  <2> QED
    BY <1>1, <1>8, <2>1 DEF HandleFailed
<1>9. CASE status' = status
  BY <1>9
<1> QED
  BY <1>2, <1>3, <1>4, <1>5, <1>6, <1>7, <1>8, <1>9
     DEF SlotStep, AddJobStep, AddThrows, DigestFiltered, DecideSkip, DecideCreate, DecideMerge,
         Enqueue, db, RunJobStep, Receive, FindFollower, NoFollower, SendNothing, Deliver,
         ReadBatch, WriteBatch, SendThrows, DeliverThrows, QueueNext, Reject, EnqueueLost, Crash

-----------------------------------------------------------------------------
(* The invariant is kept.                                                   *)

\* Before its digest is scheduled nothing has been written to it, nothing was merged into
\* it and it was not merged.
LEMMA BeforeDigest ==
    ASSUME WindowFlow, WindowInv, NEW w \in Workers, NEW n \in Notifs,
           wk[w].pc \in {"add", "skip", "claim"}, wk[w].add = DigestJob(n)
    PROVE  /\ status[DigestJob(n)] \in {"pending", "canceled"} /\ Stored(n)
           /\ \A m \in Notifs : ~Into(DigestJob(n), DigestJob(m)) /\ ~Into(DigestJob(m), DigestJob(n))
           /\ events[MessageJob(n)] = {}
<1>1. /\ OnceInv /\ ChainInv /\ StopInv /\ MergesOK /\ MergedIsOver
      /\ wk[w].pc \in Sched /\ DigestJob(n)[1] = n /\ DigestJob(n)[2] = 2
      /\ \A m \in Notifs : DigestJob(m) \in Digests
  BY JobsOfFlow DEF WindowInv, OnceInv, Sched
<1>2. Has(wk[w], n)
  BY <1>1, JobOfSched DEF Has
<1>3. Stored(n) /\ Token(n, 3) /\ \A v \in Workers : Has(wk[v], n) => v = w
  BY <1>1, <1>2, OnlyToken, PosValues
<1>4. \A v \in Workers : ~(wk[v].pc = "merge" /\ wk[v].add[1] = n)
  BY <1>3, JobOfSched DEF Has, Sched
<1>5. status[DigestJob(n)] \in {"pending", "canceled"}
  BY <1>1, <1>3, <1>4, FlowFacts DEF StopInv, Untouched, DigestJob
<1>6. /\ \A m \in Notifs : ~Into(DigestJob(m), DigestJob(n))
      /\ events[MessageJob(n)] = {}
  BY <1>1, <1>3, FlowFacts DEF OnceInv, NotYetOpen, MessageJob
<1>7. \A m \in Notifs : ~Into(DigestJob(n), DigestJob(m))
  BY <1>1, <1>2, HolderNotMerged DEF Merging
<1> QED
  BY <1>3, <1>5, <1>6, <1>7

\* While a digest runs it is begun, and its notification is nowhere past it.
LEMMA DuringDigest ==
    ASSUME WindowFlow, WindowInv, NEW w \in Workers, NEW n \in Notifs,
           wk[w].pc \in {"mark", "send", "digest", "complete"}, wk[w].cur = DigestJob(n)
    PROVE  /\ status[DigestJob(n)] \in Begun /\ status[DigestJob(n)] \in Current
           /\ Stored(n) /\ ~AtMessage(n)
<1>1. ChainInv /\ wk[w].pc \in Running /\ DigestJob(n)[1] = n /\ MessageJob(n)[1] = n
      /\ MessageJob(n) \in Jobs /\ MessageJob(n) # DigestJob(n)
  BY JobsOfFlow DEF WindowInv, OnceInv, Running
<1>2. Has(wk[w], n)
  BY <1>1, JobOfRunning DEF Has
<1>3. NoDelivery(n) /\ \A v \in Workers : Has(wk[v], n) => v = w
  BY <1>1, <1>2, OnlyToken
<1>4. AtDigest(n)
  BY DEF AtDigest, Digesting
<1>5. ~Waits(MessageJob(n))
  BY <1>1, <1>3 DEF NoDelivery, Waits
<1>6. \A v \in Workers : ~Messaging(wk[v], n)
  <2> SUFFICES ASSUME NEW v \in Workers, Messaging(wk[v], n) PROVE FALSE
    OBVIOUS
  <2>1. Has(wk[v], n)
    BY <1>1, JobOfRunning DEF Messaging, Has, Running
  <2>2. v = w
    BY <1>3, <2>1
  <2> QED
    BY <1>1, <2>2, RunningSlot
<1> QED
  BY <1>4, <1>5, <1>6 DEF AtMessage, WindowInv, Placed, Current, Begun

\* Nobody has read the events of a digest that a slot is going to read, and none of them
\* has been missed.
LEMMA BeforeRead ==
    ASSUME WindowFlow, WindowInv, NEW w \in Workers, ReadBatch(w), NEW n, n = wk[w].cur[1]
    PROVE  /\ n \in Notifs /\ wk[w].cur = DigestJob(n) /\ status[DigestJob(n)] = "running"
           /\ \A m \in Notifs : ~Into(DigestJob(n), DigestJob(m))
           /\ \A j \in Digests : Into(j, DigestJob(n)) => j \notin missed
<1>1. /\ wk[w].pc = "send" /\ IsDigest(wk[w].cur) /\ wk[w].cur \in Jobs
      /\ OnceInv /\ ChainInv /\ MergesOK
  BY DEF ReadBatch, At, WindowInv, OnceInv, ChainInv, TypeInv, SlotsOK, SlotOK
<1>2. n \in Notifs /\ wk[w].cur = DigestJob(n) /\ wk[w].cur \in Digests /\ DigestJob(n)[1] = n
  BY <1>1, JobsOfFlow
<1>3. status[DigestJob(n)] \in Current /\ status[DigestJob(n)] \in Begun
  BY <1>1, <1>2, DuringDigest
<1>4. status[DigestJob(n)] = "running"
  BY <1>1, <1>2, <1>3 DEF Current, WindowInv, BatchInv
<1>5. ~HasRead(DigestJob(n))
  <2> SUFFICES ASSUME NEW v \in Workers, wk[v].pc \in {"digest", "complete"},
                      wk[v].cur = DigestJob(n)
               PROVE  FALSE
    BY <1>4 DEF HasRead
  <2>1. Has(wk[v], n) /\ Has(wk[w], n)
    BY <1>1, <1>2, JobOfRunning DEF Has, Running
  <2>2. v = w
    BY <1>1, <1>2, <2>1, OnlyToken
  <2> QED
    BY <1>1, <2>2
<1>6. ASSUME NEW j \in Digests, Into(j, DigestJob(n)), j \in missed PROVE FALSE
  <2>1. PICK i \in Digests : Into(j, i) /\ HasRead(i)
    BY <1>6 DEF WindowInv, MissedByReader
  <2>2. i = DigestJob(n)
    BY <1>1, <1>6, <2>1, IntoOne
  <2> QED
    BY <1>5, <2>1, <2>2
<1> QED
  BY <1>2, <1>3, <1>4, <1>6 DEF WindowInv, Placed

\* What a digest reads are its events but those that are missed.
LEMMA ReadFills ==
    ASSUME WindowFlow, WindowInv, NEW w \in Workers, SlotStep(w), ReadBatch(w),
           NEW n, NEW B, n = wk[w].cur[1], B = DigestEvents(wk[w].cur)
    PROVE  Full(n, B)'
<1>1. /\ n \in Notifs /\ wk[w].cur = DigestJob(n) /\ status[DigestJob(n)] = "running"
      /\ \A m \in Notifs : ~Into(DigestJob(n), DigestJob(m))
      /\ \A j \in Digests : Into(j, DigestJob(n)) => j \notin missed
  BY BeforeRead
<1> PICK d : d = DigestJob(n)
  OBVIOUS
<1>2. /\ OnceInv /\ ChainInv /\ MergesOK /\ JoinsUnwritten /\ Others(w)
      /\ d \in Digests /\ d[1] = n /\ \A e \in Notifs : DigestJob(e) \in Digests
  <2>1. OnceInv /\ ChainInv /\ MergesOK /\ JoinsUnwritten
    BY DEF WindowInv, OnceInv
  <2> QED
    BY <1>1, <2>1, SlotBasics, JobsOfFlow
<1>3. missed' = missed \cup InFlight(d)
  BY <1>1 DEF ReadBatch
<1>4. AllMissed(d)'
  <2>1. InFlight(d)' \subseteq InFlight(d)
    BY <1>1, <1>2, NoNewMerge
  <2> QED
    BY <1>3, <2>1 DEF AllMissed
<1>5. ASSUME NEW e \in Notifs, Into(DigestJob(e), d)'
      PROVE  e \in B <=> DigestJob(e) \notin missed'
  <2>1. Into(DigestJob(e), d)
    BY <1>1, <1>2, <1>5, SlotBasics DEF DigestJob
  <2>2. DigestJob(e) \notin missed' <=> DigestJob(e) \in Followers(d)
    BY <1>1, <1>2, <1>3, <2>1, IntoFlight
  <2>3. e # n
    BY <1>1, <2>1
  <2>4. e \in B <=> \E f \in Followers(d) : f[1] = e
    BY <1>1, <1>2, <2>3 DEF DigestEvents
  <2>5. \A f \in Followers(d) : f = DigestJob(f[1])
    BY JobsOfFlow DEF Followers, WithStatus
  <2>6. DigestJob(e)[1] = e
    BY JobsOfFlow
  <2> QED
    BY <2>2, <2>4, <2>5, <2>6
<1>6. n \in B
  BY DEF DigestEvents
<1> QED
  BY <1>4, <1>5, <1>6 DEF Full, DigestJob

\* The events of a digest are written to the message with all that it has collected.
LEMMA WriteBatchFills ==
    ASSUME WindowFlow, WindowInv, NEW w \in Workers, WriteBatch(w)
    PROVE  /\ wk[w].cur \in Digests /\ wk[w].cur[1] \in Notifs
           /\ wk[w].cur = DigestJob(wk[w].cur[1])
           /\ status[wk[w].cur] # "delayed"
           /\ Full(wk[w].cur[1], wk[w].batch)
           /\ events'[MessageJob(wk[w].cur[1])] = wk[w].batch
           /\ \A n \in Notifs : n # wk[w].cur[1] => events'[MessageJob(n)] = events[MessageJob(n)]
<1> PICK n : n = wk[w].cur[1]
  OBVIOUS
<1>1. wk[w].pc = "digest" /\ OnceInv /\ ChainInv /\ MergesOK /\ BatchInv /\ StopInv
  BY DEF WriteBatch, At, WindowInv, OnceInv
<1>2. wk[w].cur \in Digests /\ status[wk[w].cur] # "delayed"
  BY <1>1 DEF BatchInv
<1>3. n \in Notifs /\ wk[w].cur = DigestJob(n)
  BY <1>2, JobsOfFlow
<1>4. Full(n, wk[w].batch)
  BY <1>1 DEF WindowInv, SlotWindow
<1>5. status[MessageJob(n)] \notin {"completed", "failed"}
  <2>1. wk[w].pc \in Running /\ DigestJob(n)[1] = n /\ DigestJob(n)[2] = 2
    BY <1>1, <1>3, JobsOfFlow DEF Running
  <2>2. Has(wk[w], n)
    BY <1>3, <2>1, JobOfRunning DEF Has
  <2>3. Stored(n) /\ Token(n, 4) /\ \A v \in Workers : Has(wk[v], n) => v = w
    <3>1. Pos(wk[w]) = 4
      <4>1. wk[w].cur[2] = 2 /\ wk[w].pc \in {"mark", "send", "digest"}
        BY <1>1, <1>3, <2>1
      <4>2. Pos(wk[w]) = 2 * wk[w].cur[2]
        BY <4>1, PosValues
      <4> QED
        BY <4>1, <4>2
    <3> QED
      BY <1>1, <1>3, <2>2, <3>1, OnlyToken
  <2>4. \A v \in Workers : ~(wk[v].pc = "merge" /\ wk[v].add[1] = n)
    BY <1>1, <2>3, JobOfSched DEF Has, Sched
  <2> QED
    BY <1>1, <1>3, <2>3, <2>4, FlowFacts DEF StopInv, Untouched, MessageJob
<1>6. MessageJob(n) \in ToUpdate(wk[w].cur)
  BY <1>3, <1>5, JobsOfFlow DEF ToUpdate
<1>7. \A m \in Notifs : m # n => MessageJob(m) \notin ToUpdate(wk[w].cur)
  BY <1>3, JobsOfFlow DEF ToUpdate
<1>8. \A m \in Notifs : MessageJob(m) \in Jobs
  BY JobsOfFlow
<1> QED
  BY <1>2, <1>3, <1>4, <1>6, <1>7, <1>8 DEF WriteBatch

\* What the message of n carries changes only there.
LEMMA EventsKept ==
    ASSUME WindowFlow, WindowInv, NEW w \in Workers, SlotStep(w), NEW n \in Notifs
    PROVE  \/ Carries(MessageJob(n))' = Carries(MessageJob(n))
           \/ /\ WriteBatch(w) /\ wk[w].cur = DigestJob(n)
              /\ Carries(MessageJob(n))' = wk[w].batch /\ Full(n, wk[w].batch)
<1>1. Carries(MessageJob(n))' =
         IF events'[MessageJob(n)] = {} THEN {MessageJob(n)[1]} ELSE events'[MessageJob(n)]
  BY DEF Carries, MessageJob
<1>2. CASE events'[MessageJob(n)] = events[MessageJob(n)]
  BY <1>1, <1>2 DEF Carries
<1>3. CASE events'[MessageJob(n)] # events[MessageJob(n)]
  <2>1. WriteBatch(w)
    BY <1>3, DigestWrites, JobsOfFlow DEF WindowInv, OnceInv
  <2>2. n = wk[w].cur[1]
    BY <1>3, <2>1, WriteBatchFills
  <2>3. Full(n, wk[w].batch) /\ events'[MessageJob(n)] = wk[w].batch /\ wk[w].cur = DigestJob(n)
    BY <2>1, <2>2, WriteBatchFills
  <2>4. wk[w].batch # {}
    BY <2>3 DEF Full
  <2> QED
    BY <1>1, <2>1, <2>3, <2>4
<1> QED
  BY <1>2, <1>3

LEMMA CarriesStaysFull ==
    ASSUME WindowFlow, WindowInv, NEW w \in Workers, SlotStep(w), NEW n \in Notifs,
           Full(n, Carries(MessageJob(n))), status[DigestJob(n)] # "delayed"
    PROVE  Full(n, Carries(MessageJob(n)))'
<1> PICK B : B = Carries(MessageJob(n))'
  OBVIOUS
<1>1. Full(n, B)
  BY EventsKept
<1>2. Full(n, B)'
  BY <1>1, FullStays DEF WindowInv
<1> QED
  BY <1>2 DEF Full, DigestJob

\* What a slot has carried to a message stays full.
LEMMA SlotWindowKept ==
    ASSUME WindowFlow, WindowInv, NEW w \in Workers, SlotStep(w), NEW v \in Workers, v # w
    PROVE  SlotWindow(wk[v])'
<1> PICK q : q = wk[v]
  OBVIOUS
<1>1. wk'[v] = q /\ SlotWindow(q) /\ SlotOK(q) /\ OnceInv
  BY SlotBasics DEF WindowInv, OnceInv, ChainInv, TypeInv, SlotsOK, Others
<1>2. ASSUME q.pc = "complete", q.cur[2] = 2
      PROVE  Full(q.cur[1], Carries(MessageJob(q.cur[1])))'
  <2>1. q.cur \in Digests /\ q.cur[1] \in Notifs /\ q.cur = DigestJob(q.cur[1])
    BY <1>1, <1>2, JobsOfFlow DEF SlotOK
  <2>2. status[q.cur] # "delayed" /\ Full(q.cur[1], Carries(MessageJob(q.cur[1])))
    BY <1>1, <1>2, <2>1 DEF WindowInv, BatchInv, SlotWindow
  <2> QED
    BY <2>1, <2>2, CarriesStaysFull
<1>3. ASSUME q.pc \in {"mark", "send"}, q.cur[2] = 3 PROVE Full(q.cur[1], q.batch)'
  <2>1. q.cur[1] \in Notifs /\ q.cur = MessageJob(q.cur[1])
    BY <1>1, <1>3, JobsOfFlow DEF SlotOK
  <2>2. Messaging(q, q.cur[1])
    BY <1>3, <2>1, RunningSlot DEF Running
  <2>3. status[DigestJob(q.cur[1])] # "delayed"
    BY <2>1, <2>2 DEF WindowInv, Placed, AtMessage
  <2>4. Full(q.cur[1], q.batch)
    BY <1>1, <1>3 DEF SlotWindow
  <2> QED
    BY <1>1, <2>1, <2>3, <2>4, FullStays
<1>4. /\ q.pc = "skip" => Backoff
      /\ q.pc \in Failing => q.bull[2] # 2
  BY <1>1 DEF SlotWindow
<1>5. ASSUME q.pc = "digest" PROVE Full(q.cur[1], q.batch)'
  <2>1. q.cur \in Digests /\ status[q.cur] # "delayed" /\ Full(q.cur[1], q.batch)
    BY <1>1, <1>5 DEF WindowInv, BatchInv, SlotWindow
  <2>2. q.cur[1] \in Notifs /\ q.cur = DigestJob(q.cur[1])
    BY <2>1, JobsOfFlow
  <2> QED
    BY <1>1, <2>1, <2>2, FullStays
<1> QED
  BY <1>1, <1>2, <1>3, <1>4, <1>5 DEF SlotWindow

\* So does what the slot has learned.
LEMMA SlotWindowLearned ==
    ASSUME WindowFlow, WindowInv, TypeInv', NEW w \in Workers, SlotStep(w)
    PROVE  SlotWindow(wk[w])'
<1> PICK q : q = wk'[w]
  OBVIOUS
<1>1. Learns(w) /\ SlotOK(q) /\ OnceInv /\ SlotOK(wk[w])
  BY SlotPlaces DEF WindowInv, OnceInv, ChainInv, TypeInv, SlotsOK, SlotOK
<1>2. ASSUME q.pc = "complete", q.cur[2] = 2
      PROVE  Full(q.cur[1], Carries(MessageJob(q.cur[1])))'
  <2>1. WriteBatch(w) /\ q.cur = wk[w].cur
    BY <1>1, <1>2 DEF Learns
  <2> PICK n, B : n = q.cur[1] /\ B = wk[w].batch
    OBVIOUS
  <2>2. n \in Notifs /\ Full(n, B) /\ status[DigestJob(n)] # "delayed"
        /\ events'[MessageJob(n)] = B /\ B # {}
    BY <2>1, WriteBatchFills DEF Full
  <2>3. Full(n, B)'
    BY <1>1, <2>2, FullStays
  <2>4. Carries(MessageJob(n))' = B
    BY <2>2 DEF Carries, MessageJob
  <2> QED
    BY <2>3, <2>4 DEF Full, DigestJob
<1>3. ASSUME q.pc \in {"mark", "send"}, q.cur[2] = 3 PROVE Full(q.cur[1], q.batch)'
  <2>1. q.cur[1] \in Notifs /\ q.cur = MessageJob(q.cur[1])
    BY <1>1, <1>3, JobsOfFlow DEF SlotOK
  <2>2. \/ wk[w].pc = "mark" /\ q.cur = wk[w].cur /\ q.batch = wk[w].batch
        \/ Waits(q.cur) /\ q.batch = Carries(q.cur)
    BY <1>1, <1>3 DEF Learns
  <2>3. AtMessage(q.cur[1])
    BY <2>1, <2>2, RunningSlot DEF Running, AtMessage
  <2>4. status[DigestJob(q.cur[1])] \in {"completed", "skipped"}
        /\ Full(q.cur[1], Carries(MessageJob(q.cur[1])))
    BY <2>1, <2>3 DEF WindowInv, Placed
  <2>5. Full(q.cur[1], q.batch)
    BY <1>3, <2>1, <2>2, <2>4 DEF WindowInv, SlotWindow
  <2> QED
    BY <1>1, <2>1, <2>4, <2>5, FullStays
<1>4. ASSUME q.pc = "digest" PROVE Full(q.cur[1], q.batch)'
  <2>1. ReadBatch(w) /\ q.cur = wk[w].cur /\ q.batch = DigestEvents(wk[w].cur)
    BY <1>1, <1>4 DEF Learns
  <2> QED
    BY <2>1, ReadFills
<1> QED
  BY <1>1, <1>2, <1>3, <1>4 DEF SlotWindow, Learns

\* A digest that is begun was not merged, and its notification is stored.
LEMMA BegunKept ==
    ASSUME WindowFlow, WindowInv, NEW w \in Workers, SlotStep(w), NEW n \in Notifs,
           status'[DigestJob(n)] \in Begun
    PROVE  Stored(n)' /\ \A m \in Notifs : ~Into(DigestJob(n), DigestJob(m))'
<1> DEFINE d == DigestJob(n)
<1>1. OnceInv /\ SlotWindow(wk[w]) /\ Placed(n)
  BY DEF WindowInv
<1>2. status[d] \in Begun \/ (wk[w].pc \in {"skip", "claim"} /\ wk[w].add = d)
  <2>1. CASE MarkRunning(w) /\ wk[w].cur = d
    BY <2>1, DuringDigest DEF MarkRunning, At
  <2>2. CASE MarkCompleted(w) /\ wk[w].cur = d
    BY <2>2, DuringDigest DEF MarkCompleted, At
  <2> QED
    BY <1>1, <2>1, <2>2, DigestStatus DEF Begun, Claim, Skip
<1>3. Stored(n) /\ \A m \in Notifs : ~Into(d, DigestJob(m))
  BY <1>1, <1>2, BeforeDigest DEF Placed
<1>4. ~(DecideMerge(w) /\ wk[w].add = d)
  <2> SUFFICES ASSUME DecideMerge(w), wk[w].add = d PROVE FALSE
    OBVIOUS
  <2>1. wk[w].pc = "add" /\ status' = status
    BY <1>1, DecideMergePoints
  <2>2. status[d] \in {"pending", "canceled"}
    BY <2>1, BeforeDigest
  <2> QED
    BY <2>1, <2>2 DEF Begun
<1>5. \A m \in Notifs : DigestJob(m) \in Digests
  BY JobsOfFlow
<1>6. \A i, j \in Digests : Into(j, i)' =>
         Into(j, i) \/ (DecideMerge(w) /\ j = wk[w].add /\ status[i] = "delayed")
  BY <1>1, SlotBasics
<1>7. \A m \in Notifs : ~Into(d, DigestJob(m))'
  BY <1>3, <1>4, <1>5, <1>6 DEF DigestJob
<1> QED
  BY <1>1, <1>3, <1>7, SlotBasics DEF StoredStays

\* While it is begun it stays so.
LEMMA BegunStays ==
    ASSUME WindowFlow, WindowInv, NEW w \in Workers, SlotStep(w), NEW n \in Notifs,
           status[DigestJob(n)] \in Begun
    PROVE  /\ status'[DigestJob(n)] \in Begun
           /\ \/ status'[DigestJob(n)] = status[DigestJob(n)]
              \/ MarkRunning(w) /\ wk[w].cur = DigestJob(n) /\ status'[DigestJob(n)] = "running"
              \/ MarkCompleted(w) /\ wk[w].cur = DigestJob(n) /\ status'[DigestJob(n)] = "completed"
<1> DEFINE d == DigestJob(n)
<1>1. OnceInv /\ SlotWindow(wk[w]) /\ Placed(n) /\ d \in Digests
  BY JobsOfFlow DEF WindowInv
<1>2. Stored(n) /\ \A m \in Notifs : ~Into(d, DigestJob(m))
  BY <1>1 DEF Placed
<1>3. ~(Claim(w) /\ wk[w].add = d) /\ ~(Skip(w) /\ wk[w].add = d)
  BY BeforeDigest DEF Claim, Skip, Begun
<1>4. ~(MergeWrite(w) /\ wk[w].add = d)
  <2> SUFFICES ASSUME MergeWrite(w), wk[w].add = d PROVE FALSE
    OBVIOUS
  <2>1. Merging(w, d) /\ wk[w].hit \in Digests
    BY <1>1 DEF MergeWrite, Merging, OnceInv, MergesOK
  <2>2. Into(d, wk[w].hit)
    BY <2>1 DEF Into
  <2> QED
    BY <1>2, <2>1, <2>2, JobsOfFlow
<1> QED
  BY <1>1, <1>2, <1>3, <1>4, DigestStatus DEF Begun

\* When a digest is over nothing is left of its run.
LEMMA LeavesDigest ==
    ASSUME WindowFlow, OnceInv, NEW w \in Workers, NEW n \in Notifs, MarkCompleted(w),
           wk[w].cur = DigestJob(n)
    PROVE  ~AtDigest(n)'
<1>1. /\ wk[w].pc = "complete" /\ waiting' = waiting /\ ChainInv /\ wk[w] \in WorkerState
      /\ wk \in [Workers -> WorkerState] /\ DigestJob(n) \in Jobs /\ DigestJob(n)[1] = n
      /\ wk' = [wk EXCEPT ![w].pc = "next"]
  BY JobsOfFlow DEF MarkCompleted, At, OnceInv, ChainInv, TypeInv, TypeOK
<1>2. Has(wk[w], n)
  BY <1>1, JobOfRunning DEF Has, Running
<1>3. NoDelivery(n) /\ \A v \in Workers : Has(wk[v], n) => v = w
  BY <1>1, <1>2, OnlyToken
<1>4. ~Waits(DigestJob(n))'
  BY <1>1, <1>3 DEF NoDelivery, Waits, DigestJob
<1>5. ASSUME NEW v \in Workers PROVE ~Digesting(wk'[v], n)
  <2>1. CASE v = w
    BY <1>1, <2>1 DEF Digesting, WorkerState
  <2>2. CASE v # w
    <3>1. wk'[v] = wk[v]
      BY <1>1, <2>2
    <3>2. Digesting(wk[v], n) => Has(wk[v], n)
      BY <1>1, JobOfRunning, JobOfSched DEF Digesting, Has, Running, Sched
    <3> QED
      BY <1>3, <2>2, <3>1, <3>2
  <2> QED
    BY <2>1, <2>2
<1> QED
  BY <1>4, <1>5 DEF AtDigest, Digesting, DigestJob

\* The steps that follow a merge that has begun, and the reading of the events.
LEMMA OneWayOn ==
    ASSUME WindowFlow, NEW w \in Workers, SlotStep(w)
    PROVE  /\ wk[w].pc = "merge" => MergeWrite(w)
           /\ wk[w].pc = "digest" => WriteBatch(w)
           /\ wk[w].pc = "complete" => MarkCompleted(w)
<1>1. ~Crash(w)
  BY FlowFacts DEF Crash
<1>2. /\ \A n \in Notifs : StoreJobs(w, n) => wk[w].pc = "idle"
      /\ \A j \in Jobs, a \in 0..MaxStarts : Receive(w, j, a) => wk[w].pc = "idle"
  <2>1. wk[w] = Idle => wk[w].pc = "idle"
    BY DEF Idle
  <2>2. \A n \in Notifs : StoreJobs(w, n) => wk[w] = Idle
    BY DEF StoreJobs
  <2>3. \A j \in Jobs, a \in 0..MaxStarts : Receive(w, j, a) => wk[w] = Idle
    BY DEF Receive
  <2> QED
    BY <2>1, <2>2, <2>3
<1>3. /\ AddPlain(w) \/ AddDelay(w) \/ AddDelayMisconfigured(w) \/ AddThrows(w) => wk[w].pc = "add"
      /\ DigestFiltered(w) \/ DecideSkip(w) \/ DecideCreate(w) \/ DecideMerge(w) => wk[w].pc = "add"
      /\ Claim(w) => wk[w].pc = "claim"
      /\ MergeWrite(w) => wk[w].pc = "merge"
      /\ Skip(w) => wk[w].pc = "skip"
      /\ Enqueue(w) \/ EnqueueLost(w) => wk[w].pc = "enqueue"
  BY DEF AddPlain, AddDelay, AddDelayMisconfigured, AddThrows, DigestFiltered, DecideSkip,
         DecideCreate, DecideMerge, Adding, Claim, MergeWrite, Skip, Enqueue, EnqueueLost
<1>4. /\ FindFollower(w) \/ NoFollower(w) => wk[w].pc = "follow"
      /\ MarkRunning(w) => wk[w].pc = "mark"
      /\ SendNothing(w) \/ Deliver(w) \/ ReadBatch(w) \/ FilterOut(w) => wk[w].pc = "send"
      /\ SendThrows(w) \/ DeliverThrows(w) => wk[w].pc = "send"
      /\ WriteBatch(w) => wk[w].pc = "digest"
      /\ MarkCompleted(w) => wk[w].pc = "complete"
      /\ QueueNext(w) => wk[w].pc = "next"
      /\ Reject(w) => wk[w].pc = "reject"
      /\ HandleFailed(w) => wk[w].pc = "failed"
  BY DEF FindFollower, NoFollower, MarkRunning, SendNothing, Deliver, ReadBatch, FilterOut,
         SendThrows, DeliverThrows, WriteBatch, MarkCompleted, QueueNext, Reject, HandleFailed, At
<1>5. AddJobStep(w) => MergeWrite(w) \/ wk[w].pc \in {"idle", "add", "claim", "skip", "enqueue"}
  BY <1>2, <1>3 DEF AddJobStep
<1>6. RunJobStep(w) => \/ WriteBatch(w) \/ MarkCompleted(w)
                       \/ wk[w].pc \in {"idle", "follow", "mark", "send", "next", "reject", "failed"}
  BY <1>2, <1>4 DEF RunJobStep
<1> QED
  BY <1>1, <1>3, <1>4, <1>5, <1>6 DEF SlotStep

\* Once the events of a digest have been read they have been read for good.
LEMMA HasReadStays ==
    ASSUME WindowFlow, WindowInv, NEW w \in Workers, SlotStep(w), NEW i \in Digests, HasRead(i)
    PROVE  HasRead(i)'
<1>1. /\ wk \in [Workers -> WorkerState] /\ wk[w] \in WorkerState /\ Others(w) /\ i \in Jobs
      /\ status \in [Jobs -> Statuses]
  BY SlotBasics DEF WindowInv, OnceInv, ChainInv, TypeInv, TypeOK, Digests
<1> PICK n \in Notifs : i = DigestJob(n)
  BY JobsOfFlow
<1>2. CASE status[i] = "completed"
  <2>1. ~(MarkRunning(w) /\ wk[w].cur = i)
    BY <1>2, DuringDigest DEF MarkRunning, At, Current
  <2> QED
    BY <1>2, <2>1, BegunStays DEF Begun, HasRead
<1>3. ASSUME NEW v \in Workers, wk[v].pc \in {"digest", "complete"}, wk[v].cur = i
      PROVE  HasRead(i)'
  <2>1. CASE v # w
    BY <1>1, <1>3, <2>1 DEF Others, HasRead
  <2>2. CASE v = w /\ wk[w].pc = "digest"
    <3>1. WriteBatch(w)
      BY <2>2, OneWayOn
    <3>2. wk'[w].pc = "complete" /\ wk'[w].cur = i
      BY <1>1, <1>3, <2>2, <3>1 DEF WriteBatch, WorkerState
    <3> QED
      BY <3>2 DEF HasRead
  <2>3. CASE v = w /\ wk[w].pc = "complete"
    <3>1. MarkCompleted(w)
      BY <2>3, OneWayOn
    <3>2. status'[i] = "completed"
      BY <1>1, <1>3, <2>3, <3>1 DEF MarkCompleted
    <3> QED
      BY <3>2 DEF HasRead
  <2> QED
    BY <1>3, <2>1, <2>2, <2>3
<1> QED
  BY <1>2, <1>3 DEF HasRead

LEMMA MissedKept ==
    ASSUME WindowFlow, WindowInv, NEW w \in Workers, SlotStep(w)
    PROVE  MissedByReader'
<1>1. /\ wk \in [Workers -> WorkerState] /\ wk[w] \in WorkerState /\ OnceInv /\ MergesOK
      /\ Digests' = Digests
  BY DEF WindowInv, OnceInv, ChainInv, TypeInv, TypeOK, Digests, IsDigest, TypeOf
<1>2. ASSUME NEW j \in missed
      PROVE  j \in Digests /\ \E i \in Digests : Into(j, i)' /\ HasRead(i)'
  <2>1. PICK i \in Digests : j \in Digests /\ Into(j, i) /\ HasRead(i)
    BY DEF WindowInv, MissedByReader
  <2> QED
    BY <1>1, <2>1, HasReadStays, SlotBasics
<1>3. ASSUME NEW j \in missed', j \notin missed
      PROVE  j \in Digests /\ \E i \in Digests : Into(j, i)' /\ HasRead(i)'
  <2>1. ReadBatch(w) /\ j \in InFlight(wk[w].cur)
    BY <1>3, MissedStays
  <2> PICK i : i = wk[w].cur
    OBVIOUS
  <2>2. i \in Digests
    BY <2>1, BeforeRead, JobsOfFlow
  <2>3. j \in Digests /\ Into(j, i)
    BY <1>1, <2>1, FlightInto
  <2>4. wk'[w].pc = "digest" /\ wk'[w].cur = i
    BY <1>1, <2>1 DEF ReadBatch, WorkerState
  <2>5. HasRead(i)'
    BY <2>4 DEF HasRead
  <2>6. Into(j, i)'
    BY <1>1, <2>2, <2>3, SlotBasics
  <2> QED
    BY <2>2, <2>3, <2>5, <2>6
<1> QED
  BY <1>1, <1>2, <1>3 DEF MissedByReader

LEMMA JoinsKept ==
    ASSUME WindowFlow, WindowInv, NEW w \in Workers, SlotStep(w)
    PROVE  JoinsUnwritten'
<1> SUFFICES ASSUME NEW v \in Workers, NEW n \in Notifs, wk'[v].pc = "merge",
                    wk'[v].add = DigestJob(n), 2 \in wk'[v].todo
             PROVE  status'[DigestJob(n)] # "merged"
  BY DEF JoinsUnwritten, Joins, Merges, DigestJob
<1> DEFINE d == DigestJob(n)
<1>1. /\ wk \in [Workers -> WorkerState] /\ wk[w] \in WorkerState /\ Others(w)
      /\ OnceInv /\ ChainInv /\ SlotWindow(wk[w]) /\ status \in [Jobs -> Statuses]
      /\ d \in Digests /\ d \in Jobs /\ d[1] = n /\ d = <<n, 2>>
  BY SlotBasics, JobsOfFlow DEF WindowInv, OnceInv, ChainInv, TypeInv, TypeOK, DigestJob
<1>2. CASE v # w
  <2>1. wk[v].pc = "merge" /\ wk[v].add = d /\ status[d] # "merged"
    BY <1>1, <1>2 DEF Others, WindowInv, JoinsUnwritten, Joins, Merges
  <2>2. Has(wk[v], n)
    BY <1>1, <2>1, MergerHas DEF Merging
  <2>3. \A u \in Workers : Has(wk[u], n) => u = v
    BY <1>1, <2>2, OnlyToken
  <2>4. ~(MergeWrite(w) /\ wk[w].add = d)
    <3> SUFFICES ASSUME MergeWrite(w), wk[w].add = d PROVE FALSE
      OBVIOUS
    <3>1. Has(wk[w], n)
      BY <1>1, MergerHas DEF Merging, MergeWrite
    <3> QED
      BY <1>2, <2>3, <3>1
  <2> QED
    BY <1>1, <2>1, <2>4, DigestStatus
<1>3. CASE v = w /\ DecideMerge(w)
  <2>1. wk[w].pc = "add" /\ wk'[w].add = wk[w].add /\ status' = status
    BY <1>1, <1>3 DEF DecideMerge, Adding, WorkerState, db
  <2>2. status[d] \in {"pending", "canceled"}
    BY <1>3, <2>1, BeforeDigest
  <2> QED
    BY <2>1, <2>2
<1>4. CASE v = w /\ MergeWrite(w)
  <2>1. PICK s \in wk[w].todo :
            /\ status' = [status EXCEPT ![<<wk[w].add[1], s>>] = "merged"]
            /\ IF wk[w].todo = {s} THEN Merged(w) ELSE wk' = [wk EXCEPT ![w].todo = @ \ {s}]
    BY <1>4 DEF MergeWrite
  <2>2. wk[w].pc = "merge" /\ wk[w].pc \in Sched
    BY <1>4 DEF MergeWrite, Sched
  <2>3. ~Return(w, "none")
    BY <1>1, <1>4, <2>2, ReturnPC
  <2>4. wk' = [wk EXCEPT ![w].todo = @ \ {s}]
    BY <2>1, <2>3 DEF Merged
  <2>5. wk[w].add = d /\ 2 \in wk[w].todo /\ s # 2
    BY <1>1, <1>4, <2>4 DEF WorkerState
  <2>6. status[d] # "merged"
    BY <2>2, <2>5 DEF WindowInv, JoinsUnwritten, Joins, Merges
  <2> QED
    BY <1>1, <2>1, <2>5, <2>6
<1>5. CASE v = w /\ ~DecideMerge(w) /\ ~MergeWrite(w)
  BY <1>1, <1>5, MergeBegins
<1> QED
  BY <1>2, <1>3, <1>4, <1>5

LEMMA PlacedKept ==
    ASSUME WindowFlow, WindowInv, NEW w \in Workers, SlotStep(w), NEW n \in Notifs
    PROVE  Placed(n)'
<1> DEFINE d == DigestJob(n)
           over == {"completed", "skipped"}
<1>1. OnceInv /\ SlotWindow(wk[w]) /\ Placed(n) /\ Places(w) /\ d \in Digests
  BY SlotPlaces, JobsOfFlow DEF WindowInv
<1>2. status'[d] \in Begun => Stored(n)' /\ \A m \in Notifs : ~Into(d, DigestJob(m))'
  BY BegunKept
<1>3. AtDigest(n)' => status'[d] \in Current
  <2>1. CASE AtDigest(n) /\ ~(MarkCompleted(w) /\ wk[w].cur = d)
    <3>1. status[d] \in Current /\ status[d] \in Begun
      BY <1>1, <2>1 DEF Placed, Current, Begun
    <3> QED
      BY <2>1, <3>1, BegunStays DEF Current
  <2>2. CASE Claim(w) /\ wk[w].add = d
    BY <1>1, <2>2, JobsOfFlow DEF Claim, SetStatus, Current, OnceInv, ChainInv, TypeInv, TypeOK
  <2>3. MarkCompleted(w) /\ wk[w].cur = d => ~AtDigest(n)'
    BY <1>1, LeavesDigest DEF OnceInv
  <2> QED
    BY <1>1, <2>1, <2>2, <2>3 DEF Places
<1>4. AtMessage(n)' => status'[d] \in over
  <2>1. CASE AtMessage(n)
    <3>1. status[d] \in over /\ status[d] \in Begun
      BY <1>1, <2>1 DEF Placed, Begun
    <3>2. ~(MarkRunning(w) /\ wk[w].cur = d)
      BY <2>1, DuringDigest DEF MarkRunning, At
    <3> QED
      BY <3>1, <3>2, BegunStays
  <2>2. CASE Skip(w) /\ wk[w].add = d
    BY <1>1, <2>2, JobsOfFlow DEF Skip, SetStatus, OnceInv, ChainInv, TypeInv, TypeOK
  <2>3. CASE MarkCompleted(w) /\ wk[w].cur = d
    BY <1>1, <2>3, JobsOfFlow DEF MarkCompleted, OnceInv, ChainInv, TypeInv, TypeOK
  <2> QED
    BY <1>1, <2>1, <2>2, <2>3 DEF Places
<1>5. status'[d] \in over => Full(n, Carries(MessageJob(n)))'
  <2>1. CASE status[d] \in over
    BY <1>1, <2>1, CarriesStaysFull DEF Placed
  <2>2. CASE Skip(w) /\ wk[w].add = d
    <3>1. wk[w].pc = "skip"
      BY <2>2 DEF Skip
    <3>2. /\ status[d] \in {"pending", "canceled"} /\ events[MessageJob(n)] = {}
          /\ \A m \in Notifs : ~Into(DigestJob(m), d)
      BY <2>2, <3>1, BeforeDigest
    <3>3. Full(n, Carries(MessageJob(n)))
      <4>1. MergesOK /\ d = DigestJob(n) /\ MessageJob(n)[1] = n
        BY JobsOfFlow DEF WindowInv, OnceInv
      <4>2. ASSUME NEW j \in InFlight(d) PROVE FALSE
        <5>1. j = DigestJob(j[1]) /\ j[1] \in Notifs /\ Into(j, d)
          BY <4>1, <4>2, FlightInto
        <5> QED
          BY <3>2, <5>1
      <4>3. AllMissed(DigestJob(n))
        BY <4>1, <4>2 DEF AllMissed
      <4>4. Carries(MessageJob(n)) = {n}
        BY <3>2, <4>1 DEF Carries
      <4> QED
        BY <3>2, <4>3, <4>4 DEF Full
    <3> QED
      BY <3>2, <3>3, CarriesStaysFull
  <2>3. CASE MarkCompleted(w) /\ wk[w].cur = d
    <3>1. wk[w].pc = "complete" /\ d[1] = n /\ d[2] = 2
      BY <2>3, JobsOfFlow DEF MarkCompleted, At
    <3>2. Full(n, Carries(MessageJob(n))) /\ status[d] # "delayed"
      BY <1>1, <2>3, <3>1 DEF SlotWindow, WindowInv, BatchInv
    <3> QED
      BY <3>2, CarriesStaysFull
  <2>4. CASE MarkRunning(w) /\ wk[w].cur = d
    BY <1>1, <2>4, JobsOfFlow DEF MarkRunning, OnceInv, ChainInv, TypeInv, TypeOK
  <2> QED
    BY <1>1, <2>1, <2>2, <2>3, <2>4, DigestStatus
<1>6. Placed(n)' = /\ status'[d] \in Begun =>
                         Stored(n)' /\ \A m \in Notifs : ~Into(d, DigestJob(m))'
                   /\ AtDigest(n)' => status'[d] \in Current
                   /\ AtMessage(n)' => status'[d] \in over
                   /\ status'[d] \in over => Full(n, Carries(MessageJob(n)))'
  BY DEF Placed, DigestJob
<1> QED
  BY <1>2, <1>3, <1>4, <1>5, <1>6

\* What the other steps leave alone is all that the invariant is about.
LEMMA WindowIdles ==
    ASSUME WindowInv, status' = status, mergedInto' = mergedInto, events' = events,
           waiting' = waiting, wk' = wk, missed' = missed
    PROVE  /\ \A w \in Workers : SlotWindow(wk[w])'
           /\ \A n \in Notifs : Placed(n)'
           /\ MissedByReader' /\ JoinsUnwritten'
<1>1. \A i, j : Into(j, i)' <=> Into(j, i)
  BY DEF Into, Merging
<1>2. \A n, B : Full(n, B)' <=> Full(n, B)
  BY <1>1 DEF Full, DigestJob, AllMissed, InFlight, IsDigest, TypeOf
<1>3. \A n : Carries(MessageJob(n))' = Carries(MessageJob(n))
  BY DEF Carries, MessageJob
<1>4. ASSUME NEW w \in Workers PROVE SlotWindow(wk[w])'
  <2> PICK q : q = wk[w]
    OBVIOUS
  <2>1. q = wk'[w] /\ SlotWindow(q)
    BY DEF WindowInv
  <2>2. PICK B : B = Carries(MessageJob(q.cur[1]))
    OBVIOUS
  <2>3. B = Carries(MessageJob(q.cur[1]))' /\ (Full(q.cur[1], B) <=> Full(q.cur[1], B)')
        /\ (Full(q.cur[1], q.batch) <=> Full(q.cur[1], q.batch)')
    BY <1>2, <1>3, <2>2
  <2> QED
    BY <2>1, <2>2, <2>3 DEF SlotWindow
<1>5. ASSUME NEW n \in Notifs PROVE Placed(n)'
  <2>1. (Full(n, Carries(MessageJob(n))))' <=> Full(n, Carries(MessageJob(n)))
    <3> PICK B : B = Carries(MessageJob(n))
      OBVIOUS
    <3>1. Full(n, B)' <=> Full(n, B)
      BY <1>2
    <3>2. B = Carries(MessageJob(n))'
      BY <1>3
    <3> QED
      BY <3>1, <3>2 DEF Full, DigestJob
  <2>2. (AtDigest(n)' <=> AtDigest(n)) /\ (AtMessage(n)' <=> AtMessage(n))
    BY DEF AtDigest, AtMessage, Waits, Digesting, Messaging, DigestJob, MessageJob, Live, JobOf,
           Retried, Last
  <2>3. (Stored(n)' <=> Stored(n)) /\ Placed(n)
    BY DEF Stored, WindowInv
  <2>4. \A m \in Notifs : Into(DigestJob(n), DigestJob(m))' <=> Into(DigestJob(n), DigestJob(m))
    BY <1>1 DEF DigestJob
  <2> QED
    BY <2>1, <2>2, <2>3, <2>4 DEF Placed, DigestJob
<1>6. MissedByReader'
  BY <1>1 DEF WindowInv, MissedByReader, HasRead, Digests, IsDigest, TypeOf
<1>7. JoinsUnwritten'
  BY DEF WindowInv, JoinsUnwritten, Joins, Merges, DigestJob
<1> QED
  BY <1>4, <1>5, <1>6, <1>7

LEMMA WindowStep ==
    ASSUME WindowFlow, WindowInv, [Next]_vars
    PROVE  WindowInv'
<1>1. OnceInv' /\ DigestInv' /\ ChainInv'
  BY FlowFacts, OnceStep, DigestStep DEF WindowInv, WindowFlow, OnceInv
<1>2. ASSUME NEW w \in Workers, SlotStep(w) PROVE WindowInv'
  <2>1. BatchInv' /\ StopInv'
    BY <1>1, <1>2, FlowFacts, BatchStep, StopStep DEF WindowInv, WindowFlow
  <2>2. \A v \in Workers : SlotWindow(wk[v])'
    BY <1>1, <1>2, SlotWindowKept, SlotWindowLearned DEF ChainInv
  <2>3. \A n \in Notifs : Placed(n)'
    BY <1>2, PlacedKept
  <2>4. MissedByReader' /\ JoinsUnwritten'
    BY <1>2, MissedKept, JoinsKept
  <2> QED
    BY <1>1, <2>1, <2>2, <2>3, <2>4 DEF WindowInv
<1>3. ASSUME (\E g \in Groups : LockExpires(g) \/ DeadLockExpires(g)) \/ UNCHANGED vars
      PROVE  WindowInv'
  <2>1. BatchInv' /\ StopInv'
    BY <1>1, <1>3, FlowFacts, OtherStepKeepsBatch, OtherStepKeepsStop DEF WindowInv
  <2>2. status' = status /\ mergedInto' = mergedInto /\ events' = events
        /\ waiting' = waiting /\ wk' = wk /\ missed' = missed
    BY <1>3 DEF LockExpires, DeadLockExpires, db, vars, history
  <2> QED
    BY <1>1, <2>1, <2>2, WindowIdles DEF WindowInv
<1>4. ~(\E x \in Cancelled : CancelStep(x))
  BY DEF WindowFlow
<1> QED
  BY <1>2, <1>3, <1>4 DEF Next, Environment, SlotStep

LEMMA WindowInit ==
    ASSUME WindowFlow
    PROVE  Init => WindowInv
<1> SUFFICES ASSUME Init PROVE WindowInv
  OBVIOUS
<1>1. OnceInv /\ StopInv /\ BatchInv /\ DigestInv
  BY OnceInit, StopInit, BatchInit, DigestInit
<1>2. \A w \in Workers : wk[w] = Idle
  BY DEF Init
<1>3. \A n \in Notifs : DigestJob(n) \in Jobs /\ MessageJob(n) \in Jobs
  BY JobsOfFlow
<1>4. \A w \in Workers : SlotWindow(wk[w])
  BY <1>2, IdleIsFree DEF SlotWindow, Failing
<1>5. ASSUME NEW n \in Notifs PROVE Placed(n)
  <2>1. status[DigestJob(n)] = "absent" /\ ~Waits(DigestJob(n)) /\ ~Waits(MessageJob(n))
    BY <1>3 DEF Init, Waits
  <2>2. \A w \in Workers : ~Digesting(wk[w], n) /\ ~Messaging(wk[w], n)
    BY <1>2, IdleIsFree DEF Digesting, Messaging
  <2> QED
    BY <2>1, <2>2 DEF Placed, AtDigest, AtMessage, Begun
<1>6. MissedByReader /\ JoinsUnwritten
  BY <1>2, IdleIsFree DEF Init, MissedByReader, JoinsUnwritten, Joins, Merges
<1> QED
  BY <1>1, <1>4, <1>5, <1>6 DEF WindowInv

-----------------------------------------------------------------------------
(* The step of the window.                                                  *)

Began(n) == status[DigestJob(n)] \in Begun

IsOpen(n) == status[DigestJob(n)] = "delayed"

OpenOf(g) == {d[1] : d \in OpenDigests(g)}

DigestMap == [n \in Notifs |-> CollectedBy(n)]

OpenMap == [g \in Groups |-> OpenOf(g)]

JoinMap == {n \in Notifs : \E w \in Workers : Joins(w, n)}

MissedMap == {n \in Notifs : DigestJob(n) \in missed}

\* The digest of an event and the open digest of a group, in terms of the invariant.
LEMMA CollectedIff ==
    ASSUME WindowFlow, NEW n \in Notifs, NEW m \in Notifs
    PROVE  /\ m \in CollectedBy(n) <=> (m = n /\ Began(n)) \/ Into(DigestJob(n), DigestJob(m))
           /\ m \in CollectedBy(n)' <=> (m = n /\ Began(n)') \/ Into(DigestJob(n), DigestJob(m))'
<1>1. DigestJob(n) \in Jobs /\ IsDigest(DigestJob(n))
  BY JobsOfFlow
<1>2. m \in CollectedBy(n) <=> (m = n /\ Began(n)) \/ Into(DigestJob(n), DigestJob(m))
  BY <1>1 DEF CollectedBy, Began, Begun, Into, Merging, Merges, Followers, WithStatus
<1>3. m \in CollectedBy(n)' <=> (m = n /\ Began(n)') \/ Into(DigestJob(n), DigestJob(m))'
  BY <1>1 DEF CollectedBy, Began, Begun, Into, Merging, Merges, Followers, WithStatus, DigestJob,
              IsDigest, TypeOf
<1> QED
  BY <1>2, <1>3

LEMMA OpenIff ==
    ASSUME WindowFlow, NEW g \in Groups
    PROVE  /\ OpenOf(g) = {n \in Notifs : GroupOf[n] = g /\ IsOpen(n)}
           /\ OpenOf(g)' = {n \in Notifs : GroupOf[n] = g /\ IsOpen(n)'}
<1>1. /\ \A n \in Notifs : DigestJob(n) \in Jobs /\ IsDigest(DigestJob(n)) /\ DigestJob(n)[1] = n
      /\ \A j \in Jobs : IsDigest(j) => j[1] \in Notifs /\ j = DigestJob(j[1])
  BY JobsOfFlow
<1>2. OpenOf(g) = {n \in Notifs : GroupOf[n] = g /\ IsOpen(n)}
  BY <1>1 DEF OpenOf, OpenDigests, WithStatus, IsOpen
<1>3. OpenOf(g)' = {n \in Notifs : GroupOf[n] = g /\ IsOpen(n)'}
  BY <1>1 DEF OpenOf, OpenDigests, WithStatus, IsOpen, DigestJob, IsDigest, TypeOf
<1> QED
  BY <1>2, <1>3

\* Events set out for a digest and arrive there by the merge alone, and are missed only
\* when a digest is read.
LEMMA JoinsChange ==
    ASSUME WindowFlow, WindowInv, NEW w \in Workers, SlotStep(w)
    PROVE  /\ ~DecideMerge(w) /\ ~MergeWrite(w) => JoinMap' = JoinMap
           /\ ~ReadBatch(w) => MissedMap' = MissedMap
<1>1. Others(w) /\ ChainInv
  BY SlotBasics DEF WindowInv, OnceInv
<1>2. ASSUME ~DecideMerge(w), ~MergeWrite(w) PROVE JoinMap' = JoinMap
  <2>1. wk[w].pc # "merge" /\ wk'[w].pc # "merge"
    BY <1>1, <1>2, OneWayOn, MergeBegins
  <2>2. \A v \in Workers, n \in Notifs : Joins(v, n)' <=> Joins(v, n)
    BY <1>1, <2>1 DEF Others, Joins, Merges, DigestJob
  <2> QED
    BY <2>2 DEF JoinMap
<1>3. ~ReadBatch(w) => MissedMap' = MissedMap
  BY MissedStays DEF MissedMap, DigestJob
<1> QED
  BY <1>2, <1>3

\* The events that a slot is merging into a digest are those on their way that this
\* digest collects.
LEMMA FlightIff ==
    ASSUME WindowFlow, WindowInv, NEW n \in Notifs, NEW e \in Notifs,
           \A m \in Notifs : ~Into(DigestJob(n), DigestJob(m))
    PROVE  DigestJob(e) \in InFlight(DigestJob(n)) <=> n \in CollectedBy(e) /\ e \in JoinMap
<1>1. /\ ChainInv /\ MergesOK /\ DigestJob(e) \in Digests /\ DigestJob(n) \in Digests
      /\ DigestJob(e)[1] = e
  BY JobsOfFlow DEF WindowInv, OnceInv
<1>2. ASSUME DigestJob(e) \in InFlight(DigestJob(n))
      PROVE  n \in CollectedBy(e) /\ e \in JoinMap
  BY <1>1, <1>2, FlightInto, CollectedIff DEF JoinMap
<1>3. ASSUME n \in CollectedBy(e), NEW v \in Workers, Joins(v, e)
      PROVE  DigestJob(e) \in InFlight(DigestJob(n))
  <2>1. /\ wk[v].pc = "merge" /\ wk[v].add = DigestJob(e) /\ wk[v].hit \in Digests
        /\ 2 \in wk[v].todo
    BY <1>1, <1>3 DEF MergesOK, Joins, Merges
  <2>2. Into(DigestJob(e), wk[v].hit) /\ wk[v].hit = DigestJob(wk[v].hit[1]) /\ wk[v].hit[1] \in Notifs
    BY <2>1, JobsOfFlow DEF Into, Merging
  <2>3. e # n
    BY <2>2
  <2>4. Into(DigestJob(e), DigestJob(n))
    BY <1>3, <2>3, CollectedIff
  <2>5. wk[v].hit = DigestJob(n)
    BY <1>1, <2>2, <2>4, IntoOne
  <2>6. DigestJob(e) \in Jobs /\ IsDigest(DigestJob(e)) /\ DigestJob(e)[2] = 2
    BY JobsOfFlow
  <2> QED
    BY <2>1, <2>5, <2>6 DEF InFlight
<1> QED
  BY <1>2, <1>3 DEF JoinMap

\* Digests are begun by Claim and Skip, opened by Claim and closed by MarkRunning.
LEMMA BegunChanges ==
    ASSUME WindowFlow, WindowInv, NEW w \in Workers, SlotStep(w), NEW n \in Notifs
    PROVE  LET d == DigestJob(n)
           IN  /\ Began(n)' <=> Began(n) \/ ((Claim(w) \/ Skip(w)) /\ wk[w].add = d)
               /\ IsOpen(n)' <=> \/ IsOpen(n) /\ ~(MarkRunning(w) /\ wk[w].cur = d)
                                 \/ Claim(w) /\ wk[w].add = d
<1> DEFINE d == DigestJob(n)
<1>1. OnceInv /\ SlotWindow(wk[w]) /\ d \in Jobs /\ status \in [Jobs -> Statuses]
  BY JobsOfFlow DEF WindowInv, OnceInv, ChainInv, TypeInv, TypeOK
<1>2. /\ Began(n)' <=> status'[d] \in Begun
      /\ IsOpen(n)' <=> status'[d] = "delayed"
  BY DEF Began, IsOpen, Begun, DigestJob
<1>3. CASE Claim(w) /\ wk[w].add = d
  <2>1. status'[d] = "delayed"
    BY <1>1, <1>3 DEF Claim, SetStatus
  <2> QED
    BY <1>2, <1>3, <2>1 DEF Begun
<1>4. CASE Skip(w) /\ wk[w].add = d
  <2>1. status'[d] = "skipped" /\ wk[w].pc = "skip"
    BY <1>1, <1>4 DEF Skip, SetStatus
  <2>2. status[d] \in {"pending", "canceled"} /\ ~Claim(w)
    BY <1>4, <2>1, BeforeDigest DEF Claim
  <2> QED
    BY <1>2, <1>4, <2>1, <2>2 DEF Begun, IsOpen
<1>5. CASE ~((Claim(w) \/ Skip(w)) /\ wk[w].add = d) /\ status[d] \in Begun
  <2>1. /\ status'[d] \in Begun
        /\ \/ status'[d] = status[d]
           \/ MarkRunning(w) /\ wk[w].cur = d /\ status'[d] = "running"
           \/ MarkCompleted(w) /\ wk[w].cur = d /\ status'[d] = "completed"
    BY <1>5, BegunStays
  <2>2. MarkRunning(w) /\ wk[w].cur = d => status'[d] = "running"
    BY <1>1 DEF MarkRunning
  <2>3. MarkCompleted(w) /\ wk[w].cur = d => status[d] # "delayed"
    <3> SUFFICES ASSUME MarkCompleted(w), wk[w].cur = d PROVE status[d] # "delayed"
      OBVIOUS
    <3>1. wk[w].pc = "complete" /\ d \in Digests
      BY JobsOfFlow DEF MarkCompleted, At
    <3> QED
      BY <3>1 DEF WindowInv, BatchInv
  <2> QED
    BY <1>2, <1>5, <2>1, <2>2, <2>3 DEF Began, IsOpen
<1>6. CASE ~((Claim(w) \/ Skip(w)) /\ wk[w].add = d) /\ status[d] \notin Begun
  <2>1. ~(MarkRunning(w) /\ wk[w].cur = d) /\ ~(MarkCompleted(w) /\ wk[w].cur = d)
    BY <1>6, DuringDigest DEF MarkRunning, MarkCompleted, At
  <2>2. status'[d] \notin Begun
    BY <1>1, <1>6, <2>1, DigestStatus DEF Begun
  <2> QED
    BY <1>2, <1>6, <2>2 DEF Began, IsOpen, Begun
<1> QED
  BY <1>3, <1>4, <1>5, <1>6

\* Without a merge the events stay in their digests, but for those that begin one.
LEMMA CollectedKept ==
    ASSUME WindowFlow, WindowInv, NEW w \in Workers, SlotStep(w), SameInto, NEW n \in Notifs,
           ~((Claim(w) \/ Skip(w)) /\ wk[w].add = DigestJob(n))
    PROVE  CollectedBy(n)' = CollectedBy(n)
<1>1. \A m \in Notifs : m \in CollectedBy(n)' <=> m \in CollectedBy(n)
  <2> TAKE m \in Notifs
  <2>1. Into(DigestJob(n), DigestJob(m))' <=> Into(DigestJob(n), DigestJob(m))
    BY JobsOfFlow DEF SameInto, DigestJob
  <2> QED
    BY <2>1, CollectedIff, BegunChanges
<1>2. CollectedBy(n) \subseteq Notifs /\ CollectedBy(n)' \subseteq Notifs
  BY DEF CollectedBy
<1> QED
  BY <1>1, <1>2

\* A digest that begins collects its own event, which was nowhere before.
LEMMA CollectedBegins ==
    ASSUME WindowFlow, WindowInv, NEW w \in Workers, SlotStep(w), SameInto, NEW n \in Notifs,
           Claim(w) \/ Skip(w), wk[w].add = DigestJob(n)
    PROVE  CollectedBy(n) = {} /\ CollectedBy(n)' = {n}
<1>1. /\ status[DigestJob(n)] \in {"pending", "canceled"}
      /\ \A m \in Notifs : ~Into(DigestJob(n), DigestJob(m))
  BY BeforeDigest DEF Claim, Skip
<1>2. \A m \in Notifs : ~Into(DigestJob(n), DigestJob(m))'
  BY <1>1, JobsOfFlow DEF SameInto, DigestJob
<1>3. ~Began(n) /\ Began(n)'
  BY <1>1, BegunChanges DEF Began, Begun
<1>4. \A m \in Notifs : m \notin CollectedBy(n) /\ (m \in CollectedBy(n)' <=> m = n)
  BY <1>1, <1>2, <1>3, CollectedIff
<1>5. CollectedBy(n) \subseteq Notifs /\ CollectedBy(n)' \subseteq Notifs
  BY DEF CollectedBy
<1> QED
  BY <1>4, <1>5

\* Messages leave from the slot that runs the last step.
LEMMA SendsOnly ==
    ASSUME WindowFlow, NEW w \in Workers, SlotStep(w)
    PROVE  delivered' = delivered \/ Deliver(w) \/ DeliverThrows(w)
BY DEF SlotStep, AddJobStep, StoreJobs, AddPlain, AddDelay, AddDelayMisconfigured, AddThrows,
       DigestFiltered, DecideSkip, DecideCreate, DecideMerge, Claim, MergeWrite, Skip, Enqueue,
       RunJobStep, Receive, FindFollower, NoFollower, MarkRunning, SendNothing, ReadBatch,
       WriteBatch, FilterOut, SendThrows, MarkCompleted, QueueNext, Reject, HandleFailed,
       EnqueueLost, Crash, history

LEMMA WindowOpens ==
    ASSUME WindowFlow, WindowInv, NEW w \in Workers, SlotStep(w), SameInto, Claim(w)
    PROVE  \E n \in Notifs : Window!Open(n)
<1>1. /\ wk[w].pc = "claim" /\ wk[w].add \in Jobs /\ IsDigest(wk[w].add)
      /\ OpenDigests(GroupOf[wk[w].add[1]]) = {}
  BY DEF Claim, WindowInv, DigestInv, ClaimInv, ClaimOK, TypeInv, SlotsOK, SlotOK
<1> PICK n : n = wk[w].add[1]
  OBVIOUS
<1>2. n \in Notifs /\ wk[w].add = DigestJob(n) /\ GroupOf[n] \in Groups
  BY <1>1, JobsOfFlow, NotifAssumption
<1>3. CollectedBy(n) = {} /\ CollectedBy(n)' = {n}
  BY <1>2, CollectedBegins
<1>4. ASSUME NEW m \in Notifs, m # n PROVE CollectedBy(m)' = CollectedBy(m)
  <2>1. wk[w].add # DigestJob(m)
    BY <1>2, <1>4 DEF DigestJob
  <2> QED
    BY <2>1, CollectedKept
<1>5. DigestMap' = [DigestMap EXCEPT ![n] = {n}] /\ DigestMap[n] = {}
  BY <1>2, <1>3, <1>4 DEF DigestMap
<1>6. ~MarkRunning(w)
  BY <1>1 DEF MarkRunning, At
<1>7. ASSUME NEW g \in Groups
      PROVE  /\ g = GroupOf[n] => OpenOf(g) = {} /\ OpenOf(g)' = {n}
             /\ g # GroupOf[n] => OpenOf(g)' = OpenOf(g)
  <2>1. \A m \in Notifs : IsOpen(m)' <=> IsOpen(m) \/ m = n
    <3> TAKE m \in Notifs
    <3>1. wk[w].add = DigestJob(m) <=> m = n
      BY <1>2 DEF DigestJob
    <3> QED
      BY <1>6, <3>1, BegunChanges
  <2>2. g = GroupOf[n] => OpenOf(g) = {}
    BY <1>1, <1>2 DEF OpenOf
  <2> QED
    BY <1>2, <2>1, <2>2, OpenIff
<1>8. OpenMap' = [OpenMap EXCEPT ![GroupOf[n]] = {n}] /\ OpenMap[GroupOf[n]] = {}
  BY <1>2, <1>7 DEF OpenMap
<1>9. delivered' = delivered
  BY DEF Claim, history
<1>10. JoinMap' = JoinMap /\ MissedMap' = MissedMap
  BY <1>1, JoinsChange DEF DecideMerge, Adding, MergeWrite, ReadBatch, At
<1> QED
  BY <1>2, <1>5, <1>8, <1>9, <1>10 DEF Window!Open, DigestMap, OpenMap, OpenOf, JoinMap, MissedMap

LEMMA WindowJoins ==
    ASSUME WindowFlow, WindowInv, NEW w \in Workers, SlotStep(w), DecideMerge(w)
    PROVE  \E n \in Notifs : Window!Join(n)
<1>1. OnceInv /\ OneOpenDigest
  BY DEF WindowInv, DigestInv
<1>2. /\ wk[w].add \in Digests /\ wk[w].pc = "add"
      /\ status' = status /\ delivered' = delivered
  BY <1>1, DecideMergePoints
<1> PICK n : n = wk[w].add[1]
  OBVIOUS
<1>3. n \in Notifs /\ wk[w].add = DigestJob(n) /\ GroupOf[n] \in Groups
  BY <1>2, JobsOfFlow, NotifAssumption
<1>4. PICK d \in OpenDigests(GroupOf[n]) :
         \A i, j \in Digests : Into(j, i)' <=> Into(j, i) \/ (j = wk[w].add /\ i = d)
  BY <1>1, DecideMergePoints
<1>5. d \in Digests /\ d[1] \in Notifs /\ d = DigestJob(d[1])
  BY JobsOfFlow DEF OpenDigests, WithStatus, Digests
<1>6. OpenOf(GroupOf[n]) = {d[1]}
  BY <1>1, <1>3 DEF OpenOf, OneOpenDigest
<1>7. ASSUME NEW m \in Notifs PROVE (Began(m)' <=> Began(m)) /\ (IsOpen(m)' <=> IsOpen(m))
  BY <1>2 DEF Began, IsOpen, DigestJob, Begun
<1>8. ~Began(n) /\ \A m \in Notifs : ~Into(DigestJob(n), DigestJob(m))
  BY <1>2, <1>3, BeforeDigest DEF Began, Begun
<1>9. ASSUME NEW m \in Notifs, NEW k \in Notifs
      PROVE  Into(DigestJob(m), DigestJob(k))' <=>
                Into(DigestJob(m), DigestJob(k)) \/ (m = n /\ k = d[1])
  <2>1. DigestJob(m) \in Digests /\ DigestJob(k) \in Digests
    BY JobsOfFlow
  <2>2. (DigestJob(m) = wk[w].add <=> m = n) /\ (DigestJob(k) = d <=> k = d[1])
    BY <1>3, <1>5 DEF DigestJob
  <2> QED
    BY <1>4, <2>1, <2>2 DEF DigestJob
<1>10. \A m \in Notifs : CollectedBy(m) \subseteq Notifs /\ CollectedBy(m)' \subseteq Notifs
  BY DEF CollectedBy
<1>11. CollectedBy(n) = {} /\ CollectedBy(n)' = {d[1]}
  <2>1. \A k \in Notifs : k \notin CollectedBy(n) /\ (k \in CollectedBy(n)' <=> k = d[1])
    BY <1>3, <1>7, <1>8, <1>9, CollectedIff
  <2> QED
    BY <1>3, <1>5, <1>10, <2>1
<1>12. ASSUME NEW m \in Notifs, m # n PROVE CollectedBy(m)' = CollectedBy(m)
  <2>1. \A k \in Notifs : k \in CollectedBy(m)' <=> k \in CollectedBy(m)
    BY <1>7, <1>9, <1>12, CollectedIff
  <2> QED
    BY <1>10, <2>1
<1>13. /\ DigestMap' = [DigestMap EXCEPT ![n] = OpenMap[GroupOf[n]]] /\ DigestMap[n] = {}
       /\ OpenMap[GroupOf[n]] # {}
  BY <1>3, <1>6, <1>11, <1>12 DEF DigestMap, OpenMap
<1>14. OpenMap' = OpenMap
  <2>1. \A g \in Groups : OpenOf(g)' = OpenOf(g)
    BY <1>7, OpenIff
  <2> QED
    BY <2>1 DEF OpenMap
<1>15. JoinMap' = JoinMap \cup {n}
  <2>1. wk \in [Workers -> WorkerState] /\ wk[w] \in WorkerState /\ Others(w)
    BY <1>1, DecideMergePoints DEF OnceInv, ChainInv, TypeInv, TypeOK
  <2>2. /\ wk'[w].pc = "merge" /\ wk'[w].add = wk[w].add /\ 2 \in wk'[w].todo
    <3>1. PICK i \in OpenDigests(GroupOf[wk[w].add[1]]) :
             wk' = [wk EXCEPT ![w].pc = "merge", ![w].hit = i, ![w].todo = wk[w].add[2]..NumSteps]
      BY DEF DecideMerge
    <3>2. wk[w].add[2] = 2 /\ NumSteps = 3
      BY <1>3, FlowFacts, JobsOfFlow
    <3> QED
      BY <2>1, <3>1, <3>2 DEF WorkerState
  <2>3. \A m \in Notifs : Joins(w, m)' <=> m = n
    BY <1>3, <2>2 DEF Joins, Merges, DigestJob
  <2>4. \A m \in Notifs : ~Joins(w, m)
    BY <1>2 DEF Joins, Merges
  <2>5. \A v \in Workers, m \in Notifs : v # w => (Joins(v, m)' <=> Joins(v, m))
    BY <2>1 DEF Others, Joins, Merges, DigestJob
  <2> QED
    BY <1>3, <2>3, <2>4, <2>5 DEF JoinMap
<1>16. MissedMap' = MissedMap
  BY <1>2, JoinsChange DEF ReadBatch, At
<1> QED
  BY <1>2, <1>3, <1>13, <1>14, <1>15, <1>16
     DEF Window!Join, DigestMap, OpenMap, OpenOf, JoinMap, MissedMap

LEMMA WindowSkips ==
    ASSUME WindowFlow, WindowInv, NEW w \in Workers, SlotStep(w), SameInto, Skip(w)
    PROVE  \E n \in Notifs : Window!Alone(n)
<1>1. wk[w].pc = "skip" /\ wk[w].add \in Jobs /\ IsDigest(wk[w].add) /\ Backoff
  BY DEF Skip, WindowInv, OnceInv, ChainInv, TypeInv, SlotsOK, SlotOK, AttemptsOK, SlotAttempts,
         SlotWindow
<1> PICK n : n = wk[w].add[1]
  OBVIOUS
<1>2. n \in Notifs /\ wk[w].add = DigestJob(n)
  BY <1>1, JobsOfFlow
<1>3. CollectedBy(n) = {} /\ CollectedBy(n)' = {n}
  BY <1>2, CollectedBegins
<1>4. ASSUME NEW m \in Notifs, m # n PROVE CollectedBy(m)' = CollectedBy(m)
  <2>1. wk[w].add # DigestJob(m)
    BY <1>2, <1>4 DEF DigestJob
  <2> QED
    BY <2>1, CollectedKept
<1>5. DigestMap' = [DigestMap EXCEPT ![n] = {n}] /\ DigestMap[n] = {}
  BY <1>2, <1>3, <1>4 DEF DigestMap
<1>6. ~MarkRunning(w) /\ ~Claim(w)
  BY <1>1 DEF MarkRunning, Claim, At
<1>7. OpenMap' = OpenMap
  <2>1. \A m \in Notifs : IsOpen(m)' <=> IsOpen(m)
    BY <1>6, BegunChanges
  <2>2. \A g \in Groups : OpenOf(g)' = OpenOf(g)
    BY <2>1, OpenIff
  <2> QED
    BY <2>2 DEF OpenMap
<1>8. delivered' = delivered
  BY DEF Skip, history
<1>9. JoinMap' = JoinMap /\ MissedMap' = MissedMap
  BY <1>1, JoinsChange DEF DecideMerge, Adding, MergeWrite, ReadBatch, At
<1> QED
  BY <1>1, <1>2, <1>5, <1>7, <1>8, <1>9
     DEF Window!Alone, DigestMap, OpenMap, OpenOf, JoinMap, MissedMap

\* A step that neither merges nor begins a digest keeps all digests.
LEMMA DigestsKept ==
    ASSUME WindowFlow, WindowInv, NEW w \in Workers, SlotStep(w), SameInto, ~Claim(w), ~Skip(w)
    PROVE  DigestMap' = DigestMap
<1>1. \A n \in Notifs : CollectedBy(n)' = CollectedBy(n)
  BY CollectedKept
<1> QED
  BY <1>1 DEF DigestMap

\* A step that neither opens nor closes a digest keeps the open ones.
LEMMA OpenKept ==
    ASSUME WindowFlow, WindowInv, NEW w \in Workers, SlotStep(w), ~Claim(w),
           ~(MarkRunning(w) /\ \E n \in Notifs : wk[w].cur = DigestJob(n) /\ IsOpen(n))
    PROVE  OpenMap' = OpenMap
<1>1. \A n \in Notifs : IsOpen(n)' <=> IsOpen(n)
  BY BegunChanges
<1>2. \A g \in Groups : OpenOf(g)' = OpenOf(g)
  BY <1>1, OpenIff
<1> QED
  BY <1>2 DEF OpenMap

\* The MERGED of the digest job itself brings the event into its digest; that of the
\* message does nothing that the window shows.
LEMMA WindowSettles ==
    ASSUME WindowFlow, WindowInv, NEW w \in Workers, SlotStep(w), SameInto, MergeWrite(w)
    PROVE  (\E n \in Notifs : Window!Settle(n)) \/ UNCHANGED Window!vars
<1>1. /\ wk[w].pc = "merge" /\ OnceInv /\ ChainInv /\ MergesOK /\ Others(w)
      /\ wk \in [Workers -> WorkerState] /\ wk[w] \in WorkerState
  BY SlotBasics DEF MergeWrite, WindowInv, OnceInv, ChainInv, TypeInv, TypeOK
<1> PICK n : n = wk[w].add[1]
  OBVIOUS
<1>2. wk[w].add \in Digests /\ n \in Notifs /\ wk[w].add = DigestJob(n)
  BY <1>1, JobsOfFlow DEF MergesOK
<1>3. DigestMap' = DigestMap /\ OpenMap' = OpenMap /\ delivered' = delivered /\ MissedMap' = MissedMap
  BY <1>1, DigestsKept, OpenKept, SendsOnly, JoinsChange
     DEF Claim, Skip, MarkRunning, Deliver, DeliverThrows, ReadBatch, At
<1>4. PICK s \in wk[w].todo :
         IF wk[w].todo = {s} THEN Merged(w) ELSE wk' = [wk EXCEPT ![w].todo = @ \ {s}]
  BY DEF MergeWrite
<1>5. \A m \in Notifs : Joins(w, m)' <=> Joins(w, m) /\ s # 2
  <2>1. CASE wk[w].todo = {s}
    <3>1. Return(w, "none")
      BY <1>4, <2>1 DEF Merged
    <3>2. wk'[w].pc # "merge"
      BY <1>1, <3>1, ReturnPC
    <3> QED
      BY <2>1, <3>2 DEF Joins, Merges
  <2>2. CASE wk[w].todo # {s}
    <3>1. /\ wk'[w].pc = wk[w].pc /\ wk'[w].add = wk[w].add
          /\ wk'[w].todo = wk[w].todo \ {s}
      BY <1>1, <1>4, <2>2 DEF WorkerState
    <3> QED
      BY <3>1 DEF Joins, Merges, DigestJob
  <2> QED
    BY <2>1, <2>2
<1>6. \A v \in Workers, m \in Notifs : v # w => (Joins(v, m)' <=> Joins(v, m))
  BY <1>1 DEF Others, Joins, Merges, DigestJob
<1>7. CASE s # 2
  <2>1. JoinMap' = JoinMap
    BY <1>5, <1>6, <1>7 DEF JoinMap
  <2> QED
    BY <1>3, <2>1 DEF Window!vars, DigestMap, OpenMap, OpenOf, JoinMap, MissedMap
<1>8. CASE s = 2
  <2>1. \A m \in Notifs : Joins(w, m) <=> m = n
    BY <1>1, <1>2, <1>4, <1>8 DEF Joins, Merges, DigestJob
  <2>2. \A v \in Workers : Joins(v, n) => v = w
    <3> TAKE v \in Workers
    <3>1. Joins(v, n) => Merging(v, DigestJob(n))
      BY DEF Joins, Merges, Merging
    <3>2. Merging(w, DigestJob(n)) /\ DigestJob(n) \in Digests /\ DigestJob(n)[1] = n
      BY <1>1, <1>2, JobsOfFlow DEF Merging
    <3> QED
      BY <1>1, <1>2, <3>1, <3>2, MergerHas, OnlyToken
  <2>3. n \in JoinMap /\ JoinMap' = JoinMap \ {n}
    BY <1>2, <1>5, <1>6, <1>8, <2>1, <2>2 DEF JoinMap
  <2>4. Window!Settle(n)
    BY <1>3, <2>3 DEF Window!Settle, DigestMap, OpenMap, OpenOf, JoinMap, MissedMap
  <2> QED
    BY <1>2, <2>4
<1> QED
  BY <1>7, <1>8

LEMMA WindowCloses ==
    ASSUME WindowFlow, WindowInv, NEW w \in Workers, SlotStep(w), SameInto, MarkRunning(w),
           NEW n \in Notifs, wk[w].cur = DigestJob(n), IsOpen(n)
    PROVE  \E g \in Groups : Window!Close(g)
<1>1. wk[w].pc = "mark" /\ delivered' = delivered /\ GroupOf[n] \in Groups
  BY NotifAssumption DEF MarkRunning, At, history
<1>2. ~Claim(w) /\ ~Skip(w)
  BY <1>1 DEF Claim, Skip
<1>3. DigestMap' = DigestMap
  BY <1>2, DigestsKept
<1>4. \A m \in Notifs : IsOpen(m)' <=> IsOpen(m) /\ m # n
  <2> TAKE m \in Notifs
  <2>1. wk[w].cur = DigestJob(m) <=> m = n
    BY DEF DigestJob
  <2> QED
    BY <1>2, <2>1, BegunChanges
<1>5. \A m \in Notifs : IsOpen(m) /\ GroupOf[m] = GroupOf[n] => m = n
  <2> SUFFICES ASSUME NEW m \in Notifs, IsOpen(m), GroupOf[m] = GroupOf[n] PROVE m = n
    OBVIOUS
  <2>1. /\ DigestJob(m) \in OpenDigests(GroupOf[n]) /\ DigestJob(n) \in OpenDigests(GroupOf[n])
        /\ DigestJob(m)[1] = m /\ DigestJob(n)[1] = n
    BY JobsOfFlow DEF IsOpen, OpenDigests, WithStatus
  <2> QED
    BY <1>1, <2>1 DEF WindowInv, DigestInv, OneOpenDigest
<1>6. ASSUME NEW g \in Groups
      PROVE  /\ g = GroupOf[n] => n \in OpenOf(g) /\ OpenOf(g)' = {}
             /\ g # GroupOf[n] => OpenOf(g)' = OpenOf(g)
  BY <1>4, <1>5, OpenIff
<1>7. OpenMap' = [OpenMap EXCEPT ![GroupOf[n]] = {}] /\ OpenMap[GroupOf[n]] # {}
  BY <1>1, <1>6 DEF OpenMap
<1>8. JoinMap' = JoinMap /\ MissedMap' = MissedMap
  BY <1>1, JoinsChange DEF DecideMerge, Adding, MergeWrite, ReadBatch, At
<1> QED
  BY <1>1, <1>3, <1>7, <1>8 DEF Window!Close, DigestMap, OpenMap, OpenOf, JoinMap, MissedMap

\* The digest that is read misses the events that are on their way to it.
LEMMA WindowCollects ==
    ASSUME WindowFlow, WindowInv, NEW w \in Workers, SlotStep(w), SameInto, ReadBatch(w)
    PROVE  \E n \in Notifs : Window!Collect(n)
<1>1. /\ wk[w].pc = "send" /\ wk[w].cur \in Jobs /\ OnceInv /\ ChainInv /\ 3 \in Steps
      /\ NumSteps = 3
  BY FlowFacts DEF ReadBatch, At, WindowInv, OnceInv, ChainInv, TypeInv, SlotsOK, SlotOK
<1> PICK n : n = wk[w].cur[1]
  OBVIOUS
<1>2. /\ n \in Notifs /\ wk[w].cur = DigestJob(n) /\ status[DigestJob(n)] = "running"
      /\ \A m \in Notifs : ~Into(DigestJob(n), DigestJob(m))
  BY BeforeRead
<1>3. Began(n) /\ ~IsOpen(n)
  BY <1>2 DEF Began, IsOpen, Begun
<1>4. DigestMap' = DigestMap /\ OpenMap' = OpenMap /\ delivered' = delivered /\ JoinMap' = JoinMap
  <2>1. /\ ~Claim(w) /\ ~Skip(w) /\ ~MarkRunning(w) /\ ~DecideMerge(w) /\ ~MergeWrite(w)
    BY <1>1 DEF Claim, Skip, MarkRunning, DecideMerge, Adding, MergeWrite, At
  <2>2. delivered' = delivered
    BY DEF ReadBatch
  <2> QED
    BY <2>1, <2>2, DigestsKept, OpenKept, JoinsChange
<1>5. MissedMap' = MissedMap \cup {e \in Notifs : n \in DigestMap[e] /\ e \in JoinMap}
  <2>1. missed' = missed \cup InFlight(DigestJob(n))
    BY <1>2 DEF ReadBatch
  <2>2. \A e \in Notifs : DigestJob(e) \in InFlight(DigestJob(n)) <=> n \in DigestMap[e] /\ e \in JoinMap
    BY <1>2, FlightIff DEF DigestMap
  <2> QED
    BY <2>1, <2>2 DEF MissedMap, DigestJob
<1>6. n \in DigestMap[n] /\ n \notin OpenMap[GroupOf[n]]
  <2>1. GroupOf[n] \in Groups
    BY <1>2, NotifAssumption
  <2>2. n \in CollectedBy(n) /\ n \notin OpenOf(GroupOf[n])
    BY <1>2, <1>3, <2>1, CollectedIff, OpenIff
  <2> QED
    BY <1>2, <2>1, <2>2 DEF DigestMap, OpenMap
<1>7. delivered[3][n] = 0
  <2>1. Token(n, 4)
    <3>1. Has(wk[w], n)
      <4>1. wk[w].pc \in Running
        BY <1>1 DEF Running
      <4>2. Live(wk[w]) /\ JobOf(wk[w]) = wk[w].cur
        BY <4>1, JobOfRunning
      <4> QED
        BY <1>2, <4>2, JobsOfFlow DEF Has
    <3>2. Pos(wk[w]) = 2 * wk[w].cur[2]
      BY <1>1, PosValues
    <3>3. Pos(wk[w]) = 4
      BY <1>2, <3>2, JobsOfFlow
    <3> QED
      BY <1>1, <1>2, <3>1, <3>3, OnlyToken
  <2>2. Owns(n, n)
    BY <1>2, JobsOfFlow DEF Owns
  <2> QED
    BY <1>1, <1>2, <2>1, <2>2 DEF OnceInv, Unsent
<1>8. Window!Collect(n)
  BY <1>1, <1>4, <1>5, <1>6, <1>7
     DEF Window!Collect, Window!Members, DigestMap, OpenMap, OpenOf, JoinMap, MissedMap
<1> QED
  BY <1>2, <1>8

\* A message carries the events of its digest, all but those that were missed and no
\* others, and none of them was sent before.
LEMMA WindowSends ==
    ASSUME WindowFlow, WindowInv, NEW w \in Workers, SlotStep(w), SameInto,
           Deliver(w) \/ DeliverThrows(w)
    PROVE  \E n \in Notifs : Window!Send(n)
<1>1. /\ wk[w].pc = "send" /\ TypeOf(wk[w].cur) = "channel" /\ Sent(wk[w].cur[2], wk[w].batch)
      /\ OnceInv /\ ChainInv /\ wk[w].cur \in Jobs /\ 3 \in Steps /\ NumSteps = 3
      /\ delivered \in [Steps -> [Notifs -> Nat]]
  BY FlowFacts
     DEF Deliver, DeliverThrows, At, WindowInv, OnceInv, ChainInv, TypeInv, TypeOK, SlotsOK, SlotOK
<1> PICK n : n = wk[w].cur[1]
  OBVIOUS
<1>2. n \in Notifs /\ wk[w].cur = MessageJob(n) /\ wk[w].cur[2] = 3 /\ wk[w].pc \in Running
  BY <1>1, JobsOfFlow DEF Running
<1>3. AtMessage(n)
  BY <1>1, <1>2, RunningSlot DEF AtMessage
<1>4. Began(n) /\ ~IsOpen(n) /\ \A m \in Notifs : ~Into(DigestJob(n), DigestJob(m))
  BY <1>2, <1>3 DEF WindowInv, Placed, Began, IsOpen, Begun
<1>5. Full(n, wk[w].batch)
  BY <1>1, <1>2 DEF WindowInv, SlotWindow
<1>6. DigestJob(n) \notin missed
  <2>1. ASSUME DigestJob(n) \in missed PROVE FALSE
    <3>1. PICK i \in Digests : Into(DigestJob(n), i)
      BY <2>1 DEF WindowInv, MissedByReader
    <3>2. i = DigestJob(i[1]) /\ i[1] \in Notifs
      BY JobsOfFlow
    <3> QED
      BY <1>4, <3>1, <3>2
  <2> QED
    BY <2>1
<1>7. \A e \in Notifs : e \in wk[w].batch <=> n \in CollectedBy(e) /\ e \notin MissedMap
  <2> TAKE e \in Notifs
  <2>1. n \in CollectedBy(e) <=> e = n \/ Into(DigestJob(e), DigestJob(n))
    BY <1>2, <1>4, CollectedIff
  <2>2. CASE n \in CollectedBy(e)
    BY <1>5, <1>6, <2>1, <2>2 DEF Full, MissedMap
  <2>3. CASE e \in wk[w].batch
    <3>1. Owns(n, e)
      BY <1>1, <2>3 DEF OnceInv, BatchOwned
    <3>2. CASE e = n
      BY <1>6, <2>1, <2>3, <3>2 DEF MissedMap
    <3>3. CASE \E i, j \in Digests : i[1] = n /\ j[1] = e /\ Into(j, i)
      BY <1>5, <2>1, <2>3, <3>3, JobsOfFlow DEF Full, MissedMap
    <3> QED
      BY <3>1, <3>2, <3>3 DEF Owns
  <2> QED
    BY <2>2, <2>3
<1>8. \A e \in Notifs : n \in DigestMap[e] /\ e \in JoinMap => e \in MissedMap
  <2> TAKE e \in Notifs
  <2>1. DigestJob(e) \in InFlight(DigestJob(n)) <=> n \in CollectedBy(e) /\ e \in JoinMap
    BY <1>2, <1>4, FlightIff
  <2> QED
    BY <1>5, <2>1 DEF Full, AllMissed, MissedMap, DigestMap
<1>9. delivered[3][n] = 0
  <2>1. Token(n, 6)
    <3>1. Has(wk[w], n)
      BY <1>2, JobOfRunning DEF Has
    <3>2. Pos(wk[w]) = 2 * wk[w].cur[2]
      BY <1>1, PosValues
    <3>3. Pos(wk[w]) = 6
      BY <1>2, <3>2
    <3> QED
      BY <1>1, <1>2, <3>1, <3>3, OnlyToken
  <2>2. Owns(n, n)
    BY <1>4, JobsOfFlow DEF Owns
  <2> QED
    BY <1>1, <1>2, <2>1, <2>2 DEF OnceInv, Unsent
<1>10. delivered'[3] = [e \in Notifs |-> IF n \in DigestMap[e] /\ e \notin MissedMap
                                       THEN delivered[3][e] + 1 ELSE delivered[3][e]]
  <2>1. delivered'[3] = [e \in Notifs |-> IF e \in wk[w].batch THEN delivered[3][e] + 1
                                                               ELSE delivered[3][e]]
    BY <1>1, <1>2 DEF Sent
  <2>2. \A e \in Notifs : e \in wk[w].batch <=> n \in DigestMap[e] /\ e \notin MissedMap
    BY <1>7 DEF DigestMap
  <2> QED
    BY <2>1, <2>2
<1>11. ~Claim(w) /\ ~Skip(w) /\ ~MarkRunning(w) /\ status' = status
  <2>1. status' = status
    BY DEF Deliver, DeliverThrows, db
  <2>2. ~Claim(w) /\ ~Skip(w)
    BY <1>1 DEF Claim, Skip
  <2> QED
    <3>1. ASSUME MarkRunning(w) PROVE FALSE
      BY <1>1, <3>1 DEF MarkRunning, At
    <3> QED
      BY <2>1, <2>2, <3>1
<1>12. DigestMap' = DigestMap
  BY <1>11, DigestsKept
<1>13. OpenMap' = OpenMap
  BY <1>11 DEF OpenMap, OpenOf, OpenDigests, WithStatus, IsDigest, TypeOf
<1>14. n \in DigestMap[n] /\ n \notin OpenMap[GroupOf[n]]
  <2>1. GroupOf[n] \in Groups
    BY <1>2, NotifAssumption
  <2>2. n \in CollectedBy(n) /\ n \notin OpenOf(GroupOf[n])
    BY <1>2, <1>4, <2>1, CollectedIff, OpenIff
  <2> QED
    BY <1>2, <2>1, <2>2 DEF DigestMap, OpenMap
<1>15. /\ delivered[NumSteps][n] = 0
       /\ (delivered[NumSteps])' =
             [e \in Notifs |-> IF n \in DigestMap[e] /\ e \notin MissedMap
                              THEN delivered[NumSteps][e] + 1
                              ELSE delivered[NumSteps][e]]
  <2>1. (delivered[NumSteps])' = delivered'[3] /\ delivered[NumSteps] = delivered[3]
    BY <1>1
  <2> QED
    BY <1>9, <1>10, <2>1
<1>16. JoinMap' = JoinMap /\ MissedMap' = MissedMap
  <2>1. ~ReadBatch(w)
    <3>1. IsDigest(wk[w].cur) <=> wk[w].cur[2] = 2
      BY <1>1, JobsOfFlow
    <3> QED
      BY <1>2, <3>1 DEF ReadBatch
  <2> QED
    BY <1>1, <2>1, JoinsChange DEF DecideMerge, Adding, MergeWrite
<1>17. [e \in Notifs |-> IF n \in DigestMap[e] /\ e \notin MissedMap
                        THEN delivered[NumSteps][e] + 1 ELSE delivered[NumSteps][e]]
          = [e \in Notifs |-> IF e \in {k \in Notifs : n \in DigestMap[k]} \ MissedMap
                             THEN delivered[NumSteps][e] + 1 ELSE delivered[NumSteps][e]]
  OBVIOUS
<1>18. {k \in Notifs : n \in DigestMap[k]} \cap JoinMap \subseteq MissedMap
  BY <1>8
<1>19. Window!Send(n)
  BY <1>12, <1>13, <1>14, <1>15, <1>16, <1>17, <1>18
     DEF Window!Send, Window!Members, DigestMap, OpenMap, OpenOf, JoinMap, MissedMap
<1> QED
  BY <1>2, <1>19

\* Every step of a slot is a step of the window, or nothing that it shows.
LEMMA WindowSlotStep ==
    ASSUME WindowFlow, WindowInv, NEW w \in Workers, SlotStep(w)
    PROVE  Window!Next \/ UNCHANGED Window!vars
<1>1. CASE DecideMerge(w)
  BY <1>1, WindowJoins DEF Window!Next
<1>2. CASE /\ SameInto
           /\ \/ Claim(w) \/ Skip(w) \/ MergeWrite(w)
              \/ ReadBatch(w) \/ Deliver(w) \/ DeliverThrows(w)
  BY <1>2, WindowOpens, WindowSkips, WindowSettles, WindowCollects, WindowSends DEF Window!Next
<1>3. CASE /\ SameInto /\ MarkRunning(w)
           /\ \E n \in Notifs : wk[w].cur = DigestJob(n) /\ IsOpen(n)
  BY <1>3, WindowCloses DEF Window!Next
<1>4. CASE /\ SameInto /\ ~DecideMerge(w) /\ ~Claim(w) /\ ~Skip(w) /\ ~MergeWrite(w)
           /\ ~ReadBatch(w) /\ ~Deliver(w) /\ ~DeliverThrows(w)
           /\ ~(MarkRunning(w) /\ \E n \in Notifs : wk[w].cur = DigestJob(n) /\ IsOpen(n))
  <2>1. delivered' = delivered
    BY <1>4, SendsOnly
  <2>2. DigestMap' = DigestMap
    BY <1>4, DigestsKept
  <2>3. OpenMap' = OpenMap
    BY <1>4, OpenKept
  <2>4. JoinMap' = JoinMap /\ MissedMap' = MissedMap
    BY <1>4, JoinsChange
  <2> QED
    BY <2>1, <2>2, <2>3, <2>4 DEF Window!vars, DigestMap, OpenMap, OpenOf, JoinMap, MissedMap
<1>5. DecideMerge(w) \/ SameInto
  BY SlotBasics DEF WindowInv
<1> QED
  BY <1>1, <1>2, <1>3, <1>4, <1>5

LEMMA WindowSimulates ==
    ASSUME WindowFlow, WindowInv, [Next]_vars
    PROVE  [Window!Next]_(Window!vars)
<1>1. CASE \E w \in Workers : SlotStep(w)
  BY <1>1, WindowSlotStep
<1>2. CASE (\E g \in Groups : LockExpires(g) \/ DeadLockExpires(g)) \/ UNCHANGED vars
  <2>1. /\ status' = status /\ mergedInto' = mergedInto /\ wk' = wk /\ delivered' = delivered
        /\ missed' = missed
    BY <1>2 DEF LockExpires, DeadLockExpires, db, history, vars
  <2>2. \A n \in Notifs : CollectedBy(n)' = CollectedBy(n)
    BY <2>1 DEF CollectedBy, Followers, WithStatus, DigestJob, IsDigest, TypeOf, Merges
  <2>3. \A g \in Groups : OpenDigests(g)' = OpenDigests(g)
    BY <2>1 DEF OpenDigests, WithStatus, IsDigest, TypeOf
  <2>4. JoinMap' = JoinMap /\ MissedMap' = MissedMap
    BY <2>1 DEF JoinMap, MissedMap, Joins, Merges, DigestJob
  <2> QED
    BY <2>1, <2>2, <2>3, <2>4 DEF Window!vars, JoinMap, MissedMap
<1>3. ~(\E x \in Cancelled : CancelStep(x))
  BY DEF WindowFlow
<1> QED
  BY <1>1, <1>2, <1>3 DEF Next, Environment, SlotStep

LEMMA WindowStarts ==
    ASSUME WindowFlow, Init
    PROVE  Window!Init
<1>1. /\ \A n \in Notifs : DigestJob(n) \in Jobs
      /\ NumSteps \in Steps
  BY JobsOfFlow, FlowFacts
<1>2. \A n \in Notifs : CollectedBy(n) = {}
  BY <1>1 DEF Init, CollectedBy, Followers, WithStatus, Idle, Merges
<1>3. \A g \in Groups : OpenDigests(g) = {}
  BY DEF Init, OpenDigests, WithStatus
<1>4. delivered[NumSteps] = [n \in Notifs |-> 0]
  BY <1>1 DEF Init
<1>5. JoinMap = {} /\ MissedMap = {}
  BY DEF Init, JoinMap, MissedMap, Joins, Merges, Idle
<1> QED
  BY <1>2, <1>3, <1>4, <1>5 DEF Window!Init, JoinMap, MissedMap

\* The worker slots that share the queue, the database and the lock behave as one digest
\* window per group: the event of a trigger is collected in one digest, joins the one
\* that is open, and leaves once, in one message with all that this digest has collected;
\* what is still on its way in when the digest is read is missed, and nothing else is.
THEOREM DigestWindowIsImplemented ==
    ASSUME WindowFlow
    PROVE  Spec => ImplementsDigestWindow
<1>1. Init => WindowInv /\ Window!Init
  BY WindowInit, WindowStarts
<1>2. WindowInv /\ [Next]_vars => WindowInv' /\ [Window!Next]_(Window!vars)
  BY WindowStep, WindowSimulates
<1> QED
  BY <1>1, <1>2, PTL DEF Spec, ImplementsDigestWindow, Window!Spec
=============================================================================
