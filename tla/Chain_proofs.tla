----------------------------- MODULE Chain_proofs -----------------------------
(***************************************************************************)
(* The chain of a notification is worked on at one place at a time: one    *)
(* slot, or one delivery in the queue, has its token.  Everything the      *)
(* engine says of a notification rests on it.                              *)
(***************************************************************************)
EXTENDS JobEngine_proofs

DigestSteps == {s \in Steps : StepType[s] = "digest"}

\* No transaction with a digest is cancelled: the delivery of a cancelled digest is handed
\* on to another notification.
NoDigestIsCancelled == Cancelled = {} \/ DigestSteps = {}

\* A step that is retried when its webhook filter fails does not fail otherwise: RunJob
\* adds the next job after any other error, and the retry would add it once more.
RetriesAreWebhooks == WebhookSteps \cap Fallible = {}

\* What must not come together with a crash: a slot that dies after it has added the next
\* job and before it has rejected its delivery, and one that dies between the CANCELED and
\* the COMPLETED of a filtered digest.
CrashesAlone == "crash" \in Faults => Fallible = {} /\ Filterable \cap DigestSteps = {}

Calm == NoDigestIsCancelled /\ RetriesAreWebhooks /\ CrashesAlone

-----------------------------------------------------------------------------
(* The token of a notification.                                             *)

Sched == {"add", "skip", "claim", "merge", "enqueue"}

Running == {"mark", "send", "digest", "complete", "next"}

Failing == {"reject", "failed"}

\* The job that a slot works on.
JobOf(r) == CASE r.pc \in Sched -> r.add [] r.pc \in Running -> r.cur [] OTHER -> r.bull

\* The delivery may go back to the queue: for another attempt, or because the slot dies.
Retried(r) == r.pc = "reject" /\ (r.made < Attempts(r.bull) \/ "crash" \in Faults)

\* The next job is about to be added in place of the failed one.
Last(r) == r.pc \in Failing /\ IsLastFailure(r.err, r.made)

\* The slot has the token of a notification.
Live(r) == r.pc \in Sched \cup Running \/ Retried(r) \/ Last(r)

Has(r, n) == Live(r) /\ JobOf(r)[1] = n

\* What the slots remember of the delivery they work on.
SlotChain(r) ==
    /\ r.pc # "follow"
    /\ r.pc \in Failing => r.phase = "run" /\ r.err # "none"
    /\ r.pc \in {"mark", "send", "digest", "complete"} => r.phase = "run" /\ r.err = "none"
    /\ r.pc \in Running => r.cur = r.bull /\ r.phase # "store"
    /\ r.pc \in Sched /\ r.phase # "store" =>
          r.bull \in Jobs /\ r.add[1] = r.bull[1] /\ r.bull[2] < r.add[2]
    /\ r.pc \in Sched \cup Running /\ r.err # "none" =>
          r.phase = "run" /\ r.err = "plain" /\ r.bull[2] \in Fallible
    /\ r.phase = "run" => r.made > 0

SlotsInChain == \A w \in Workers : SlotChain(wk[w])

OneSlot == \A v, w \in Workers, n \in Notifs : Has(wk[v], n) /\ Has(wk[w], n) => v = w

NoDelivery(n) == \A j \in Jobs, a \in 0..MaxStarts : j[1] = n => waiting[j][a] = 0

SlotOrQueue == \A w \in Workers, n \in Notifs : Has(wk[w], n) => NoDelivery(n)

OneDelivery ==
    \A i, j \in Jobs, a, b \in 0..MaxStarts :
        /\ waiting[j][a] <= 1
        /\ waiting[i][a] > 0 /\ waiting[j][b] > 0 /\ i[1] = j[1] => i = j /\ a = b

\* A notification that is not stored has no token.
NoToken(n) == NoDelivery(n) /\ \A w \in Workers : ~Has(wk[w], n)

StoredFirst == \A n \in Notifs : ~Stored(n) => NoToken(n)

\* A digest is CANCELED only while a slot is about to complete it.
FilteredIsCompleted ==
    \A j \in Jobs : IsDigest(j) /\ status[j] = "canceled" =>
        "crash" \notin Faults /\ \E w \in Workers : wk[w].pc = "complete" /\ wk[w].cur = j

ChainInv ==
    /\ TypeInv /\ SlotsInChain /\ FilteredIsCompleted
    /\ OneSlot /\ SlotOrQueue /\ OneDelivery /\ StoredFirst
-----------------------------------------------------------------------------
(* What a step does to the tokens.                                          *)

Others(w) == \A v \in Workers : v # w => wk'[v] = wk[v]

\* The slot keeps the token it has, or loses it.
Keeps(w) == Others(w) /\ waiting' = waiting /\ \A n \in Notifs : Has(wk'[w], n) => Has(wk[w], n)

\* It puts it into the queue.
Puts(w) ==
    /\ Others(w) /\ ~Live(wk'[w])
    /\ \E j \in Jobs, a \in 0..MaxStarts : Push(j, a) /\ Has(wk[w], j[1])

Pull(j, a) == waiting' = [waiting EXCEPT ![j][a] = @ - 1]

\* It takes one from there.
Takes(w) ==
    /\ Others(w) /\ ~Live(wk[w])
    /\ \E j \in Jobs, a \in 0..MaxStarts :
          /\ waiting[j][a] > 0 /\ Pull(j, a)
          /\ \A n \in Notifs : Has(wk'[w], n) => n = j[1]

\* It gets the first one of a notification.
Starts(w) ==
    /\ Others(w) /\ waiting' = waiting
    /\ \E m \in Notifs : ~Stored(m) /\ Stored(m)' /\ \A n \in Notifs : Has(wk'[w], n) => n = m

Moves(w) == Keeps(w) \/ Puts(w) \/ Takes(w) \/ Starts(w)

\* What is stored stays.
StoredStays == \A n \in Notifs : Stored(n) => Stored(n)'

Tokens == OneSlot /\ SlotOrQueue /\ OneDelivery /\ StoredFirst

-----------------------------------------------------------------------------
LEMMA PushCounts ==
    ASSUME waiting \in [Jobs -> [0..MaxStarts -> Nat]], NEW j \in Jobs, NEW a \in 0..MaxStarts,
           Push(j, a)
    PROVE  \A i \in Jobs, b \in 0..MaxStarts :
              waiting'[i][b] = IF i = j /\ b = a THEN waiting[i][b] + 1 ELSE waiting[i][b]
<1> TAKE i \in Jobs, b \in 0..MaxStarts
<1>1. waiting[i] \in [0..MaxStarts -> Nat]
  OBVIOUS
<1>2. CASE i = j
  BY <1>1, <1>2 DEF Push
<1>3. CASE i # j
  BY <1>3 DEF Push
<1> QED
  BY <1>2, <1>3

LEMMA TakeCounts ==
    ASSUME waiting \in [Jobs -> [0..MaxStarts -> Nat]], NEW j \in Jobs, NEW a \in 0..MaxStarts,
           Pull(j, a)
    PROVE  \A i \in Jobs, b \in 0..MaxStarts :
              waiting'[i][b] = IF i = j /\ b = a THEN waiting[i][b] - 1 ELSE waiting[i][b]
<1> TAKE i \in Jobs, b \in 0..MaxStarts
<1>1. waiting[i] \in [0..MaxStarts -> Nat]
  OBVIOUS
<1>2. CASE i = j
  BY <1>1, <1>2 DEF Pull
<1>3. CASE i # j
  BY <1>3 DEF Pull
<1> QED
  BY <1>2, <1>3

\* However the token moves, there is one of each notification.
LEMMA MovesKeepTokens ==
    ASSUME TypeOK, Tokens, NEW w \in Workers, Moves(w), StoredStays
    PROVE  Tokens'
<1> USE DEF Others
<1>1. \A j \in Jobs, a \in 0..MaxStarts : waiting[j][a] \in Nat
  BY DEF TypeOK
<1>2. CASE Keeps(w)
  BY <1>2 DEF Keeps, Tokens, OneSlot, SlotOrQueue, OneDelivery, StoredFirst, NoToken, NoDelivery,
              StoredStays, Stored
<1>3. CASE Starts(w)
  <2>1. PICK m \in Notifs : ~Stored(m) /\ Stored(m)' /\ \A n \in Notifs : Has(wk'[w], n) => n = m
    BY <1>3 DEF Starts
  <2>2. NoToken(m)
    BY <2>1 DEF Tokens, StoredFirst
  <2>3. OneSlot' /\ SlotOrQueue' /\ OneDelivery'
    BY <1>3, <2>1, <2>2 DEF Starts, Tokens, OneSlot, SlotOrQueue, OneDelivery, NoToken, NoDelivery
  <2>4. StoredFirst'
    BY <1>3, <2>1 DEF Starts, Tokens, StoredFirst, NoToken, NoDelivery, StoredStays, Stored
  <2> QED
    BY <2>3, <2>4 DEF Tokens
<1>4. CASE Puts(w)
  <2>1. PICK j \in Jobs, a \in 0..MaxStarts : Push(j, a) /\ Has(wk[w], j[1])
    BY <1>4 DEF Puts
  <2>2. j[1] \in Notifs
    BY JobFacts
  <2>3. NoDelivery(j[1]) /\ Stored(j[1])
    BY <2>1, <2>2 DEF Tokens, SlotOrQueue, StoredFirst, NoToken
  <2>4. \A i \in Jobs, b \in 0..MaxStarts :
           waiting'[i][b] = IF i = j /\ b = a THEN waiting[i][b] + 1 ELSE waiting[i][b]
    BY <2>1, PushCounts DEF TypeOK
  <2>5. \A v \in Workers, n \in Notifs : Has(wk'[v], n) => v # w /\ Has(wk[v], n) /\ n # j[1]
    BY <1>4, <2>1, <2>2 DEF Puts, Has, Tokens, OneSlot
  <2>6. OneSlot' /\ SlotOrQueue'
    BY <2>4, <2>5 DEF Tokens, OneSlot, SlotOrQueue, NoDelivery
  <2>7. OneDelivery'
    BY <1>1, <2>2, <2>3, <2>4 DEF Tokens, OneDelivery, NoDelivery
  <2>8. StoredFirst'
    BY <2>2, <2>3, <2>4, <2>5 DEF Tokens, StoredFirst, NoToken, NoDelivery, StoredStays, Stored
  <2> QED
    BY <2>6, <2>7, <2>8 DEF Tokens
<1>5. CASE Takes(w)
  <2>1. PICK j \in Jobs, a \in 0..MaxStarts :
           /\ waiting[j][a] > 0 /\ Pull(j, a)
           /\ \A n \in Notifs : Has(wk'[w], n) => n = j[1]
    BY <1>5 DEF Takes
  <2>2. j[1] \in Notifs
    BY JobFacts
  <2>3. waiting[j][a] = 1
    BY <1>1, <2>1, <2>2 DEF Tokens, OneDelivery
  <2>4. \A i \in Jobs, b \in 0..MaxStarts :
           waiting'[i][b] = IF i = j /\ b = a THEN 0 ELSE waiting[i][b]
    <3>1. \A i \in Jobs, b \in 0..MaxStarts :
             waiting'[i][b] = IF i = j /\ b = a THEN waiting[i][b] - 1 ELSE waiting[i][b]
      BY <2>1, TakeCounts DEF TypeOK
    <3> QED
      BY <2>3, <3>1
  <2>5. \A v \in Workers : ~Has(wk[v], j[1])
    BY <2>1, <2>2, <2>3 DEF Tokens, SlotOrQueue, NoDelivery
  <2>6. NoDelivery(j[1])'
    BY <1>1, <2>1, <2>2, <2>4 DEF Tokens, OneDelivery, NoDelivery
  <2>7. Stored(j[1])
    BY <2>2, <2>3 DEF Tokens, StoredFirst, NoToken, NoDelivery
  <2>8. \A v \in Workers, n \in Notifs :
           Has(wk'[v], n) => (v = w /\ n = j[1]) \/ (v # w /\ n # j[1] /\ Has(wk[v], n))
    BY <1>5, <2>1, <2>2, <2>5 DEF Takes
  <2>9. OneSlot' /\ SlotOrQueue'
    BY <2>4, <2>6, <2>8 DEF Tokens, OneSlot, SlotOrQueue, NoDelivery
  <2>10. OneDelivery'
    BY <2>2, <2>4 DEF Tokens, OneDelivery
  <2>11. StoredFirst'
    BY <2>4, <2>7, <2>8 DEF Tokens, StoredFirst, NoToken, NoDelivery, StoredStays, Stored
  <2> QED
    BY <2>9, <2>10, <2>11 DEF Tokens
<1> QED
  BY <1>2, <1>3, <1>4, <1>5 DEF Moves

-----------------------------------------------------------------------------
(* The moves of the single steps.                                           *)

\* A step that is not the end of a filtered digest, and cancels none.
Quits(w) ==
    /\ wk[w].pc # "complete"
    /\ \A j \in Jobs : IsDigest(j) /\ status'[j] = "canceled" => status[j] = "canceled"

\* What a step of slot w has to show.
Steady(w) == Moves(w) /\ StoredStays /\ SlotChain(wk'[w]) /\ Quits(w)

LEMMA JobOfSched ==
    ASSUME NEW r, r.pc \in Sched
    PROVE  Live(r) /\ JobOf(r) = r.add
BY DEF Live, JobOf, Sched, Running

LEMMA JobOfRunning ==
    ASSUME NEW r, r.pc \in Running
    PROVE  Live(r) /\ JobOf(r) = r.cur
BY DEF Live, JobOf, Sched, Running

LEMMA JobOfFailing ==
    ASSUME NEW r, r.pc \in Failing
    PROVE  JobOf(r) = r.bull /\ (Live(r) => Retried(r) \/ Last(r))
BY DEF Live, JobOf, Sched, Running, Failing

LEMMA IdleIsFree ==
    ~Live(Idle) /\ SlotChain(Idle) /\ Idle.pc = "idle" /\ Idle.phase = "store" /\ Idle.err = "none"
BY DEF Idle, Live, Retried, Last, Sched, Running, Failing, SlotChain

\* A slot that goes on scheduling the same job.
LEMMA SchedMoves ==
    ASSUME wk \in [Workers -> WorkerState], NEW w \in Workers, SlotChain(wk[w]),
           NEW pc \in Sched, wk[w].pc \in Sched, GoTo(w, pc), waiting' = waiting
    PROVE  Keeps(w) /\ SlotChain(wk'[w])
<1>1. /\ Others(w)
      /\ wk'[w] = [wk[w] EXCEPT !.pc = pc] /\ wk[w] \in WorkerState
  BY DEF GoTo, Others
<1>2. /\ wk'[w].pc = pc /\ wk'[w].add = wk[w].add /\ wk'[w].phase = wk[w].phase
      /\ wk'[w].bull = wk[w].bull /\ wk'[w].err = wk[w].err /\ wk'[w].made = wk[w].made
  BY <1>1 DEF WorkerState
<1>3. \A n \in Notifs : Has(wk'[w], n) <=> Has(wk[w], n)
  BY <1>2, JobOfSched DEF Has
<1>4. SlotChain(wk'[w])
  BY <1>2 DEF SlotChain, Sched, Failing, Running
<1> QED
  BY <1>1, <1>3, <1>4 DEF Keeps

\* A slot that returns from AddJob, or has nothing to add, has the token no more, unless
\* a webhook error takes it back to the delivery.
LEMMA ReturnMoves ==
    ASSUME Calm, wk \in [Workers -> WorkerState], NEW w \in Workers, SlotChain(wk[w]),
           wk[w].pc \in Sched \cup {"next"}, NEW e \in Errors, Return(w, e)
    PROVE  /\ Others(w) /\ \A n \in Notifs : Has(wk'[w], n) => Has(wk[w], n)
           /\ SlotChain(wk'[w])
           /\ e = "none" => ~Live(wk'[w])
<1>1. Others(w) /\ wk[w] \in WorkerState
  BY DEF Return, Others
<1> DEFINE thrown == IF e = "none" THEN wk[w].err ELSE e
           rej == [wk[w] EXCEPT !.pc = "reject", !.err = thrown]
<1>2. CASE wk[w].phase = "run" /\ thrown # "none"
  <2>1. wk'[w] = rej
    BY <1>2 DEF Return
  <2>2. /\ wk'[w].pc = "reject" /\ wk'[w].phase = "run" /\ wk'[w].err = thrown
        /\ wk'[w].bull = wk[w].bull /\ wk'[w].made = wk[w].made
    <3> HIDE DEF thrown
    <3> QED
      BY <1>1, <1>2, <2>1 DEF WorkerState
  <2>3. JobOf(wk[w])[1] = wk[w].bull[1] /\ Live(wk[w])
    BY <1>2, JobOfSched, JobOfRunning DEF SlotChain, Running
  <2>4. JobOf(wk'[w]) = wk[w].bull
    BY <2>2, JobOfFailing DEF Failing
  <2>5. \A n \in Notifs : Has(wk'[w], n) => Has(wk[w], n)
    BY <2>3, <2>4 DEF Has
  <2>6. SlotChain(wk'[w])
    BY <1>2, <2>2 DEF SlotChain, Sched, Running, Failing
  <2>7. e = "none" => ~Live(wk'[w])
    <3>1. SUFFICES ASSUME e = "none" PROVE ~Retried(wk'[w]) /\ ~Last(wk'[w])
      BY <2>2, JobOfFailing DEF Failing
    <3>2. /\ wk[w].err = "plain" /\ wk[w].bull[2] \in Fallible
          /\ wk[w].bull[2] \notin WebhookSteps /\ "crash" \notin Faults
      BY <1>2, <3>1 DEF SlotChain, Sched, Running, Calm, RetriesAreWebhooks, CrashesAlone
    <3> QED
      BY <1>1, <1>2, <2>2, <3>1, <3>2
         DEF Retried, Last, IsLastFailure, Attempts, SlotChain, WorkerState
  <2> QED
    BY <1>1, <2>5, <2>6, <2>7
<1>3. CASE ~(wk[w].phase = "run" /\ thrown # "none")
  <2>1. wk'[w] = Idle
    BY <1>3 DEF Return
  <2> QED
    BY <1>1, <2>1, IdleIsFree DEF Has
<1> QED
  BY <1>2, <1>3

\* A slot that has the token and goes on with a job of the same notification.
LEMMA SlotMoves ==
    ASSUME wk \in [Workers -> WorkerState], NEW w \in Workers, NEW r,
           wk' = [wk EXCEPT ![w] = r], Live(wk[w]), JobOf(r)[1] = JobOf(wk[w])[1]
    PROVE  Others(w) /\ wk'[w] = r /\ \A n \in Notifs : Has(wk'[w], n) => Has(wk[w], n)
BY DEF Others, Has

\* A status that is written is not "absent".
LEMMA StatusStays ==
    ASSUME status \in [Jobs -> Statuses], NEW i, NEW s, s # "absent",
           status' = [status EXCEPT ![i] = s], s # "canceled" \/ ~IsDigest(i)
    PROVE  /\ StoredStays
           /\ \A j \in Jobs : IsDigest(j) /\ status'[j] = "canceled" => status[j] = "canceled"
<1>1. \A j \in Jobs : status'[j] = IF j = i THEN s ELSE status[j]
  OBVIOUS
<1>2. \A n \in Notifs : <<n, 1>> \in Jobs
  BY StepAssumption DEF Jobs, Steps
<1> QED
  BY <1>1, <1>2 DEF StoredStays, Stored

LEMMA SameStays ==
    ASSUME status' = status
    PROVE  /\ StoredStays
           /\ \A j \in Jobs : IsDigest(j) /\ status'[j] = "canceled" => status[j] = "canceled"
BY DEF StoredStays, Stored

-----------------------------------------------------------------------------
(* AddJob.                                                                  *)

LEMMA AddJobSteady ==
    ASSUME Calm, ChainInv, NEW w \in Workers, AddJobStep(w)
    PROVE  Steady(w)
<1>1. /\ wk[w] \in WorkerState /\ SlotOK(wk[w]) /\ SlotChain(wk[w])
      /\ wk \in [Workers -> WorkerState] /\ status \in [Jobs -> Statuses]
  BY DEF ChainInv, TypeInv, TypeOK, SlotsOK, SlotsInChain
<1> USE <1>1
<1>2. ASSUME NEW n \in Notifs, StoreJobs(w, n) PROVE Steady(w)
  <2> DEFINE r == [Idle EXCEPT !.pc = "add", !.add = <<n, 1>>]
  <2>1. r.pc = "add" /\ r.add = <<n, 1>> /\ r.phase = "store" /\ r.err = "none"
    BY DEF Idle
  <2>2. wk'[w] = r /\ Others(w) /\ waiting' = waiting
    BY <1>2 DEF StoreJobs, Others
  <2> HIDE DEF r
  <2>3. SlotChain(r)
    BY <2>1 DEF SlotChain, Sched, Running, Failing
  <2>4. \A m \in Notifs : Has(r, m) => m = n
    BY <2>1, JobOfSched DEF Has, Sched
  <2>5. \A m \in Notifs : <<m, 1>> \in Jobs
    BY StepAssumption DEF Jobs, Steps
  <2>6. \A j \in Jobs : status'[j] = IF j[1] = n THEN "pending" ELSE status[j]
    BY <1>2 DEF StoreJobs
  <2>7. StoredStays /\ ~Stored(n) /\ Stored(n)'
    BY <1>2, <2>5, <2>6 DEF StoreJobs, StoredStays, Stored
  <2>8. Quits(w)
    BY <1>2, <2>6, IdleIsFree DEF StoreJobs, Quits
  <2> QED
    BY <2>2, <2>3, <2>4, <2>7, <2>8 DEF Steady, Moves, Starts
<1>3. ASSUME AddPlain(w) \/ AddDelay(w) PROVE Steady(w)
  <2>1. PICK s \in {"queued", "delayed"} : SetStatus(wk[w].add, s)
    BY <1>3 DEF AddPlain, AddDelay
  <2>2. wk[w].pc = "add" /\ GoTo(w, "enqueue") /\ waiting' = waiting
    BY <1>3 DEF AddPlain, AddDelay, Adding
  <2>3. Keeps(w) /\ SlotChain(wk'[w])
    BY <2>2, SchedMoves DEF Sched
  <2> QED
    BY <2>1, <2>2, <2>3, StatusStays DEF SetStatus, Steady, Moves, Quits
<1>4. ASSUME AddDelayMisconfigured(w) PROVE Steady(w)
  <2>1. Keeps(w) /\ SlotChain(wk'[w])
    BY <1>4, ReturnMoves DEF AddDelayMisconfigured, Adding, Errors, Keeps, Sched
  <2> QED
    BY <1>4, <2>1, StatusStays
       DEF AddDelayMisconfigured, Adding, IsDigest, SetStatus, Steady, Moves, Quits
<1>5. ASSUME AddThrows(w) PROVE Steady(w)
  <2>1. Keeps(w) /\ SlotChain(wk'[w])
    BY <1>5, ReturnMoves DEF AddThrows, Errors, ErrorsOf, Keeps, Sched
  <2> QED
    BY <1>5, <2>1, SameStays DEF AddThrows, db, Steady, Moves, Quits
<1>6. ASSUME DigestFiltered(w) \/ DecideSkip(w) \/ DecideCreate(w) PROVE Steady(w)
  <2>1. PICK pc \in {"skip", "claim"} : GoTo(w, pc)
    BY <1>6 DEF DigestFiltered, DecideSkip, DecideCreate
  <2>2. wk[w].pc = "add" /\ waiting' = waiting /\ status' = status
    BY <1>6 DEF DigestFiltered, DecideSkip, DecideCreate, Adding, db
  <2>3. Keeps(w) /\ SlotChain(wk'[w])
    BY <2>1, <2>2, SchedMoves DEF Sched
  <2> QED
    BY <2>2, <2>3, SameStays DEF Steady, Moves, Quits
<1>7. ASSUME DecideMerge(w) PROVE Steady(w)
  <2>1. PICK d : wk' = [wk EXCEPT ![w].pc = "merge", ![w].hit = d,
                                  ![w].todo = wk[w].add[2]..NumSteps]
    BY <1>7 DEF DecideMerge
  <2> DEFINE r == [wk[w] EXCEPT !.pc = "merge", !.hit = d, !.todo = wk[w].add[2]..NumSteps]
  <2>2. wk' = [wk EXCEPT ![w] = r] /\ wk[w].pc = "add"
    BY <1>7, <2>1 DEF DecideMerge, Adding
  <2>3. /\ r.pc = "merge" /\ r.add = wk[w].add /\ r.phase = wk[w].phase
        /\ r.bull = wk[w].bull /\ r.err = wk[w].err /\ r.made = wk[w].made
    BY DEF WorkerState
  <2> HIDE DEF r
  <2>4. Live(wk[w]) /\ JobOf(r)[1] = JobOf(wk[w])[1]
    BY <2>2, <2>3, JobOfSched DEF Sched
  <2>5. Keeps(w) /\ wk'[w] = r
    BY <1>7, <2>2, <2>4, SlotMoves DEF Keeps, DecideMerge
  <2>6. SlotChain(r)
    BY <2>2, <2>3 DEF SlotChain, Sched, Failing, Running
  <2> QED
    BY <1>7, <2>2, <2>5, <2>6, SameStays DEF DecideMerge, db, Steady, Moves, Quits
<1>8. ASSUME Claim(w) PROVE Steady(w)
  <2>1. Keeps(w) /\ SlotChain(wk'[w])
    BY <1>8, SchedMoves DEF Claim, Sched
  <2> QED
    BY <1>8, <2>1, StatusStays DEF Claim, SetStatus, Steady, Moves, Quits
<1>9. ASSUME MergeWrite(w) PROVE Steady(w)
  <2>1. PICK s \in wk[w].todo :
           /\ status' = [status EXCEPT ![<<wk[w].add[1], s>>] = "merged"]
           /\ IF wk[w].todo = {s} THEN Merged(w) ELSE wk' = [wk EXCEPT ![w].todo = @ \ {s}]
    BY <1>9 DEF MergeWrite
  <2>2. wk[w].pc = "merge" /\ waiting' = waiting
    BY <1>9 DEF MergeWrite
  <2>3. Keeps(w) /\ SlotChain(wk'[w])
    <3>1. CASE wk[w].todo = {s}
      BY <2>1, <2>2, <3>1, ReturnMoves DEF Merged, Errors, Keeps, Sched
    <3>2. CASE wk[w].todo # {s}
      <4> DEFINE r == [wk[w] EXCEPT !.todo = wk[w].todo \ {s}]
      <4>1. wk' = [wk EXCEPT ![w] = r]
        BY <2>1, <3>2
      <4>2. /\ r.pc = "merge" /\ r.add = wk[w].add /\ r.phase = wk[w].phase
            /\ r.bull = wk[w].bull /\ r.err = wk[w].err /\ r.made = wk[w].made
        BY <2>2 DEF WorkerState
      <4> HIDE DEF r
      <4>3. Live(wk[w]) /\ JobOf(r)[1] = JobOf(wk[w])[1]
        BY <2>2, <4>2, JobOfSched DEF Sched
      <4>4. SlotChain(r)
        BY <2>2, <4>2 DEF SlotChain, Sched, Failing, Running
      <4> QED
        BY <2>2, <4>1, <4>3, <4>4, SlotMoves DEF Keeps
    <3> QED
      BY <3>1, <3>2
  <2> QED
    BY <2>1, <2>2, <2>3, StatusStays DEF Steady, Moves, Quits
<1>10. ASSUME Skip(w) PROVE Steady(w)
  <2>1. wk[w].pc = "skip" /\ waiting' = waiting /\ SetStatus(wk[w].add, "skipped")
    BY <1>10 DEF Skip
  <2>2. Keeps(w) /\ SlotChain(wk'[w])
    <3>1. CASE HasChild(wk[w].add)
      <4> DEFINE r == [wk[w] EXCEPT !.pc = "add", !.add = Child(wk[w].add)]
      <4>1. wk' = [wk EXCEPT ![w] = r]
        BY <1>10, <3>1 DEF Skip, Skipped
      <4>2. /\ r.pc = "add" /\ r.add = Child(wk[w].add) /\ r.phase = wk[w].phase
            /\ r.bull = wk[w].bull /\ r.err = wk[w].err /\ r.made = wk[w].made
        BY DEF WorkerState
      <4> HIDE DEF r
      <4>3. wk[w].add \in Jobs
        BY <2>1 DEF SlotOK
      <4>4. r.add[1] = wk[w].add[1] /\ r.add[2] = wk[w].add[2] + 1
        BY <4>2 DEF Child
      <4>5. Live(wk[w]) /\ JobOf(r)[1] = JobOf(wk[w])[1]
        BY <2>1, <4>2, <4>4, JobOfSched DEF Sched
      <4>6. SlotChain(r)
        BY <2>1, <4>2, <4>3, <4>4, JobFacts DEF SlotChain, Sched, Failing, Running
      <4> QED
        BY <2>1, <4>1, <4>5, <4>6, SlotMoves DEF Keeps
    <3>2. CASE ~HasChild(wk[w].add)
      BY <1>10, <2>1, <3>2, ReturnMoves DEF Skip, Skipped, Errors, Keeps, Sched
    <3> QED
      BY <3>1, <3>2
  <2> QED
    BY <2>1, <2>2, StatusStays DEF SetStatus, Steady, Moves, Quits
<1>11. ASSUME Enqueue(w) PROVE Steady(w)
  <2>1. wk[w].pc = "enqueue" /\ Push(wk[w].add, 0) /\ status' = status
    BY <1>11 DEF Enqueue, db
  <2>2. Others(w) /\ ~Live(wk'[w]) /\ SlotChain(wk'[w])
    BY <1>11, <2>1, ReturnMoves DEF Enqueue, Errors, Sched
  <2>3. wk[w].add \in Jobs /\ Has(wk[w], wk[w].add[1]) /\ 0 \in 0..MaxStarts
    BY <2>1, JobOfSched, MaxStartsNat DEF SlotOK, Sched, Has
  <2>4. Puts(w)
    BY <2>1, <2>2, <2>3 DEF Puts
  <2> QED
    BY <2>1, <2>2, <2>4, SameStays DEF Steady, Moves, Quits
<1> QED
  BY <1>2, <1>3, <1>4, <1>5, <1>6, <1>7, <1>8, <1>9, <1>10, <1>11 DEF AddJobStep

-----------------------------------------------------------------------------
(* RunJob.                                                                  *)

\* A running slot that goes on with the same job.
LEMMA RunningMoves ==
    ASSUME wk \in [Workers -> WorkerState], NEW w \in Workers, SlotChain(wk[w]),
           wk[w].pc \in {"mark", "send", "digest", "complete"}, NEW r,
           wk' = [wk EXCEPT ![w] = r], r.pc \in Running,
           r.cur = wk[w].cur, r.bull = wk[w].bull, r.phase = wk[w].phase,
           r.made = wk[w].made, r.err = "none", waiting' = waiting
    PROVE  Keeps(w) /\ SlotChain(wk'[w])
<1>1. Live(wk[w]) /\ JobOf(r)[1] = JobOf(wk[w])[1]
  BY JobOfRunning DEF Running
<1>2. SlotChain(r)
  BY DEF SlotChain, Sched, Failing, Running
<1> QED
  BY <1>1, <1>2, SlotMoves DEF Keeps

\* The error of a step keeps the token: the slot adds the next job, or settles the delivery.
LEMMA CaughtMoves ==
    ASSUME wk \in [Workers -> WorkerState], NEW w \in Workers, SlotChain(wk[w]),
           wk[w].pc = "send", NEW e \in Errors, e # "none", Caught(w, e),
           e = "plain" => wk[w].cur[2] \in Fallible, waiting' = waiting
    PROVE  Keeps(w) /\ SlotChain(wk'[w])
<1> DEFINE pc == IF StopsChain(wk[w].cur[2], e) THEN "reject" ELSE "next"
           r == [wk[w] EXCEPT !.err = e, !.pc = pc]
<1>1. wk' = [wk EXCEPT ![w] = r]
  BY DEF Caught
<1>2. /\ r.pc = pc /\ r.err = e /\ r.cur = wk[w].cur /\ r.bull = wk[w].bull
      /\ r.phase = wk[w].phase /\ r.made = wk[w].made
  BY DEF WorkerState
<1>3. wk[w].cur = wk[w].bull /\ wk[w].phase = "run" /\ wk[w].made > 0
  BY DEF SlotChain, Running
<1>4. pc = "reject" \/ (pc = "next" /\ e = "plain")
  BY DEF StopsChain, Errors
<1> HIDE DEF r, pc
<1>5. Live(wk[w]) /\ JobOf(r)[1] = JobOf(wk[w])[1]
  BY <1>2, <1>3, <1>4, JobOfRunning, JobOfFailing DEF Running, Failing
<1>6. SlotChain(r)
  BY <1>2, <1>3, <1>4 DEF SlotChain, Sched, Failing, Running
<1> QED
  BY <1>1, <1>5, <1>6, SlotMoves DEF Keeps

\* The delivery of a cancelled digest is not received: its slot is about to complete it.
LEMMA ReceiveSteady ==
    ASSUME ChainInv, NEW w \in Workers, NEW j \in Jobs, NEW a \in 0..MaxStarts, Receive(w, j, a)
    PROVE  Steady(w)
<1> DEFINE run == [Idle EXCEPT !.phase = "run", !.bull = j, !.made = a + 1]
           mark == [run EXCEPT !.pc = "mark", !.cur = j, !.batch = Carries(j)]
<1>1. wk[w] = Idle /\ waiting[j][a] > 0 /\ Pull(j, a) /\ status' = status
  BY DEF Receive, HasDelivery, Pull, db
<1>2. ~(DelayedEventIsCanceled(j) /\ IsDigest(j))
  <2>1. SUFFICES ASSUME status[j] = "canceled", IsDigest(j) PROVE FALSE
    BY DEF DelayedEventIsCanceled
  <2>2. PICK v \in Workers : wk[v].pc = "complete" /\ wk[v].cur = j
    BY <2>1 DEF ChainInv, FilteredIsCompleted
  <2>3. Has(wk[v], j[1])
    BY <2>2, JobOfRunning DEF Running, Has
  <2> QED
    BY <1>1, <2>3, JobFacts DEF ChainInv, SlotOrQueue, NoDelivery
<1>3. wk' = [wk EXCEPT ![w] = mark] \/ wk' = wk
  BY <1>2 DEF Receive
<1>4. Others(w) /\ (wk'[w] = mark \/ wk'[w] = Idle)
  BY <1>1, <1>3 DEF Others, ChainInv, TypeInv, TypeOK
<1>5. /\ mark.pc = "mark" /\ mark.cur = j /\ mark.bull = j /\ mark.phase = "run"
      /\ mark.made = a + 1 /\ mark.err = "none"
  BY DEF Idle
<1> HIDE DEF mark
<1>6. \A n \in Notifs : Has(wk'[w], n) => n = j[1]
  BY <1>4, <1>5, IdleIsFree, JobOfRunning DEF Has, Running
<1>7. SlotChain(wk'[w])
  BY <1>4, <1>5, IdleIsFree DEF SlotChain, Sched, Running, Failing
<1>8. Takes(w)
  BY <1>1, <1>4, <1>6, IdleIsFree DEF Takes
<1>9. Quits(w)
  BY <1>1, IdleIsFree, SameStays DEF Quits
<1> QED
  BY <1>1, <1>7, <1>8, <1>9, SameStays DEF Steady, Moves

\* After the last attempt the handler of the failure adds the next job.
LEMMA HandleFailedSteady ==
    ASSUME ChainInv, NEW w \in Workers, HandleFailed(w)
    PROVE  Steady(w)
<1> DEFINE j == wk[w].bull
           last == IsLastFailure(wk[w].err, wk[w].made)
           r == [wk[w] EXCEPT !.pc = "next", !.phase = "last", !.cur = j, !.err = "none"]
<1>1. /\ wk[w] \in WorkerState /\ SlotChain(wk[w]) /\ wk[w].pc = "failed" /\ waiting' = waiting
      /\ wk \in [Workers -> WorkerState] /\ status \in [Jobs -> Statuses]
  BY DEF ChainInv, TypeInv, TypeOK, SlotsInChain, HandleFailed, At
<1>2. /\ r.pc = "next" /\ r.phase = "last" /\ r.cur = j /\ r.bull = j /\ r.err = "none"
  BY <1>1 DEF WorkerState
<1>3. Keeps(w) /\ SlotChain(wk'[w])
  <2>1. CASE last /\ j[2] \notin StopOnFail
    <3>1. wk' = [wk EXCEPT ![w] = r]
      BY <2>1 DEF HandleFailed
    <3> HIDE DEF r
    <3>2. Live(wk[w]) /\ JobOf(r)[1] = JobOf(wk[w])[1]
      BY <1>1, <1>2, <2>1, JobOfRunning, JobOfFailing DEF Live, Last, Running, Failing
    <3>3. SlotChain(r)
      BY <1>2 DEF SlotChain, Sched, Failing, Running
    <3> QED
      BY <1>1, <3>1, <3>2, <3>3, SlotMoves DEF Keeps
  <2>2. CASE ~(last /\ j[2] \notin StopOnFail)
    <3>1. wk' = [wk EXCEPT ![w] = Idle]
      BY <2>2 DEF HandleFailed
    <3> QED
      BY <1>1, <3>1, IdleIsFree DEF Keeps, Has, Others
  <2> QED
    BY <2>1, <2>2
<1>4. status' = status \/ status' = [status EXCEPT ![j] = "failed"]
  BY DEF HandleFailed
<1> QED
  BY <1>1, <1>3, <1>4, StatusStays, SameStays DEF Steady, Moves, Quits

\* A rejected delivery goes back to the queue, or is over.
LEMMA RejectSteady ==
    ASSUME ChainInv, NEW w \in Workers, Reject(w)
    PROVE  Steady(w)
<1> DEFINE r == [wk[w] EXCEPT !.pc = "failed"]
<1>1. /\ wk[w] \in WorkerState /\ SlotOK(wk[w]) /\ SlotChain(wk[w]) /\ wk[w].pc = "reject"
      /\ wk \in [Workers -> WorkerState] /\ status' = status /\ wk' = [wk EXCEPT ![w] = r]
  BY DEF ChainInv, TypeInv, TypeOK, SlotsOK, SlotsInChain, Reject, At, db
<1>2. /\ r.pc = "failed" /\ r.bull = wk[w].bull /\ r.phase = wk[w].phase
      /\ r.made = wk[w].made /\ r.err = wk[w].err
  BY <1>1 DEF WorkerState
<1> HIDE DEF r
<1>3. SlotChain(r) /\ Others(w) /\ wk'[w] = r
  BY <1>1, <1>2 DEF SlotChain, Sched, Running, Failing, Others
<1>4. Moves(w)
  <2>1. CASE wk[w].made < Attempts(wk[w].bull)
    <3>1. Push(wk[w].bull, wk[w].made)
      BY <2>1 DEF Reject
    <3>2. Has(wk[w], wk[w].bull[1])
      BY <1>1, <2>1, JobOfFailing DEF Has, Live, Retried, Failing
    <3>3. wk[w].made < DefaultAttempts
      BY <1>1, <2>1, MaxStartsNat DEF Attempts, DefaultAttempts, WorkerState
    <3>4. ~Live(r)
      BY <1>1, <1>2, <3>3, JobOfFailing, MaxStartsNat
         DEF Failing, Retried, Last, IsLastFailure, DefaultAttempts, WorkerState
    <3>5. wk[w].bull \in Jobs /\ wk[w].made \in 0..MaxStarts
      BY <1>1 DEF SlotOK, WorkerState
    <3> QED
      BY <1>3, <3>1, <3>2, <3>4, <3>5 DEF Moves, Puts
  <2>2. CASE ~(wk[w].made < Attempts(wk[w].bull))
    <3>1. waiting' = waiting
      BY <2>2 DEF Reject
    <3>2. Live(r) => Live(wk[w])
      BY <1>1, <1>2, JobOfFailing DEF Live, Last, Retried, Failing
    <3>3. JobOf(r) = JobOf(wk[w])
      BY <1>1, <1>2, JobOfFailing DEF Failing
    <3> QED
      BY <1>3, <3>1, <3>2, <3>3 DEF Moves, Keeps, Has
  <2> QED
    BY <2>1, <2>2
<1> QED
  BY <1>1, <1>3, <1>4, SameStays DEF Steady, Quits

LEMMA RunJobSteady ==
    ASSUME Calm, ChainInv, NEW w \in Workers, RunJobStep(w)
    PROVE  Steady(w) \/ FilterOut(w) \/ MarkCompleted(w)
<1>1. /\ wk[w] \in WorkerState /\ SlotOK(wk[w]) /\ SlotChain(wk[w])
      /\ wk \in [Workers -> WorkerState] /\ status \in [Jobs -> Statuses]
  BY DEF ChainInv, TypeInv, TypeOK, SlotsOK, SlotsInChain
<1> USE <1>1
<1>2. ~FindFollower(w) /\ ~NoFollower(w)
  BY DEF FindFollower, NoFollower, At, SlotChain
<1>3. ASSUME MarkRunning(w) PROVE Steady(w)
  <2> DEFINE r == [wk[w] EXCEPT !.pc = "send"]
  <2>1. wk' = [wk EXCEPT ![w] = r] /\ wk[w].pc = "mark" /\ waiting' = waiting
    BY <1>3 DEF MarkRunning, At
  <2>2. /\ r.pc = "send" /\ r.cur = wk[w].cur /\ r.bull = wk[w].bull
        /\ r.phase = wk[w].phase /\ r.made = wk[w].made /\ r.err = "none"
    BY <2>1 DEF WorkerState, SlotChain
  <2> HIDE DEF r
  <2>3. Keeps(w) /\ SlotChain(wk'[w])
    BY <2>1, <2>2, RunningMoves DEF Running
  <2> QED
    BY <1>3, <2>1, <2>3, StatusStays DEF MarkRunning, Steady, Moves, Quits
<1>4. ASSUME SendNothing(w) \/ Deliver(w) \/ ReadBatch(w) \/ WriteBatch(w) PROVE Steady(w)
  <2>1. wk[w].pc \in {"send", "digest"} /\ status' = status /\ waiting' = waiting
    BY <1>4 DEF SendNothing, Deliver, ReadBatch, WriteBatch, At, db
  <2>2. wk[w].err = "none"
    BY <2>1 DEF SlotChain
  <2>3. Keeps(w) /\ SlotChain(wk'[w])
    <3>1. CASE SendNothing(w) \/ Deliver(w) \/ WriteBatch(w)
      <4> DEFINE r == [wk[w] EXCEPT !.pc = "complete"]
      <4>1. wk' = [wk EXCEPT ![w] = r]
        BY <3>1 DEF SendNothing, Deliver, WriteBatch
      <4>2. /\ r.pc = "complete" /\ r.cur = wk[w].cur /\ r.bull = wk[w].bull
            /\ r.phase = wk[w].phase /\ r.made = wk[w].made /\ r.err = "none"
        BY <2>2 DEF WorkerState
      <4> HIDE DEF r
      <4> QED
        BY <2>1, <4>1, <4>2, RunningMoves DEF Running
    <3>2. CASE ReadBatch(w)
      <4> DEFINE r == [wk[w] EXCEPT !.pc = "digest", !.batch = DigestEvents(wk[w].cur)]
      <4>1. wk' = [wk EXCEPT ![w] = r]
        BY <3>2 DEF ReadBatch
      <4>2. /\ r.pc = "digest" /\ r.cur = wk[w].cur /\ r.bull = wk[w].bull
            /\ r.phase = wk[w].phase /\ r.made = wk[w].made /\ r.err = "none"
        BY <2>2 DEF WorkerState
      <4> HIDE DEF r
      <4> QED
        BY <2>1, <4>1, <4>2, RunningMoves DEF Running
    <3> QED
      BY <1>4, <3>1, <3>2
  <2> QED
    BY <2>1, <2>3, SameStays DEF Steady, Moves, Quits
<1>5. ASSUME SendThrows(w) \/ DeliverThrows(w) PROVE Steady(w)
  <2>1. wk[w].pc = "send" /\ status' = status /\ waiting' = waiting
    BY <1>5 DEF SendThrows, DeliverThrows, At, db
  <2>2. PICK e \in ErrorsOf(wk[w].cur[2]) : Caught(w, e)
    BY <1>5 DEF SendThrows, DeliverThrows, ErrorsOf
  <2>3. e \in Errors /\ e # "none" /\ (e = "plain" => wk[w].cur[2] \in Fallible)
    BY DEF ErrorsOf, Errors
  <2>4. Keeps(w) /\ SlotChain(wk'[w])
    BY <2>1, <2>2, <2>3, CaughtMoves
  <2> QED
    BY <2>1, <2>4, SameStays DEF Steady, Moves, Quits
<1>6. ASSUME QueueNext(w) PROVE Steady(w)
  <2>1. wk[w].pc = "next" /\ waiting' = waiting /\ status' = status
    BY <1>6 DEF QueueNext, At, db
  <2>2. Keeps(w) /\ SlotChain(wk'[w])
    <3>1. CASE HasChild(wk[w].cur)
      <4> DEFINE r == [wk[w] EXCEPT !.pc = "add", !.add = Child(wk[w].cur)]
      <4>1. wk' = [wk EXCEPT ![w] = r]
        BY <1>6, <3>1 DEF QueueNext
      <4>2. /\ r.pc = "add" /\ r.add = Child(wk[w].cur) /\ r.phase = wk[w].phase
            /\ r.bull = wk[w].bull /\ r.err = wk[w].err /\ r.made = wk[w].made
        BY DEF WorkerState
      <4> HIDE DEF r
      <4>3. wk[w].cur \in Jobs /\ wk[w].bull = wk[w].cur
        BY <2>1 DEF SlotOK, SlotChain, Running
      <4>4. r.add[1] = wk[w].cur[1] /\ r.add[2] = wk[w].cur[2] + 1
        BY <4>2 DEF Child
      <4>5. Live(wk[w]) /\ JobOf(r)[1] = JobOf(wk[w])[1]
        BY <2>1, <4>2, <4>4, JobOfSched, JobOfRunning DEF Sched, Running
      <4>6. SlotChain(r)
        BY <2>1, <4>2, <4>3, <4>4, JobFacts DEF SlotChain, Sched, Failing, Running
      <4> QED
        BY <2>1, <4>1, <4>5, <4>6, SlotMoves DEF Keeps
    <3>2. CASE ~HasChild(wk[w].cur)
      BY <1>6, <2>1, <3>2, ReturnMoves DEF QueueNext, Errors, Keeps
    <3> QED
      BY <3>1, <3>2
  <2> QED
    BY <2>1, <2>2, SameStays DEF Steady, Moves, Quits
<1> QED
  BY <1>2, <1>3, <1>4, <1>5, <1>6, ReceiveSteady, HandleFailedSteady, RejectSteady DEF RunJobStep

-----------------------------------------------------------------------------
(* The environment.                                                         *)

LEMMA EnqueueLostSteady ==
    ASSUME Calm, ChainInv, NEW w \in Workers, EnqueueLost(w)
    PROVE  Steady(w)
<1>1. wk \in [Workers -> WorkerState] /\ SlotChain(wk[w]) /\ wk[w].pc = "enqueue"
  BY DEF ChainInv, TypeInv, TypeOK, SlotsInChain, EnqueueLost
<1>2. Keeps(w) /\ SlotChain(wk'[w])
  BY <1>1, ReturnMoves DEF EnqueueLost, Errors, Keeps, Sched
<1> QED
  BY <1>1, <1>2, SameStays DEF EnqueueLost, db, Steady, Moves, Quits

\* A slot that dies gives its token back to the queue, or loses it.
LEMMA CrashMoves ==
    ASSUME Calm, ChainInv, NEW w \in Workers, Crash(w)
    PROVE  Moves(w) /\ StoredStays /\ SlotChain(wk'[w])
<1>1. /\ wk[w] \in WorkerState /\ SlotOK(wk[w]) /\ SlotChain(wk[w]) /\ wk[w].pc # "idle"
      /\ wk \in [Workers -> WorkerState] /\ status' = status /\ "crash" \in Faults
      /\ Others(w) /\ wk'[w] = Idle
  BY DEF ChainInv, TypeInv, TypeOK, SlotsOK, SlotsInChain, Crash, At, db, Others
<1>2. Moves(w)
  <2>1. CASE wk[w].phase = "run" /\ wk[w].pc # "failed"
    <3>1. Push(wk[w].bull, wk[w].made)
      BY <2>1 DEF Crash, At
    <3>2. Live(wk[w]) /\ JobOf(wk[w])[1] = wk[w].bull[1]
      <4>1. CASE wk[w].pc \in Sched
        BY <1>1, <2>1, <4>1, JobOfSched DEF SlotChain
      <4>2. CASE wk[w].pc \in Running
        BY <1>1, <2>1, <4>2, JobOfRunning DEF SlotChain
      <4>3. CASE wk[w].pc = "reject"
        BY <1>1, <4>3, JobOfFailing DEF Live, Retried, Failing
      <4> QED
        BY <1>1, <2>1, <4>1, <4>2, <4>3
           DEF SlotChain, WorkerState, WorkerPCs, Sched, Running
    <3>3. wk[w].bull \in Jobs /\ wk[w].made \in 0..MaxStarts
      BY <1>1, <2>1 DEF SlotOK, WorkerState
    <3> QED
      BY <1>1, <3>1, <3>2, <3>3, IdleIsFree DEF Moves, Puts, Has
  <2>2. CASE ~(wk[w].phase = "run" /\ wk[w].pc # "failed")
    BY <1>1, <2>2, IdleIsFree DEF Crash, At, Moves, Keeps, Has
  <2> QED
    BY <2>1, <2>2
<1> QED
  BY <1>1, <1>2, IdleIsFree, SameStays

LEMMA EndMoves ==
    ASSUME ChainInv, NEW w \in Workers, FilterOut(w) \/ MarkCompleted(w)
    PROVE  Moves(w) /\ StoredStays /\ SlotChain(wk'[w])
<1> DEFINE pc == IF FilterOut(w) THEN "complete" ELSE "next"
           r == [wk[w] EXCEPT !.pc = pc]
<1>1. /\ wk[w] \in WorkerState /\ SlotChain(wk[w]) /\ wk[w].pc \in {"send", "complete"}
      /\ wk \in [Workers -> WorkerState] /\ status \in [Jobs -> Statuses] /\ waiting' = waiting
      /\ wk' = [wk EXCEPT ![w] = r]
  BY DEF ChainInv, TypeInv, TypeOK, SlotsInChain, FilterOut, MarkCompleted, At
<1>2. pc \in {"complete", "next"}
  OBVIOUS
<1>3. /\ r.pc = pc /\ r.cur = wk[w].cur /\ r.bull = wk[w].bull
      /\ r.phase = wk[w].phase /\ r.made = wk[w].made /\ r.err = "none"
  <2> HIDE DEF pc
  <2> QED
    BY <1>1 DEF WorkerState, SlotChain
<1> HIDE DEF r, pc
<1>4. Keeps(w) /\ SlotChain(wk'[w])
  BY <1>1, <1>2, <1>3, RunningMoves DEF Running
<1>5. StoredStays
  <2>1. PICK s \in {"canceled", "completed"} : status' = [status EXCEPT ![wk[w].cur] = s]
    BY DEF FilterOut, MarkCompleted
  <2>2. \A j \in Jobs : status'[j] = IF j = wk[w].cur THEN s ELSE status[j]
    BY <1>1, <2>1
  <2>3. \A n \in Notifs : <<n, 1>> \in Jobs
    BY StepAssumption DEF Jobs, Steps
  <2> QED
    BY <2>1, <2>2, <2>3 DEF StoredStays, Stored
<1> QED
  BY <1>4, <1>5 DEF Moves

\* A cancelled digest is completed by the slot that has cancelled it.
LEMMA FilteredKeeps ==
    ASSUME Calm, ChainInv, NEW w \in Workers,
           \/ Others(w) /\ Quits(w)
           \/ FilterOut(w) \/ MarkCompleted(w) \/ Crash(w)
    PROVE  FilteredIsCompleted'
<1>1. /\ wk[w] \in WorkerState /\ wk \in [Workers -> WorkerState]
      /\ status \in [Jobs -> Statuses] /\ SlotOK(wk[w])
  BY DEF ChainInv, TypeInv, TypeOK, SlotsOK
<1> SUFFICES ASSUME NEW j \in Jobs, IsDigest(j), status'[j] = "canceled"
             PROVE  "crash" \notin Faults /\ \E v \in Workers : wk'[v].pc = "complete" /\ wk'[v].cur = j
  BY DEF FilteredIsCompleted, IsDigest, TypeOf
<1>2. CASE Others(w) /\ Quits(w)
  BY <1>2 DEF Quits, Others, ChainInv, FilteredIsCompleted
<1>3. CASE FilterOut(w)
  <2>1. CASE j = wk[w].cur
    <3>1. "crash" \notin Faults
      BY <1>3, <2>1, JobFacts
         DEF FilterOut, Calm, CrashesAlone, DigestSteps, IsDigest, TypeOf
    <3>2. wk'[w].pc = "complete" /\ wk'[w].cur = j
      BY <1>1, <1>3, <2>1 DEF FilterOut, WorkerState
    <3> QED
      BY <3>1, <3>2
  <2>2. CASE j # wk[w].cur
    <3>1. status[j] = "canceled"
      BY <1>3, <2>2 DEF FilterOut
    <3>2. PICK v \in Workers : "crash" \notin Faults /\ wk[v].pc = "complete" /\ wk[v].cur = j
      BY <3>1 DEF ChainInv, FilteredIsCompleted
    <3>3. v # w
      BY <2>2, <3>2
    <3> QED
      BY <1>3, <3>2, <3>3 DEF FilterOut
  <2> QED
    BY <2>1, <2>2
<1>4. CASE MarkCompleted(w)
  <2>1. j # wk[w].cur /\ status[j] = "canceled"
    BY <1>1, <1>4 DEF MarkCompleted
  <2>2. PICK v \in Workers : "crash" \notin Faults /\ wk[v].pc = "complete" /\ wk[v].cur = j
    BY <2>1 DEF ChainInv, FilteredIsCompleted
  <2>3. v # w
    BY <2>1, <2>2
  <2> QED
    BY <1>4, <2>2, <2>3 DEF MarkCompleted
<1>5. CASE Crash(w)
  BY <1>5 DEF Crash, db, ChainInv, FilteredIsCompleted
<1> QED
  BY <1>2, <1>3, <1>4, <1>5

\* A step of a slot keeps the chains.
LEMMA SlotStepKeepsChain ==
    ASSUME Calm, ChainInv, TypeInv', NEW w \in Workers,
           AddJobStep(w) \/ RunJobStep(w) \/ EnqueueLost(w) \/ Crash(w)
    PROVE  ChainInv'
<1>1. Steady(w) \/ FilterOut(w) \/ MarkCompleted(w) \/ Crash(w)
  BY AddJobSteady, RunJobSteady, EnqueueLostSteady
<1>2. Moves(w) /\ StoredStays /\ SlotChain(wk'[w])
  BY <1>1, EndMoves, CrashMoves DEF Steady
<1>3. Others(w)
  BY <1>2 DEF Moves, Keeps, Puts, Takes, Starts
<1>4. Tokens'
  BY <1>2, MovesKeepTokens DEF ChainInv, TypeInv, Tokens
<1>5. SlotsInChain'
  BY <1>2, <1>3 DEF ChainInv, SlotsInChain, Others
<1>6. FilteredIsCompleted'
  BY <1>1, <1>3, FilteredKeeps DEF Steady
<1> QED
  BY <1>4, <1>5, <1>6 DEF ChainInv, Tokens

\* So does every other step.
LEMMA OtherStepKeepsChain ==
    ASSUME Calm, ChainInv, TypeInv',
           \/ \E x \in Cancelled : CancelStep(x)
           \/ \E g \in Groups : LockExpires(g) \/ DeadLockExpires(g)
           \/ UNCHANGED vars
    PROVE  ChainInv'
<1>1. wk' = wk /\ waiting' = waiting
  BY DEF CancelStep, CancelFind, CancelFindPending, CancelWrite, FindNextMain, NoNextMain, Promote,
         PromoteChild, Repoint, LockExpires, DeadLockExpires, vars
<1>2. \A j \in Jobs : status[j] # "absent" => status'[j] # "absent"
  <2>1. ASSUME NEW x \in Cancelled, CancelStep(x)
        PROVE  \A j \in Jobs : status[j] # "absent" => status'[j] # "absent"
    <3>1. \/ status' = status
          \/ \E i, s : s # "absent" /\ status' = [status EXCEPT ![i] = s]
          \/ \E S : status' = [j \in Jobs |-> IF j \in S THEN "canceled" ELSE status[j]]
      BY <2>1 DEF CancelStep, CancelFind, CancelFindPending, CancelWrite, FindNextMain,
             NoNextMain, Promote, PromoteChild, Repoint, db
    <3> QED
      BY <3>1 DEF ChainInv, TypeInv, TypeOK
  <2>2. CASE ~(\E x \in Cancelled : CancelStep(x))
    BY <2>2 DEF LockExpires, DeadLockExpires, vars, db
  <2> QED
    BY <2>1, <2>2
<1>3. StoredStays
  <2>1. \A n \in Notifs : <<n, 1>> \in Jobs
    BY StepAssumption DEF Jobs, Steps
  <2> QED
    BY <1>2, <2>1 DEF StoredStays, Stored
<1>4. SlotsInChain' /\ OneSlot' /\ SlotOrQueue' /\ OneDelivery'
  BY <1>1 DEF ChainInv, SlotsInChain, OneSlot, SlotOrQueue, OneDelivery, NoDelivery
<1>5. StoredFirst'
  BY <1>1, <1>3 DEF ChainInv, StoredFirst, NoToken, NoDelivery, StoredStays, Stored
<1>6. FilteredIsCompleted'
  <2>1. CASE \E x \in Cancelled : CancelStep(x)
    BY <2>1, JobFacts
       DEF Calm, NoDigestIsCancelled, DigestSteps, FilteredIsCompleted, IsDigest, TypeOf
  <2>2. CASE ~(\E x \in Cancelled : CancelStep(x))
    BY <1>1, <2>2
       DEF LockExpires, DeadLockExpires, vars, db, ChainInv, FilteredIsCompleted, IsDigest, TypeOf
  <2> QED
    BY <2>1, <2>2
<1> QED
  BY <1>4, <1>5, <1>6 DEF ChainInv

LEMMA ChainInit == Init => ChainInv
<1> SUFFICES ASSUME Init PROVE ChainInv
  OBVIOUS
<1>1. TypeInv
  BY TypeInit
<1>2. \A w \in Workers : wk[w] = Idle
  BY DEF Init
<1>3. \A j \in Jobs, a \in 0..MaxStarts : waiting[j][a] = 0
  BY DEF Init
<1>4. FilteredIsCompleted
  BY DEF Init, FilteredIsCompleted
<1>5. SlotsInChain /\ OneSlot /\ SlotOrQueue /\ OneDelivery /\ StoredFirst
  BY <1>2, <1>3, IdleIsFree
     DEF SlotsInChain, OneSlot, SlotOrQueue, OneDelivery, StoredFirst, NoToken, NoDelivery, Has
<1> QED
  BY <1>1, <1>4, <1>5 DEF ChainInv

LEMMA TypeStep == TypeInv /\ [Next]_vars => TypeInv'
<1>1. TypeInv /\ Next => TypeInv'
  BY AddJobType, RunJobType, CancelType, EnvironmentType DEF Next
<1>2. TypeInv /\ UNCHANGED vars => TypeInv'
  BY DEF TypeInv, TypeOK, SlotsOK, CallsOK, vars
<1> QED
  BY <1>1, <1>2

LEMMA ChainStep ==
    ASSUME Calm, ChainInv, [Next]_vars
    PROVE  ChainInv'
<1>1. TypeInv'
  BY TypeStep DEF ChainInv
<1> QED
  BY <1>1, SlotStepKeepsChain, OtherStepKeepsChain DEF Next, Environment

\* The token of a notification: at every time one worker slot at most works on the chain of
\* a notification, and none does while a delivery of the chain waits in the queue, where
\* there is one at most.  Slots may crash, locks expire and enqueues be lost.
THEOREM OneTokenEach ==
    ASSUME Calm
    PROVE  Spec => [](OneSlot /\ SlotOrQueue /\ OneDelivery)
<1>1. ChainInv /\ [Next]_vars => ChainInv'
  BY ChainStep
<1>2. ChainInv => OneSlot /\ SlotOrQueue /\ OneDelivery
  BY DEF ChainInv
<1> QED
  BY <1>1, <1>2, ChainInit, PTL DEF Spec

-----------------------------------------------------------------------------
(* Every event once.  How far the token of a notification is, on a scale   *)
(* where step s is scheduled at 2 * s - 1 and run at 2 * s, and which      *)
(* events a notification answers for.                                      *)

OneDigestStep == \A s, t \in DigestSteps : s = t

\* The step that is scheduled after step s, when digests between them are skipped.
Follows(s, t) == s < t /\ \A u \in Steps : s < u /\ u < t => u \in DigestSteps

\* A step that is retried is not run again because the step after it cannot be scheduled:
\* RunJob adds the next job in the finally block of the run, after the message has left.
RetriesAreClean ==
    \A s \in WebhookSteps, t \in Steps :
        Follows(s, t) /\ StepType[t] \in {"digest", "delay"} => t \notin Fallible \cup WebhookSteps

CleanRuns == Calm /\ "crash" \notin Faults /\ RetriesAreClean

NoRepeats == CleanRuns /\ OneDigestStep

Digests == {j \in Jobs : IsDigest(j)}

Pos(r) == CASE r.pc \in {"add", "skip", "claim", "merge"} -> 2 * r.add[2] - 1
            [] r.pc \in {"complete", "next"} -> 2 * r.cur[2] + 1
            [] OTHER -> 2 * JobOf(r)[2]

\* The token of notification n is at p; before n is stored it waits before the first step.
Token(n, p) ==
    \/ \E j \in Jobs, a \in 0..MaxStarts : j[1] = n /\ waiting[j][a] > 0 /\ p = 2 * j[2]
    \/ \E w \in Workers : Has(wk[w], n) /\ p = Pos(wk[w])
    \/ ~Stored(n) /\ p = 1

\* A slot is merging digest job j, into i.
Merging(w, j) == wk[w].pc = "merge" /\ wk[w].add = j

Into(j, i) ==
    \/ status[j] = "merged" /\ mergedInto[j] = i
    \/ \E w \in Workers : Merging(w, j) /\ wk[w].hit = i

\* Notification n answers for the event of e: its own one, or one merged into its digest.
Owns(n, e) ==
    \/ e = n /\ \A i, j \in Digests : j[1] = n => ~Into(j, i)
    \/ \E i, j \in Digests : i[1] = n /\ j[1] = e /\ Into(j, i)

-----------------------------------------------------------------------------
\* Without a crash no attempt is made beyond those a step is given, and between the job
\* that is run and the one that is scheduled only digests were skipped.
SlotAttempts(r) ==
    /\ r.pc \in {"skip", "claim"} => IsDigest(r.add)
    /\ r.pc = "digest" => IsDigest(r.cur)
    /\ r.phase = "run" => /\ r.made <= Attempts(r.bull)
                          /\ r.pc \in Sched => Follows(r.bull[2], r.add[2])

QueueAttempts == \A j \in Jobs, a \in 0..MaxStarts : waiting[j][a] > 0 => a < Attempts(j)

AttemptsOK == QueueAttempts /\ \A w \in Workers : SlotAttempts(wk[w])

\* What a slot that merges has written so far.
MergesOK ==
    /\ \A w \in Workers : wk[w].pc = "merge" =>
          /\ wk[w].add \in Digests /\ wk[w].hit \in Digests
          /\ IF status[wk[w].add] = "merged"
             THEN mergedInto[wk[w].add] = wk[w].hit
             ELSE wk[w].add[2] \in wk[w].todo
    /\ \A j \in Digests : status[j] = "merged" => mergedInto[j] \in Digests

\* Before its digest step is scheduled a notification has no open digest and no followers,
\* and before that step has run no events.
NotYetOpen ==
    \A d \in Digests, p \in Nat : Token(d[1], p) =>
        /\ p < 2 * d[2] => status[d] # "delayed" /\ \A j \in Digests : ~Into(j, d)
        /\ p <= 2 * d[2] => \A s \in Steps : events[<<d[1], s>>] = {}

\* A notification that was merged has lost its token.
MergedIsOver ==
    \A i, j \in Digests, p \in Nat : Token(j[1], p) /\ Into(j, i) => \E w \in Workers : Merging(w, j)

\* Nothing is merged into what is merged itself.
FlatInto == \A i, j, k \in Digests : Into(j, i) => ~Into(i, k)

\* The events a notification answers for have not been sent by the steps it has ahead.
Unsent ==
    \A n, e \in Notifs, p \in Nat, s \in Steps :
        Token(n, p) /\ Owns(n, e) /\ p <= 2 * s => delivered[s][e] = 0

EventsOwned == \A j \in Jobs : \A e \in events[j] : Owns(j[1], e)

BatchOwned ==
    \A w \in Workers : wk[w].pc \in {"mark", "send", "digest"} =>
        \A e \in wk[w].batch : Owns(wk[w].cur[1], e)

\* The token is ahead of a step whose failure is still to be written.
Trails(w) ==
    wk[w].pc \in Failing /\ wk[w].err = "plain" =>
        \A p \in Nat : Token(wk[w].bull[1], p) => p > 2 * wk[w].bull[2]

FailedBehind == \A w \in Workers : Trails(w)

\* And that step was not merged.
FailedUnmerged ==
    \A w \in Workers, i \in Digests :
        wk[w].pc \in Failing /\ wk[w].err = "plain" /\ wk[w].bull \in Digests => ~Into(wk[w].bull, i)

OnceInv ==
    /\ ChainInv /\ AttemptsOK /\ MergesOK /\ NotYetOpen /\ MergedIsOver /\ FlatInto
    /\ Unsent /\ EventsOwned /\ BatchOwned /\ FailedBehind /\ FailedUnmerged
    /\ EventOncePerStep

-----------------------------------------------------------------------------
(* Where the tokens are after a step.                                       *)

LEMMA DigestOfNotif ==
    ASSUME OneDigestStep, NEW i \in Digests, NEW j \in Digests, i[1] = j[1]
    PROVE  i = j
BY StepAssumption DEF OneDigestStep, Digests, DigestSteps, IsDigest, TypeOf, Jobs

LEMMA LiveJob ==
    ASSUME NEW r \in WorkerState, SlotOK(r), Live(r)
    PROVE  JobOf(r) \in Jobs /\ JobOf(r)[1] \in Notifs /\ JobOf(r)[2] \in Nat
<1>1. r.pc \in Sched \cup Running \cup Failing
  BY DEF Live, Retried, Last, Failing
<1>2. JobOf(r) \in Jobs
  BY <1>1, JobOfSched, JobOfRunning, JobOfFailing DEF SlotOK, Sched, Running, Failing
<1> QED
  BY <1>2, JobFacts

\* A slot that has the token of n has it alone.
LEMMA OnlyToken ==
    ASSUME ChainInv, NEW w \in Workers, NEW n \in Notifs, Has(wk[w], n)
    PROVE  /\ Stored(n) /\ NoDelivery(n)
           /\ \A v \in Workers : Has(wk[v], n) => v = w
           /\ \A p : Token(n, p) <=> p = Pos(wk[w])
<1>1. Stored(n) /\ NoDelivery(n) /\ \A v \in Workers : Has(wk[v], n) => v = w
  BY DEF ChainInv, StoredFirst, NoToken, OneSlot, SlotOrQueue
<1> QED
  BY <1>1 DEF Token, NoDelivery

\* Every token that slot w has had is at q or farther, the others are where they were.
Ahead(w, q) ==
    \A n \in Notifs, p \in Nat : Token(n, p)' => IF Has(wk[w], n) THEN p >= q ELSE Token(n, p)

LEMMA KeepsAhead ==
    ASSUME ChainInv, NEW w \in Workers, Others(w), waiting' = waiting, StoredStays, NEW q,
           \A n \in Notifs : Has(wk'[w], n) => Has(wk[w], n) /\ Pos(wk'[w]) >= q
    PROVE  Ahead(w, q)
<1> SUFFICES ASSUME NEW n \in Notifs, NEW p \in Nat, Token(n, p)'
             PROVE  IF Has(wk[w], n) THEN p >= q ELSE Token(n, p)
  BY DEF Ahead
<1>1. CASE \E v \in Workers : Has(wk'[v], n) /\ p = Pos(wk'[v])
  BY <1>1, OnlyToken DEF Others, Token
<1>2. CASE \E j \in Jobs, a \in 0..MaxStarts : j[1] = n /\ waiting[j][a] > 0 /\ p = 2 * j[2]
  BY <1>2, OnlyToken DEF Token, NoDelivery
<1>3. CASE ~Stored(n)' /\ p = 1
  BY <1>3, OnlyToken DEF Token, StoredStays
<1> QED
  BY <1>1, <1>2, <1>3 DEF Token

LEMMA PutsAhead ==
    ASSUME ChainInv, NEW w \in Workers, Others(w), StoredStays, ~Live(wk'[w]), NEW q,
           NEW j \in Jobs, NEW a \in 0..MaxStarts, Push(j, a), Has(wk[w], j[1]), 2 * j[2] >= q
    PROVE  Ahead(w, q)
<1> SUFFICES ASSUME NEW n \in Notifs, NEW p \in Nat, Token(n, p)'
             PROVE  IF Has(wk[w], n) THEN p >= q ELSE Token(n, p)
  BY DEF Ahead
<1>1. CASE \E v \in Workers : Has(wk'[v], n) /\ p = Pos(wk'[v])
  BY <1>1, OnlyToken DEF Others, Token, Has
<1>2. CASE \E i \in Jobs, b \in 0..MaxStarts : i[1] = n /\ waiting'[i][b] > 0 /\ p = 2 * i[2]
  <2>1. PICK i \in Jobs, b \in 0..MaxStarts : i[1] = n /\ waiting'[i][b] > 0 /\ p = 2 * i[2]
    BY <1>2
  <2>2. i = j \/ waiting[i][b] > 0
    BY <2>1, PushCounts DEF ChainInv, TypeInv, TypeOK
  <2> QED
    BY <2>1, <2>2, OnlyToken DEF Token, NoDelivery
<1>3. CASE ~Stored(n)' /\ p = 1
  BY <1>3, OnlyToken DEF Token, StoredStays
<1> QED
  BY <1>1, <1>2, <1>3 DEF Token

LEMMA TakesAhead ==
    ASSUME ChainInv, NEW w \in Workers, Others(w), StoredStays, ~Live(wk[w]), NEW q,
           NEW j \in Jobs, NEW a \in 0..MaxStarts, waiting[j][a] > 0, Pull(j, a),
           \A n \in Notifs : Has(wk'[w], n) => n = j[1] /\ Pos(wk'[w]) = 2 * j[2]
    PROVE  Ahead(w, q)
<1> SUFFICES ASSUME NEW n \in Notifs, NEW p \in Nat, Token(n, p)'
             PROVE  Token(n, p)
  BY DEF Ahead, Has
<1>1. CASE \E v \in Workers : Has(wk'[v], n) /\ p = Pos(wk'[v])
  BY <1>1 DEF Others, Token
<1>2. CASE \E i \in Jobs, b \in 0..MaxStarts : i[1] = n /\ waiting'[i][b] > 0 /\ p = 2 * i[2]
  <2>1. PICK i \in Jobs, b \in 0..MaxStarts : i[1] = n /\ waiting'[i][b] > 0 /\ p = 2 * i[2]
    BY <1>2
  <2>2. waiting[i][b] > 0
    <3>1. \A k \in Jobs, c \in 0..MaxStarts :
             waiting'[k][c] = IF k = j /\ c = a THEN waiting[k][c] - 1 ELSE waiting[k][c]
      BY TakeCounts DEF ChainInv, TypeInv, TypeOK
    <3>2. CASE i = j /\ b = a
      BY <3>2
    <3>3. CASE ~(i = j /\ b = a)
      BY <2>1, <3>1, <3>3
    <3> QED
      BY <3>2, <3>3
  <2> QED
    BY <2>1, <2>2 DEF Token
<1>3. CASE ~Stored(n)' /\ p = 1
  BY <1>3 DEF Token, StoredStays
<1> QED
  BY <1>1, <1>2, <1>3 DEF Token

LEMMA StartsAhead ==
    ASSUME ChainInv, NEW w \in Workers, Others(w), waiting' = waiting, StoredStays, ~Live(wk[w]),
           NEW q, NEW m \in Notifs, ~Stored(m),
           \A n \in Notifs : Has(wk'[w], n) => n = m /\ Pos(wk'[w]) = 1
    PROVE  Ahead(w, q)
<1> SUFFICES ASSUME NEW n \in Notifs, NEW p \in Nat, Token(n, p)'
             PROVE  Token(n, p)
  BY DEF Ahead, Has
<1>1. CASE \E v \in Workers : Has(wk'[v], n) /\ p = Pos(wk'[v])
  BY <1>1 DEF Others, Token
<1>2. CASE ~(\E v \in Workers : Has(wk'[v], n) /\ p = Pos(wk'[v]))
  BY <1>2 DEF Token, StoredStays
<1> QED
  BY <1>1, <1>2

-----------------------------------------------------------------------------
(* No step takes a token back.                                              *)

Onward(w) ==
    Ahead(w, Pos(wk[w])) /\ SlotAttempts(wk'[w]) /\ QueueAttempts' /\ Trails(w)'

LEMMA PosValues ==
    ASSUME NEW r
    PROVE  /\ r.pc \in {"add", "skip", "claim", "merge"} => Pos(r) = 2 * r.add[2] - 1
           /\ r.pc = "enqueue" => Pos(r) = 2 * r.add[2]
           /\ r.pc \in {"mark", "send", "digest"} => Pos(r) = 2 * r.cur[2]
           /\ r.pc \in {"complete", "next"} => Pos(r) = 2 * r.cur[2] + 1
           /\ r.pc \in Failing => Pos(r) = 2 * r.bull[2]
BY DEF Pos, JobOf, Sched, Running, Failing

\* After AddJob has returned the token is not with the slot, and the step that failed is
\* behind it.
LEMMA ReturnOnward ==
    ASSUME CleanRuns, ChainInv, AttemptsOK, NEW w \in Workers, wk[w].pc \in Sched \cup {"next"},
           Return(w, "none"), NEW q, Ahead(w, q), wk[w].phase = "run" => q > 2 * wk[w].bull[2],
           q \in Nat
    PROVE  SlotAttempts(wk'[w]) /\ Trails(w)'
<1>1. /\ wk[w] \in WorkerState /\ SlotChain(wk[w]) /\ SlotOK(wk[w]) /\ SlotAttempts(wk[w])
      /\ wk \in [Workers -> WorkerState]
  BY DEF ChainInv, TypeInv, TypeOK, SlotsOK, SlotsInChain, AttemptsOK
<1> DEFINE rej == [wk[w] EXCEPT !.pc = "reject", !.err = wk[w].err]
<1>2. CASE wk[w].phase = "run" /\ wk[w].err # "none"
  <2>1. wk'[w] = rej
    BY <1>1, <1>2 DEF Return
  <2>2. /\ wk'[w].pc = "reject" /\ wk'[w].phase = "run"
        /\ wk'[w].bull = wk[w].bull /\ wk'[w].made = wk[w].made
    BY <1>1, <1>2, <2>1 DEF WorkerState
  <2>3. Has(wk[w], wk[w].bull[1]) /\ wk[w].bull \in Jobs
    BY <1>1, <1>2, JobOfSched, JobOfRunning DEF SlotChain, SlotOK, Running, Has
  <2>4. Trails(w)'
    <3> SUFFICES ASSUME NEW p \in Nat, Token(wk[w].bull[1], p)' PROVE p > 2 * wk'[w].bull[2]
      BY DEF Trails
    <3>1. p >= q
      BY <2>2, <2>3, JobFacts DEF Ahead
    <3> QED
      BY <1>2, <2>2, <2>3, <3>1, JobFacts
  <2>5. SlotAttempts(wk'[w])
    BY <1>1, <1>2, <2>2 DEF SlotAttempts, Sched
  <2> QED
    BY <2>4, <2>5
<1>3. CASE ~(wk[w].phase = "run" /\ wk[w].err # "none")
  <2>1. wk'[w] = Idle
    BY <1>1, <1>3 DEF Return
  <2> QED
    BY <2>1, IdleIsFree DEF Trails, Failing, SlotAttempts
<1> QED
  BY <1>2, <1>3

\* A slot that has nothing to schedule is done with the token.
LEMMA ReturnEnds ==
    ASSUME CleanRuns, ChainInv, AttemptsOK, NEW w \in Workers, wk[w].pc \in Sched \cup {"next"},
           Return(w, "none"), waiting' = waiting, StoredStays
    PROVE  Onward(w)
<1>1. /\ SlotChain(wk[w]) /\ SlotOK(wk[w]) /\ wk \in [Workers -> WorkerState]
  BY DEF ChainInv, TypeInv, TypeOK, SlotsOK, SlotsInChain
<1>2. Others(w) /\ ~Live(wk'[w])
  BY <1>1, ReturnMoves DEF CleanRuns, Errors
<1>3. \A q : Ahead(w, q)
  BY <1>2, KeepsAhead DEF Has
<1>4. wk[w].phase = "run" => wk[w].bull[2] \in Nat
  BY <1>1, JobFacts DEF SlotOK
<1> DEFINE q == IF wk[w].phase = "run" THEN 2 * wk[w].bull[2] + 1 ELSE 0
<1>5. q \in Nat /\ (wk[w].phase = "run" => q > 2 * wk[w].bull[2])
  BY <1>4
<1> HIDE DEF q
<1>6. SlotAttempts(wk'[w]) /\ Trails(w)'
  BY <1>3, <1>5, ReturnOnward
<1> QED
  BY <1>3, <1>6 DEF Onward, AttemptsOK, QueueAttempts

\* A step that cannot be scheduled ends the chain: the run it rejects is not retried.
LEMMA ErrorOnward ==
    ASSUME CleanRuns, ChainInv, AttemptsOK, NEW w \in Workers, wk[w].pc = "add",
           IsAction(wk[w].add), NEW e \in ErrorsOf(wk[w].add[2]), Return(w, e),
           waiting' = waiting, StoredStays, Others(w)
    PROVE  Onward(w)
<1>1. /\ wk[w] \in WorkerState /\ SlotChain(wk[w]) /\ SlotOK(wk[w]) /\ SlotAttempts(wk[w])
      /\ wk \in [Workers -> WorkerState] /\ e # "none"
  BY DEF ChainInv, TypeInv, TypeOK, SlotsOK, SlotsInChain, AttemptsOK, ErrorsOf
<1>2. /\ ~Live(wk'[w]) /\ SlotAttempts(wk'[w])
      /\ wk'[w].pc \in Failing => Has(wk[w], wk'[w].bull[1]) /\ wk'[w].bull \in Jobs
  <2>1. CASE wk[w].phase = "run"
    <3> DEFINE rej == [wk[w] EXCEPT !.pc = "reject", !.err = e]
    <3>1. wk'[w] = rej
      BY <1>1, <2>1 DEF Return
    <3>2. /\ wk'[w].pc = "reject" /\ wk'[w].phase = "run"
          /\ wk'[w].bull = wk[w].bull /\ wk'[w].made = wk[w].made
      BY <1>1, <2>1, <3>1 DEF WorkerState
    <3>3. wk[w].bull \in Jobs /\ wk[w].add \in Jobs /\ Follows(wk[w].bull[2], wk[w].add[2])
      BY <1>1, <2>1 DEF SlotOK, SlotAttempts, Sched
    <3>4. wk[w].bull[2] \notin WebhookSteps
      BY <3>3, JobFacts DEF CleanRuns, RetriesAreClean, ErrorsOf, IsAction, TypeOf
    <3>5. wk[w].made = 1
      BY <1>1, <2>1, <3>4, MaxStartsNat
         DEF SlotAttempts, Attempts, SlotChain, WorkerState
    <3>6. ~Live(wk'[w]) /\ SlotAttempts(wk'[w])
      BY <3>2, <3>4, <3>5
         DEF CleanRuns, Live, Retried, Last, IsLastFailure, DefaultAttempts, Attempts, Sched,
             Running, SlotAttempts
    <3> QED
      BY <1>1, <2>1, <3>2, <3>3, <3>6, JobOfSched DEF SlotChain, Sched, Has
  <2>2. CASE wk[w].phase # "run"
    <3>1. wk'[w] = Idle
      BY <1>1, <2>2 DEF Return
    <3> QED
      BY <3>1, IdleIsFree DEF SlotAttempts, Failing
  <2> QED
    BY <2>1, <2>2
<1>3. \A q : Ahead(w, q)
  BY <1>2, KeepsAhead DEF Has
<1>4. Trails(w)'
  <2> SUFFICES ASSUME wk'[w].pc \in Failing, NEW p \in Nat, Token(wk[w].bull[1], p)'
               PROVE p > 2 * wk'[w].bull[2]
    BY DEF Trails
  <2>1. Ahead(w, 2 * wk'[w].bull[2] + 1)
    BY <1>3
  <2>2. p >= 2 * wk'[w].bull[2] + 1
    BY <1>2, <2>1, JobFacts DEF Ahead
  <2> QED
    BY <1>2, <2>2, JobFacts
<1> QED
  BY <1>2, <1>3, <1>4 DEF Onward, AttemptsOK, QueueAttempts

\* A slot that goes on scheduling the same job.
LEMMA SchedOnward ==
    ASSUME ChainInv, AttemptsOK, NEW w \in Workers, NEW r, wk' = [wk EXCEPT ![w] = r],
           wk[w].pc \in {"add", "skip", "claim", "merge"}, r.pc \in Sched,
           r.add = wk[w].add, r.bull = wk[w].bull, r.made = wk[w].made, r.phase = wk[w].phase,
           r.pc \in {"skip", "claim"} => IsDigest(wk[w].add), waiting' = waiting, StoredStays
    PROVE  Onward(w)
<1>1. /\ wk[w] \in WorkerState /\ SlotOK(wk[w]) /\ SlotAttempts(wk[w])
      /\ wk \in [Workers -> WorkerState]
  BY DEF ChainInv, TypeInv, TypeOK, SlotsOK, AttemptsOK
<1>2. wk'[w] = r /\ Others(w) /\ wk[w].add \in Jobs
  BY <1>1 DEF Others, SlotOK
<1>3. Pos(r) >= Pos(wk[w])
  BY <1>2, PosValues, JobFacts DEF Sched
<1>4. Ahead(w, Pos(wk[w]))
  BY <1>2, <1>3, KeepsAhead, JobOfSched DEF Has, Sched
<1>5. SlotAttempts(r) /\ Trails(w)'
  BY <1>1, <1>2 DEF SlotAttempts, Trails, Sched, Failing
<1> QED
  BY <1>2, <1>4, <1>5 DEF Onward, AttemptsOK, QueueAttempts

LEMMA AddJobOnward ==
    ASSUME CleanRuns, ChainInv, AttemptsOK, NEW w \in Workers, AddJobStep(w)
    PROVE  Onward(w)
<1>1. /\ wk[w] \in WorkerState /\ SlotOK(wk[w]) /\ SlotChain(wk[w]) /\ SlotAttempts(wk[w])
      /\ wk \in [Workers -> WorkerState]
  BY DEF ChainInv, TypeInv, TypeOK, SlotsOK, SlotsInChain, AttemptsOK
<1>2. StoredStays /\ Others(w)
  BY AddJobSteady DEF CleanRuns, Steady, Moves, Keeps, Puts, Takes, Starts
<1> USE <1>1, <1>2
<1>3. ASSUME NEW n \in Notifs, StoreJobs(w, n) PROVE Onward(w)
  <2> DEFINE r == [Idle EXCEPT !.pc = "add", !.add = <<n, 1>>]
  <2>1. r.pc = "add" /\ r.add = <<n, 1>> /\ r.phase = "store"
    BY DEF Idle
  <2>2. wk'[w] = r /\ waiting' = waiting /\ wk[w] = Idle /\ ~Stored(n)
    BY <1>3 DEF StoreJobs, Stored
  <2> HIDE DEF r
  <2>3. Pos(r) = 1 /\ \A m \in Notifs : Has(r, m) => m = n
    BY <2>1, PosValues, JobOfSched DEF Has, Sched
  <2>4. Ahead(w, Pos(wk[w]))
    BY <2>2, <2>3, IdleIsFree, StartsAhead
  <2>5. SlotAttempts(r) /\ Trails(w)'
    BY <2>1, <2>2 DEF SlotAttempts, Trails, Failing
  <2> QED
    BY <2>2, <2>4, <2>5 DEF Onward, AttemptsOK, QueueAttempts
<1>4. ASSUME AddPlain(w) \/ AddDelay(w) \/ DigestFiltered(w) \/ DecideSkip(w) \/ DecideCreate(w)
             \/ Claim(w)
      PROVE  Onward(w)
  <2>1. PICK pc \in {"enqueue", "skip", "claim"} :
           GoTo(w, pc) /\ (pc \in {"skip", "claim"} => IsDigest(wk[w].add))
    BY <1>4 DEF AddPlain, AddDelay, DigestFiltered, DecideSkip, DecideCreate, Claim, Adding, IsDigest
  <2>2. wk[w].pc \in {"add", "claim"} /\ waiting' = waiting
    BY <1>4
       DEF AddPlain, AddDelay, DigestFiltered, DecideSkip, DecideCreate, Claim, Adding
  <2> DEFINE r == [wk[w] EXCEPT !.pc = pc]
  <2>3. wk' = [wk EXCEPT ![w] = r]
    BY <2>1 DEF GoTo
  <2>4. /\ r.pc = pc /\ r.add = wk[w].add /\ r.bull = wk[w].bull /\ r.made = wk[w].made
        /\ r.phase = wk[w].phase
    BY DEF WorkerState
  <2> HIDE DEF r
  <2> QED
    BY <2>1, <2>2, <2>3, <2>4, SchedOnward DEF Sched
<1>5. ASSUME AddDelayMisconfigured(w) PROVE Onward(w)
  <2>1. IsAction(wk[w].add) /\ "plain" \in ErrorsOf(wk[w].add[2])
    BY <1>5 DEF AddDelayMisconfigured, Adding, IsAction, ErrorsOf
  <2> QED
    BY <1>5, <2>1, ErrorOnward DEF AddDelayMisconfigured, Adding
<1>6. ASSUME AddThrows(w) PROVE Onward(w)
  BY <1>6, ErrorOnward DEF AddThrows
<1>7. ASSUME DecideMerge(w) PROVE Onward(w)
  <2>1. PICK d : wk' = [wk EXCEPT ![w].pc = "merge", ![w].hit = d,
                                  ![w].todo = wk[w].add[2]..NumSteps]
    BY <1>7 DEF DecideMerge
  <2> DEFINE r == [wk[w] EXCEPT !.pc = "merge", !.hit = d, !.todo = wk[w].add[2]..NumSteps]
  <2>2. wk' = [wk EXCEPT ![w] = r] /\ wk[w].pc = "add" /\ waiting' = waiting
    BY <1>7, <2>1 DEF DecideMerge, Adding
  <2>3. /\ r.pc = "merge" /\ r.add = wk[w].add /\ r.bull = wk[w].bull /\ r.made = wk[w].made
        /\ r.phase = wk[w].phase
    BY DEF WorkerState
  <2> HIDE DEF r
  <2> QED
    BY <2>2, <2>3, SchedOnward DEF Sched
<1>8. ASSUME MergeWrite(w) PROVE Onward(w)
  <2>1. PICK s \in wk[w].todo :
           IF wk[w].todo = {s} THEN Merged(w) ELSE wk' = [wk EXCEPT ![w].todo = @ \ {s}]
    BY <1>8 DEF MergeWrite
  <2>2. wk[w].pc = "merge" /\ waiting' = waiting
    BY <1>8 DEF MergeWrite
  <2>3. CASE wk[w].todo = {s}
    <3>1. Return(w, "none")
      BY <2>1, <2>3 DEF Merged
    <3> QED
      BY <2>2, <3>1, ReturnEnds DEF Sched
  <2>4. CASE wk[w].todo # {s}
    <3> DEFINE r == [wk[w] EXCEPT !.todo = wk[w].todo \ {s}]
    <3>1. wk' = [wk EXCEPT ![w] = r]
      BY <2>1, <2>4
    <3>2. /\ r.pc = "merge" /\ r.add = wk[w].add /\ r.bull = wk[w].bull /\ r.made = wk[w].made
          /\ r.phase = wk[w].phase
      BY <2>2 DEF WorkerState
    <3> HIDE DEF r
    <3> QED
      BY <2>2, <3>1, <3>2, SchedOnward DEF Sched
  <2> QED
    BY <2>3, <2>4
<1>9. ASSUME Skip(w) PROVE Onward(w)
  <2>1. wk[w].pc = "skip" /\ waiting' = waiting /\ wk[w].add \in Jobs /\ IsDigest(wk[w].add)
    BY <1>9 DEF Skip, SlotOK, SlotAttempts
  <2>2. CASE HasChild(wk[w].add)
    <3> DEFINE r == [wk[w] EXCEPT !.pc = "add", !.add = Child(wk[w].add)]
    <3>1. wk' = [wk EXCEPT ![w] = r]
      BY <1>9, <2>2 DEF Skip, Skipped
    <3>2. /\ r.pc = "add" /\ r.add = Child(wk[w].add) /\ r.bull = wk[w].bull
          /\ r.made = wk[w].made /\ r.phase = wk[w].phase
      BY DEF WorkerState
    <3> HIDE DEF r
    <3>3. r.add[1] = wk[w].add[1] /\ r.add[2] = wk[w].add[2] + 1
      BY <3>2 DEF Child
    <3>4. Pos(r) >= Pos(wk[w])
      BY <2>1, <3>2, <3>3, PosValues, JobFacts
    <3>5. \A n \in Notifs : Has(r, n) => Has(wk[w], n)
      BY <2>1, <3>2, <3>3, JobOfSched DEF Has, Sched
    <3>6. Ahead(w, Pos(wk[w]))
      BY <2>1, <3>1, <3>4, <3>5, KeepsAhead
    <3>7. SlotAttempts(r)
      <4>1. SUFFICES ASSUME r.phase = "run" PROVE Follows(r.bull[2], r.add[2])
        BY <3>2 DEF SlotAttempts
      <4>2. wk[w].bull \in Jobs /\ Follows(wk[w].bull[2], wk[w].add[2])
        BY <2>1, <3>2, <4>1 DEF SlotAttempts, SlotOK, Sched
      <4>3. wk[w].add[2] \in DigestSteps
        BY <2>1, JobFacts DEF DigestSteps, IsDigest, TypeOf
      <4> QED
        BY <2>1, <3>2, <3>3, <4>2, <4>3, JobFacts, StepAssumption DEF Follows, Steps
    <3> QED
      BY <2>1, <3>1, <3>2, <3>6, <3>7 DEF Onward, AttemptsOK, QueueAttempts, Trails, Failing
  <2>3. CASE ~HasChild(wk[w].add)
    <3>1. Return(w, "none")
      BY <1>9, <2>3 DEF Skip, Skipped
    <3> QED
      BY <2>1, <3>1, ReturnEnds DEF Sched
  <2> QED
    BY <2>2, <2>3
<1>10. ASSUME Enqueue(w) PROVE Onward(w)
  <2>1. wk[w].pc = "enqueue" /\ Push(wk[w].add, 0) /\ wk[w].add \in Jobs /\ Return(w, "none")
    BY <1>10 DEF Enqueue, SlotOK
  <2>2. ~Live(wk'[w]) /\ Has(wk[w], wk[w].add[1])
    BY <2>1, ReturnMoves, JobOfSched DEF CleanRuns, Errors, Sched, Has
  <2>3. Ahead(w, 2 * wk[w].add[2])
    <3>1. 0 \in 0..MaxStarts /\ 2 * wk[w].add[2] >= 2 * wk[w].add[2]
      BY <2>1, JobFacts, MaxStartsNat
    <3> HIDE <1>1
    <3> QED
      BY <1>2, <2>1, <2>2, <3>1, PutsAhead
  <2>4. wk[w].phase = "run" => wk[w].bull \in Jobs /\ wk[w].bull[2] < wk[w].add[2]
    BY <2>1 DEF SlotOK, SlotAttempts, Sched, Follows
  <2>5. SlotAttempts(wk'[w]) /\ Trails(w)'
    BY <2>1, <2>3, <2>4, ReturnOnward, JobFacts DEF Sched
  <2>6. QueueAttempts'
    <3>1. waiting \in [Jobs -> [0..MaxStarts -> Nat]] /\ 0 \in 0..MaxStarts
      BY MaxStartsNat DEF ChainInv, TypeInv, TypeOK
    <3>2. \A i \in Jobs, b \in 0..MaxStarts :
             waiting'[i][b] = IF i = wk[w].add /\ b = 0 THEN waiting[i][b] + 1 ELSE waiting[i][b]
      <4> HIDE <1>1
      <4> QED
        BY <2>1, <3>1, PushCounts
    <3> QED
      BY <3>2 DEF AttemptsOK, QueueAttempts, Attempts, DefaultAttempts
  <2> QED
    BY <2>1, <2>3, <2>5, <2>6, PosValues DEF Onward
<1> QED
  BY <1>3, <1>4, <1>5, <1>6, <1>7, <1>8, <1>9, <1>10 DEF AddJobStep

\* A running slot that goes on with the same job.
LEMMA RunningOnward ==
    ASSUME ChainInv, AttemptsOK, NEW w \in Workers, NEW r, wk' = [wk EXCEPT ![w] = r],
           wk[w].pc \in {"mark", "send", "digest", "complete"}, r.pc \in Running,
           wk[w].pc = "complete" => r.pc = "next", r.pc = "digest" => IsDigest(wk[w].cur),
           r.cur = wk[w].cur, r.bull = wk[w].bull, r.made = wk[w].made, r.phase = wk[w].phase,
           waiting' = waiting, StoredStays
    PROVE  Onward(w) /\ Ahead(w, Pos(r))
<1>1. /\ wk[w] \in WorkerState /\ SlotOK(wk[w]) /\ SlotAttempts(wk[w])
      /\ wk \in [Workers -> WorkerState]
  BY DEF ChainInv, TypeInv, TypeOK, SlotsOK, AttemptsOK
<1>2. wk'[w] = r /\ Others(w) /\ wk[w].cur \in Jobs
  BY <1>1 DEF Others, SlotOK
<1>3. Pos(r) >= Pos(wk[w]) /\ Pos(r) >= Pos(r)
  BY <1>2, PosValues, JobFacts DEF Running
<1>4. \A n \in Notifs : Has(r, n) => Has(wk[w], n)
  BY JobOfRunning DEF Has, Running
<1>5. Ahead(w, Pos(wk[w])) /\ Ahead(w, Pos(r))
  BY <1>2, <1>3, <1>4, KeepsAhead
<1>6. SlotAttempts(r) /\ Trails(w)'
  BY <1>1, <1>2 DEF SlotAttempts, Trails, Sched, Running, Failing
<1> QED
  BY <1>2, <1>5, <1>6 DEF Onward, AttemptsOK, QueueAttempts

\* A step that fails otherwise than by its webhook is not retried.
LEMMA CaughtOnward ==
    ASSUME CleanRuns, ChainInv, AttemptsOK, NEW w \in Workers, wk[w].pc = "send",
           NEW e \in Errors, e # "none", Caught(w, e), e = "plain" => wk[w].cur[2] \in Fallible,
           waiting' = waiting, StoredStays
    PROVE  Onward(w) /\ (e = "plain" => Ahead(w, 2 * wk[w].cur[2] + 1))
<1> DEFINE pc == IF StopsChain(wk[w].cur[2], e) THEN "reject" ELSE "next"
           r == [wk[w] EXCEPT !.err = e, !.pc = pc]
<1>1. /\ wk[w] \in WorkerState /\ SlotOK(wk[w]) /\ SlotAttempts(wk[w]) /\ SlotChain(wk[w])
      /\ wk \in [Workers -> WorkerState]
  BY DEF ChainInv, TypeInv, TypeOK, SlotsOK, SlotsInChain, AttemptsOK
<1>2. wk' = [wk EXCEPT ![w] = r]
  BY DEF Caught
<1>3. /\ r.pc = pc /\ r.err = e /\ r.cur = wk[w].cur /\ r.bull = wk[w].bull
      /\ r.phase = wk[w].phase /\ r.made = wk[w].made
  BY <1>1 DEF WorkerState
<1>4. wk[w].cur = wk[w].bull /\ wk[w].phase = "run" /\ wk[w].made > 0 /\ wk[w].bull \in Jobs
  BY <1>1 DEF SlotChain, SlotOK, Running
<1>5. Others(w) /\ wk'[w] = r
  BY <1>1, <1>2 DEF Others
<1>6. SlotAttempts(r)
  BY <1>1, <1>3 DEF SlotAttempts, Sched
<1> HIDE DEF r
<1>7. CASE pc = "next"
  <2>1. Onward(w) /\ Ahead(w, Pos(r))
    BY <1>2, <1>3, <1>7, RunningOnward DEF Running
  <2>2. Pos(r) = 2 * wk[w].cur[2] + 1
    BY <1>3, <1>7, PosValues
  <2> QED
    BY <2>1, <2>2
<1>8. CASE pc = "reject" /\ e = "plain"
  <2>1. wk[w].bull[2] \notin WebhookSteps
    BY <1>4, <1>8 DEF CleanRuns, Calm, RetriesAreWebhooks
  <2>2. wk[w].made = 1
    BY <1>1, <1>4, <2>1, MaxStartsNat DEF SlotAttempts, Attempts, WorkerState
  <2>3. ~Live(r)
    BY <1>3, <1>8, <2>1, <2>2
       DEF CleanRuns, Live, Retried, Last, IsLastFailure, Attempts, Sched, Running
  <2>4. \A q : Ahead(w, q)
    BY <1>5, <2>3, KeepsAhead DEF Has
  <2>5. Has(wk[w], wk[w].bull[1])
    BY <1>4, JobOfRunning DEF Has, Running
  <2>6. Trails(w)'
    <3> SUFFICES ASSUME NEW p \in Nat, Token(wk[w].bull[1], p)'
                 PROVE  p > 2 * wk[w].bull[2]
      BY <1>3, <1>5 DEF Trails
    <3>1. Ahead(w, 2 * wk[w].bull[2] + 1)
      BY <2>4
    <3>2. p >= 2 * wk[w].bull[2] + 1
      BY <1>3, <1>4, <1>5, <2>5, <3>1, JobFacts DEF Ahead
    <3> QED
      BY <1>4, <3>2, JobFacts
  <2> QED
    BY <1>5, <1>6, <2>4, <2>6 DEF Onward, AttemptsOK, QueueAttempts
<1>9. CASE pc = "reject" /\ e # "plain"
  <2>1. Pos(r) >= Pos(wk[w])
    BY <1>3, <1>4, <1>9, PosValues, JobFacts DEF Failing
  <2>2. \A n \in Notifs : Has(r, n) => Has(wk[w], n)
    BY <1>3, <1>4, <1>9, JobOfRunning, JobOfFailing DEF Has, Running, Failing
  <2>3. Ahead(w, Pos(wk[w]))
    BY <1>5, <2>1, <2>2, KeepsAhead
  <2>4. Trails(w)'
    BY <1>3, <1>5, <1>9 DEF Trails
  <2> QED
    BY <1>5, <1>6, <1>9, <2>3, <2>4 DEF Onward, AttemptsOK, QueueAttempts
<1> QED
  BY <1>7, <1>8, <1>9

LEMMA ReceiveOnward ==
    ASSUME ChainInv, AttemptsOK, NEW w \in Workers, NEW j \in Jobs, NEW a \in 0..MaxStarts,
           Receive(w, j, a), StoredStays
    PROVE  Onward(w)
<1> DEFINE run == [Idle EXCEPT !.phase = "run", !.bull = j, !.made = a + 1]
           mark == [run EXCEPT !.pc = "mark", !.cur = j, !.batch = Carries(j)]
           follow == [run EXCEPT !.pc = "follow"]
<1>1. wk[w] = Idle /\ waiting[j][a] > 0 /\ Pull(j, a) /\ wk \in [Workers -> WorkerState]
  BY DEF Receive, HasDelivery, Pull, ChainInv, TypeInv, TypeOK
<1>2. \/ wk' = [wk EXCEPT ![w] = mark] \/ wk' = [wk EXCEPT ![w] = follow] \/ wk' = wk
  BY DEF Receive
<1>3. Others(w) /\ wk'[w] \in {mark, follow, Idle}
  BY <1>1, <1>2 DEF Others
<1>4. /\ mark.pc = "mark" /\ mark.cur = j /\ mark.bull = j /\ mark.made = a + 1
      /\ follow.pc = "follow" /\ follow.bull = j /\ follow.made = a + 1
  BY DEF Idle
<1> HIDE DEF mark, follow
<1>5. ~Live(follow)
  BY <1>4 DEF Live, Retried, Last, Sched, Running, Failing
<1>6. \A n \in Notifs : Has(wk'[w], n) => n = j[1] /\ Pos(wk'[w]) = 2 * j[2]
  BY <1>3, <1>4, <1>5, IdleIsFree, JobOfRunning, PosValues DEF Has, Running
<1>7. Ahead(w, Pos(wk[w]))
  BY <1>1, <1>3, <1>6, IdleIsFree, TakesAhead
<1>8. SlotAttempts(wk'[w]) /\ Trails(w)'
  <2>1. a + 1 <= Attempts(j)
    BY <1>1, MaxStartsNat DEF AttemptsOK, QueueAttempts, Attempts, DefaultAttempts
  <2> QED
    BY <1>3, <1>4, <2>1, IdleIsFree DEF SlotAttempts, Trails, Sched, Failing
<1>9. QueueAttempts'
  <2>1. \A i \in Jobs, b \in 0..MaxStarts :
           waiting'[i][b] = IF i = j /\ b = a THEN waiting[i][b] - 1 ELSE waiting[i][b]
    BY <1>1, TakeCounts DEF ChainInv, TypeInv, TypeOK
  <2> SUFFICES ASSUME NEW i \in Jobs, NEW b \in 0..MaxStarts, waiting'[i][b] > 0
               PROVE  b < Attempts(i)
    BY DEF QueueAttempts, Attempts
  <2>2. CASE i = j /\ b = a
    BY <1>1, <2>2 DEF AttemptsOK, QueueAttempts
  <2>3. CASE ~(i = j /\ b = a)
    BY <2>1, <2>3 DEF AttemptsOK, QueueAttempts
  <2> QED
    BY <2>2, <2>3
<1> QED
  BY <1>7, <1>8, <1>9 DEF Onward

LEMMA RejectOnward ==
    ASSUME CleanRuns, ChainInv, AttemptsOK, FailedBehind, NEW w \in Workers, Reject(w), StoredStays
    PROVE  Onward(w)
<1> DEFINE r == [wk[w] EXCEPT !.pc = "failed"]
<1>1. /\ wk[w] \in WorkerState /\ SlotOK(wk[w]) /\ SlotChain(wk[w]) /\ wk[w].pc = "reject"
      /\ wk \in [Workers -> WorkerState] /\ wk' = [wk EXCEPT ![w] = r] /\ SlotAttempts(wk[w])
  BY DEF ChainInv, TypeInv, TypeOK, SlotsOK, SlotsInChain, Reject, At, AttemptsOK
<1>2. /\ r.pc = "failed" /\ r.bull = wk[w].bull /\ r.phase = wk[w].phase
      /\ r.made = wk[w].made /\ r.err = wk[w].err
  BY <1>1 DEF WorkerState
<1> HIDE DEF r
<1>3. Others(w) /\ wk'[w] = r /\ SlotAttempts(r) /\ wk[w].bull \in Jobs
  BY <1>1, <1>2 DEF Others, SlotAttempts, Sched, SlotOK
<1>4. wk[w].err = "plain" => ~Has(wk[w], wk[w].bull[1])
  <2> SUFFICES ASSUME wk[w].err = "plain", Has(wk[w], wk[w].bull[1]) PROVE FALSE
    OBVIOUS
  <2>1. Token(wk[w].bull[1], 2 * wk[w].bull[2])
    BY <1>1, <1>3, OnlyToken, PosValues, JobFacts DEF Failing
  <2>2. 2 * wk[w].bull[2] \in Nat /\ ~(2 * wk[w].bull[2] > 2 * wk[w].bull[2])
    BY <1>3, JobFacts
  <2> QED
    BY <1>1, <2>1, <2>2 DEF FailedBehind, Trails, Failing
<1>5. Ahead(w, Pos(wk[w])) /\ QueueAttempts'
  <2>1. CASE wk[w].made < Attempts(wk[w].bull)
    <3>1. Push(wk[w].bull, wk[w].made) /\ wk[w].made \in 0..MaxStarts
      BY <1>1, <2>1 DEF Reject, WorkerState
    <3>2. Has(wk[w], wk[w].bull[1])
      BY <1>1, <2>1, JobOfFailing DEF Has, Live, Retried, Failing
    <3>3. wk[w].made < DefaultAttempts
      BY <1>1, <2>1, MaxStartsNat DEF Attempts, DefaultAttempts, WorkerState
    <3>4. ~Live(r)
      BY <1>1, <1>2, <3>3, JobOfFailing, MaxStartsNat
         DEF Failing, Retried, Last, IsLastFailure, DefaultAttempts, WorkerState
    <3>5. 2 * wk[w].bull[2] >= Pos(wk[w])
      BY <1>1, <1>3, PosValues, JobFacts DEF Failing
    <3>6. Ahead(w, Pos(wk[w]))
      BY <1>3, <3>1, <3>2, <3>4, <3>5, PutsAhead
    <3>7. \A i \in Jobs, b \in 0..MaxStarts :
             waiting'[i][b] = IF i = wk[w].bull /\ b = wk[w].made
                              THEN waiting[i][b] + 1 ELSE waiting[i][b]
      BY <1>3, <3>1, PushCounts DEF ChainInv, TypeInv, TypeOK
    <3> QED
      BY <2>1, <3>6, <3>7 DEF AttemptsOK, QueueAttempts, Attempts
  <2>2. CASE ~(wk[w].made < Attempts(wk[w].bull))
    <3>1. waiting' = waiting
      BY <2>2 DEF Reject
    <3>2. Live(r) => Live(wk[w])
      BY <1>1, <1>2, JobOfFailing DEF Live, Last, Retried, Failing
    <3>3. JobOf(r) = JobOf(wk[w]) /\ Pos(r) = Pos(wk[w]) /\ Pos(wk[w]) >= Pos(wk[w])
      BY <1>1, <1>2, <1>3, JobOfFailing, PosValues, JobFacts DEF Failing
    <3> QED
      BY <1>3, <3>1, <3>2, <3>3, KeepsAhead DEF Has, AttemptsOK, QueueAttempts
  <2> QED
    BY <2>1, <2>2
<1>6. Trails(w)'
  <2> SUFFICES ASSUME wk[w].err = "plain", NEW p \in Nat, Token(wk[w].bull[1], p)'
               PROVE  p > 2 * wk[w].bull[2]
    BY <1>2, <1>3 DEF Trails
  <2>1. Token(wk[w].bull[1], p)
    BY <1>2, <1>3, <1>4, <1>5, JobFacts DEF Ahead
  <2> QED
    BY <1>1, <2>1 DEF FailedBehind, Trails, Failing
<1> QED
  BY <1>3, <1>5, <1>6 DEF Onward

LEMMA HandleFailedOnward ==
    ASSUME ChainInv, AttemptsOK, NEW w \in Workers, HandleFailed(w), StoredStays
    PROVE  Onward(w)
<1> DEFINE j == wk[w].bull
           last == IsLastFailure(wk[w].err, wk[w].made)
           r == [wk[w] EXCEPT !.pc = "next", !.phase = "last", !.cur = j, !.err = "none"]
<1>1. /\ wk[w] \in WorkerState /\ wk[w].pc = "failed" /\ waiting' = waiting
      /\ wk \in [Workers -> WorkerState] /\ j \in Jobs
  BY DEF ChainInv, TypeInv, TypeOK, SlotsOK, SlotOK, HandleFailed, At
<1>2. /\ r.pc = "next" /\ r.phase = "last" /\ r.cur = j
  BY <1>1 DEF WorkerState
<1>3. Others(w) /\ ((last /\ wk'[w] = r) \/ wk'[w] = Idle)
  BY <1>1 DEF HandleFailed, Others
<1> HIDE DEF r
<1>4. \A n \in Notifs : Has(wk'[w], n) => Has(wk[w], n) /\ Pos(wk'[w]) >= Pos(wk[w])
  BY <1>1, <1>2, <1>3, IdleIsFree, JobOfRunning, JobOfFailing, PosValues, JobFacts
     DEF Has, Live, Last, Running, Failing
<1>5. SlotAttempts(wk'[w]) /\ Trails(w)'
  BY <1>2, <1>3, IdleIsFree DEF SlotAttempts, Trails, Failing
<1> QED
  BY <1>1, <1>3, <1>4, <1>5, KeepsAhead DEF Onward, AttemptsOK, QueueAttempts

\* The token is behind the step once its message has left or its events are written.
RunDone(w) == Deliver(w) \/ DeliverThrows(w) \/ WriteBatch(w)

LEMMA RunJobOnward ==
    ASSUME CleanRuns, ChainInv, AttemptsOK, FailedBehind, NEW w \in Workers, RunJobStep(w)
    PROVE  Onward(w) /\ (RunDone(w) => Ahead(w, 2 * wk[w].cur[2] + 1))
<1>1. /\ wk[w] \in WorkerState /\ SlotOK(wk[w]) /\ SlotChain(wk[w]) /\ SlotAttempts(wk[w])
      /\ wk \in [Workers -> WorkerState]
  BY DEF ChainInv, TypeInv, TypeOK, SlotsOK, SlotsInChain, AttemptsOK
<1>2. StoredStays
  BY RunJobSteady, EndMoves DEF CleanRuns, Steady
<1> USE <1>1, <1>2
<1>3. ~FindFollower(w) /\ ~NoFollower(w)
  BY DEF FindFollower, NoFollower, At, SlotChain
<1>4. RunDone(w) => wk[w].pc \in {"send", "digest"} /\ waiting' = waiting
  BY DEF RunDone, Deliver, DeliverThrows, WriteBatch, At
<1>5. ASSUME MarkRunning(w) \/ SendNothing(w) \/ FilterOut(w) \/ MarkCompleted(w) PROVE Onward(w)
  <2>1. PICK pc \in {"send", "complete", "next"} : wk' = [wk EXCEPT ![w].pc = pc]
    BY <1>5 DEF MarkRunning, SendNothing, FilterOut, MarkCompleted
  <2>2. /\ wk[w].pc \in {"mark", "send", "complete"} /\ waiting' = waiting
        /\ wk[w].pc = "complete" => wk' = [wk EXCEPT ![w].pc = "next"]
    BY <1>5 DEF MarkRunning, SendNothing, FilterOut, MarkCompleted, At
  <2> DEFINE r(q) == [wk[w] EXCEPT !.pc = q]
  <2>3. \A q : r(q).pc = q /\ r(q).cur = wk[w].cur /\ r(q).bull = wk[w].bull
               /\ r(q).made = wk[w].made /\ r(q).phase = wk[w].phase
    BY DEF WorkerState
  <2>4. /\ wk' = [wk EXCEPT ![w] = r(pc)]
        /\ wk[w].pc = "complete" => wk' = [wk EXCEPT ![w] = r("next")]
    BY <2>1, <2>2
  <2> HIDE DEF r
  <2>5. CASE wk[w].pc = "complete"
    BY <2>2, <2>3, <2>4, <2>5, RunningOnward DEF Running
  <2>6. CASE wk[w].pc # "complete"
    BY <2>1, <2>2, <2>3, <2>4, <2>6, RunningOnward DEF Running
  <2> QED
    BY <2>5, <2>6
<1>6. ASSUME Deliver(w) \/ WriteBatch(w) PROVE Onward(w) /\ Ahead(w, 2 * wk[w].cur[2] + 1)
  <2> DEFINE r == [wk[w] EXCEPT !.pc = "complete"]
  <2>1. wk' = [wk EXCEPT ![w] = r] /\ wk[w].pc \in {"send", "digest"} /\ waiting' = waiting
    BY <1>6 DEF Deliver, WriteBatch, At
  <2>2. /\ r.pc = "complete" /\ r.cur = wk[w].cur /\ r.bull = wk[w].bull
        /\ r.made = wk[w].made /\ r.phase = wk[w].phase
    BY DEF WorkerState
  <2> HIDE DEF r
  <2>3. Onward(w) /\ Ahead(w, Pos(r))
    BY <2>1, <2>2, RunningOnward DEF Running
  <2> QED
    BY <2>2, <2>3, PosValues
<1>7. ASSUME ReadBatch(w) PROVE Onward(w)
  <2> DEFINE r == [wk[w] EXCEPT !.pc = "digest", !.batch = DigestEvents(wk[w].cur)]
  <2>1. /\ wk' = [wk EXCEPT ![w] = r] /\ wk[w].pc = "send" /\ waiting' = waiting
        /\ IsDigest(wk[w].cur)
    BY <1>7 DEF ReadBatch, At
  <2>2. /\ r.pc = "digest" /\ r.cur = wk[w].cur /\ r.bull = wk[w].bull
        /\ r.made = wk[w].made /\ r.phase = wk[w].phase
    BY DEF WorkerState
  <2> HIDE DEF r
  <2> QED
    BY <2>1, <2>2, RunningOnward DEF Running
<1>8. ASSUME SendThrows(w) \/ DeliverThrows(w)
      PROVE  Onward(w) /\ (DeliverThrows(w) => Ahead(w, 2 * wk[w].cur[2] + 1))
  <2>1. wk[w].pc = "send" /\ waiting' = waiting
    BY <1>8 DEF SendThrows, DeliverThrows, At
  <2>2. PICK e \in ErrorsOf(wk[w].cur[2]) : Caught(w, e) /\ (DeliverThrows(w) => e = "plain")
    BY <1>8 DEF SendThrows, DeliverThrows, ErrorsOf
  <2>3. e \in Errors /\ e # "none" /\ (e = "plain" => wk[w].cur[2] \in Fallible)
    BY DEF ErrorsOf, Errors
  <2> QED
    BY <2>1, <2>2, <2>3, CaughtOnward
<1>9. ASSUME QueueNext(w) PROVE Onward(w)
  <2>1. wk[w].pc = "next" /\ waiting' = waiting /\ wk[w].cur \in Jobs
    BY <1>9 DEF QueueNext, At, SlotOK
  <2>2. CASE HasChild(wk[w].cur)
    <3> DEFINE r == [wk[w] EXCEPT !.pc = "add", !.add = Child(wk[w].cur)]
    <3>1. wk' = [wk EXCEPT ![w] = r]
      BY <1>9, <2>2 DEF QueueNext
    <3>2. /\ r.pc = "add" /\ r.add = Child(wk[w].cur) /\ r.bull = wk[w].bull
          /\ r.made = wk[w].made /\ r.phase = wk[w].phase
      BY DEF WorkerState
    <3> HIDE DEF r
    <3>3. r.add[1] = wk[w].cur[1] /\ r.add[2] = wk[w].cur[2] + 1
      BY <3>2 DEF Child
    <3>4. Pos(r) >= Pos(wk[w])
      BY <2>1, <3>2, <3>3, PosValues, JobFacts
    <3>5. \A n \in Notifs : Has(r, n) => Has(wk[w], n)
      BY <2>1, <3>2, <3>3, JobOfSched, JobOfRunning DEF Has, Sched, Running
    <3>6. Ahead(w, Pos(wk[w]))
      BY <2>1, <3>1, <3>4, <3>5, KeepsAhead DEF Others
    <3>7. SlotAttempts(r)
      <4>1. wk[w].bull = wk[w].cur
        BY <2>1 DEF SlotChain, Running
      <4>2. Follows(wk[w].cur[2], wk[w].cur[2] + 1)
        BY <2>1, JobFacts, StepAssumption DEF Follows, Steps
      <4> QED
        BY <3>2, <3>3, <4>1, <4>2 DEF SlotAttempts
    <3> QED
      BY <2>1, <3>1, <3>2, <3>6, <3>7 DEF Onward, AttemptsOK, QueueAttempts, Trails, Failing
  <2>3. CASE ~HasChild(wk[w].cur)
    BY <1>9, <2>1, <2>3, ReturnEnds DEF QueueNext
  <2> QED
    BY <2>2, <2>3
<1>10. ASSUME NEW j \in Jobs, NEW a \in 0..MaxStarts, Receive(w, j, a) PROVE Onward(w)
  BY <1>10, ReceiveOnward
<1>11. Onward(w)
  BY <1>3, <1>5, <1>6, <1>7, <1>8, <1>9, <1>10, RejectOnward, HandleFailedOnward DEF RunJobStep
<1>12. RunDone(w) => Ahead(w, 2 * wk[w].cur[2] + 1)
  BY <1>6, <1>8 DEF RunDone
<1> QED
  BY <1>11, <1>12

LEMMA EnqueueLostOnward ==
    ASSUME CleanRuns, ChainInv, AttemptsOK, NEW w \in Workers, EnqueueLost(w)
    PROVE  Onward(w)
BY EnqueueLostSteady, ReturnEnds DEF EnqueueLost, CleanRuns, Steady, Sched

-----------------------------------------------------------------------------
(* What is merged into what.                                                *)

SameInto == \A i, j \in Digests : Into(j, i)' <=> Into(j, i)

\* What a step of slot w that merges nothing leaves as it is.
MergesStay(w) ==
    /\ SameInto /\ MergesOK'
    /\ \A j \in Digests : Merging(w, j) =>
          \/ wk'[w].pc = "merge" /\ wk'[w].add = j
          \/ \A p \in Nat : ~Token(j[1], p)'

LEMMA PosOfSlot ==
    ASSUME NEW r \in WorkerState, SlotOK(r), Live(r)
    PROVE  Pos(r) \in Nat
<1>1. /\ r.pc \in Sched \cup Running \cup Failing
      /\ \A j \in Jobs : j[2] \in Nat /\ j[2] > 0
  BY StepAssumption DEF Live, Retried, Last, Failing, Jobs, Steps
<1>2. CASE r.pc \in Sched
  BY <1>1, <1>2, PosValues DEF SlotOK, Sched
<1>3. CASE r.pc \in Running
  BY <1>1, <1>3, PosValues DEF SlotOK, Running
<1>4. CASE r.pc \in Failing
  BY <1>1, <1>4, PosValues DEF SlotOK, Failing
<1> QED
  BY <1>1, <1>2, <1>3, <1>4

LEMMA PosNat ==
    ASSUME TypeInv, NEW w \in Workers, Live(wk[w])
    PROVE  Pos(wk[w]) \in Nat
BY PosOfSlot DEF TypeInv, TypeOK, SlotsOK

LEMMA MergerHas ==
    ASSUME NEW w \in Workers, NEW j \in Digests, Merging(w, j)
    PROVE  Has(wk[w], j[1])
BY JobOfSched DEF Merging, Has, Sched

\* A digest whose notification has a token elsewhere was not merged.
LEMMA NotMerged ==
    ASSUME ChainInv, MergesOK, MergedIsOver, NEW n \in Notifs, NEW p \in Nat, Token(n, p),
           NEW j \in Digests, j[1] = n, \A w \in Workers : ~Merging(w, j)
    PROVE  status[j] # "merged" /\ \A i \in Digests : ~Into(j, i)
<1>1. \A i \in Digests : ~Into(j, i)
  BY DEF MergedIsOver
<1> QED
  BY <1>1 DEF MergesOK, Into

LEMMA HolderNotMerged ==
    ASSUME ChainInv, MergesOK, MergedIsOver, NEW w \in Workers, NEW j \in Digests,
           Has(wk[w], j[1]), ~Merging(w, j)
    PROVE  status[j] # "merged" /\ \A i \in Digests : ~Into(j, i)
<1>1. j[1] \in Notifs
  BY JobFacts DEF Digests
<1>2. Token(j[1], Pos(wk[w])) /\ Pos(wk[w]) \in Nat
  BY <1>1, OnlyToken, PosNat DEF ChainInv, Has
<1>3. \A v \in Workers : ~Merging(v, j)
  BY <1>1, MergerHas, OnlyToken
<1> QED
  BY <1>1, <1>2, <1>3, NotMerged

\* A digest is merged into one other.
LEMMA IntoOne ==
    ASSUME ChainInv, MergesOK, NEW j \in Digests, NEW i, NEW k, Into(j, i), Into(j, k)
    PROVE  i = k
<1>1. \A v, w \in Workers : Merging(v, j) /\ Merging(w, j) => v = w
  BY MergerHas, JobFacts DEF ChainInv, OneSlot, Digests
<1> QED
  BY <1>1 DEF Into, MergesOK, Merging

\* An event has one owner.
LEMMA OneOwner ==
    ASSUME OneDigestStep, ChainInv, MergesOK, NEW m, NEW n, NEW e, Owns(m, e), Owns(n, e)
    PROVE  m = n
<1>1. CASE \E i, j \in Digests : i[1] = m /\ j[1] = e /\ Into(j, i)
  <2>1. PICK i \in Digests, j \in Digests : i[1] = m /\ j[1] = e /\ Into(j, i)
    BY <1>1
  <2>2. PICK k \in Digests, l \in Digests : k[1] = n /\ l[1] = e /\ Into(l, k)
    BY <2>1 DEF Owns
  <2>3. l = j
    BY <2>1, <2>2, DigestOfNotif
  <2> QED
    BY <2>1, <2>2, <2>3, IntoOne
<1>2. CASE ~(\E i, j \in Digests : i[1] = m /\ j[1] = e /\ Into(j, i))
  BY <1>2 DEF Owns
<1> QED
  BY <1>1, <1>2

LEMMA OwnsStays ==
    ASSUME SameInto
    PROVE  \A n, e : Owns(n, e)' <=> Owns(n, e)
BY DEF SameInto, Owns, Digests, IsDigest, TypeOf

\* A step that neither merges nor changes what is MERGED.
LEMMA IntoStays ==
    ASSUME MergesOK, NEW w \in Workers, Others(w), wk[w].pc # "merge", wk'[w].pc # "merge",
           mergedInto' = mergedInto,
           \A j \in Digests : status'[j] = "merged" <=> status[j] = "merged"
    PROVE  MergesStay(w)
<1>1. SameInto
  BY DEF SameInto, Into, Merging, Others
<1>2. MergesOK'
  BY DEF MergesOK, Others, Digests, IsDigest, TypeOf
<1> QED
  BY <1>1, <1>2 DEF MergesStay, Merging

LEMMA MergedStatus ==
    ASSUME status \in [Jobs -> Statuses], NEW i, NEW s, s # "merged",
           status' = status \/ status' = [status EXCEPT ![i] = s],
           i \in Digests => status[i] # "merged"
    PROVE  \A j \in Digests : status'[j] = "merged" <=> status[j] = "merged"
BY DEF Digests

LEMMA ReturnPC ==
    ASSUME wk \in [Workers -> WorkerState], NEW w \in Workers, NEW e, Return(w, e)
    PROVE  Others(w) /\ wk'[w].pc \in {"idle", "reject"}
<1> DEFINE rej == [wk[w] EXCEPT !.pc = "reject", !.err = IF e = "none" THEN wk[w].err ELSE e]
<1>1. rej.pc = "reject"
  BY DEF WorkerState
<1>2. Others(w) /\ wk'[w] \in {rej, Idle}
  BY DEF Return, Others
<1> HIDE DEF rej
<1> QED
  BY <1>1, <1>2 DEF Idle

LEMMA GoToPC ==
    ASSUME wk \in [Workers -> WorkerState], NEW w \in Workers, NEW pc, GoTo(w, pc)
    PROVE  Others(w) /\ wk'[w].pc = pc
BY DEF GoTo, Others, WorkerState

\* A slot that has merged a chain is done with its token.
LEMMA MergeWriteInto ==
    ASSUME NoRepeats, ChainInv, MergesOK, MergedIsOver, NEW w \in Workers, MergeWrite(w)
    PROVE  MergesStay(w)
<1> PICK j, hit : j = wk[w].add /\ hit = wk[w].hit
  OBVIOUS
<1>1. /\ wk[w] \in WorkerState /\ wk \in [Workers -> WorkerState] /\ wk[w].pc = "merge"
      /\ status \in [Jobs -> Statuses] /\ mergedInto \in [Jobs -> Jobs \cup {NoJob}]
      /\ waiting' = waiting
  BY DEF ChainInv, TypeInv, TypeOK, MergeWrite
<1>2. /\ j \in Digests /\ hit \in Digests /\ j \in Jobs /\ j = <<j[1], j[2]>>
      /\ IF status[j] = "merged" THEN mergedInto[j] = hit ELSE j[2] \in wk[w].todo
  BY <1>1 DEF MergesOK, Digests, Jobs
<1>3. PICK s \in wk[w].todo :
         /\ status' = [status EXCEPT ![<<j[1], s>>] = "merged"]
         /\ mergedInto' = [mergedInto EXCEPT ![<<j[1], s>>] = hit]
         /\ IF wk[w].todo = {s} THEN Merged(w) ELSE wk' = [wk EXCEPT ![w].todo = @ \ {s}]
  BY DEF MergeWrite
<1>4. \A d \in Digests : d # j => d # <<j[1], s>>
  BY <1>2, DigestOfNotif DEF NoRepeats, CleanRuns
<1>5. \A d \in Digests : d # j => status'[d] = status[d] /\ mergedInto'[d] = mergedInto[d]
  BY <1>1, <1>3, <1>4 DEF Digests
<1>6. IF status'[j] = "merged" THEN mergedInto'[j] = hit ELSE s # j[2] /\ j[2] \in wk[w].todo
  <2>1. CASE s = j[2]
    BY <1>1, <1>2, <1>3, <2>1
  <2>2. CASE s # j[2]
    <3>1. status'[j] = status[j] /\ mergedInto'[j] = mergedInto[j]
      BY <1>1, <1>2, <1>3, <2>2
    <3> QED
      BY <1>2, <2>2, <3>1
  <2> QED
    BY <2>1, <2>2
<1>7. \A v \in Workers : v # w => ~Merging(v, j)
  <2>1. Merging(w, j) /\ j[1] \in Notifs
    BY <1>1, <1>2, JobFacts DEF Merging
  <2> QED
    BY <1>2, <2>1, MergerHas, OnlyToken
<1>8. \A i \in Digests : Into(j, i) <=> i = hit
  <2>1. Into(j, hit)
    BY <1>1 DEF Into, Merging
  <2> QED
    BY <1>2, <2>1, IntoOne
<1>9. CASE wk[w].todo # {s}
  <2> DEFINE r == [wk[w] EXCEPT !.todo = wk[w].todo \ {s}]
  <2>1. wk' = [wk EXCEPT ![w] = r]
    BY <1>3, <1>9
  <2>2. r.pc = "merge" /\ r.add = j /\ r.hit = hit /\ r.todo = wk[w].todo \ {s}
    BY <1>1 DEF WorkerState
  <2> HIDE DEF r
  <2>3. wk'[w] = r /\ Others(w)
    BY <1>1, <2>1 DEF Others
  <2>4. \A v \in Workers, d \in Digests : Merging(v, d)' <=> Merging(v, d)
    BY <1>1, <2>2, <2>3 DEF Merging, Others
  <2>5. \A v \in Workers : wk'[v].hit = wk[v].hit
    BY <2>2, <2>3 DEF Others
  <2>6. SameInto
    <3> SUFFICES ASSUME NEW i \in Digests, NEW d \in Digests PROVE Into(d, i)' <=> Into(d, i)
      BY DEF SameInto
    <3>1. CASE d # j
      BY <1>5, <2>4, <2>5, <3>1 DEF Into
    <3>2. CASE d = j
      <4>1. Into(j, i)' => i = hit
        BY <1>6, <1>7, <2>4, <2>5, <3>2 DEF Into
      <4>2. Into(j, hit)'
        BY <2>2, <2>3 DEF Into, Merging
      <4> QED
        BY <1>8, <3>2, <4>1, <4>2
    <3> QED
      BY <3>1, <3>2
  <2>7. MergesOK'
    <3>1. ASSUME NEW v \in Workers, wk'[v].pc = "merge"
          PROVE  /\ wk'[v].add \in Digests /\ wk'[v].hit \in Digests
                 /\ IF status'[wk'[v].add] = "merged"
                    THEN mergedInto'[wk'[v].add] = wk'[v].hit
                    ELSE wk'[v].add[2] \in wk'[v].todo
      <4>1. CASE v = w
        BY <1>2, <1>6, <2>2, <2>3, <4>1
      <4>2. CASE v # w
        <5>1. wk'[v] = wk[v] /\ wk[v].add # j
          BY <1>7, <2>3, <3>1, <4>2 DEF Others, Merging
        <5> QED
          BY <1>5, <3>1, <5>1 DEF MergesOK
      <4> QED
        BY <4>1, <4>2
    <3>2. \A d \in Digests : status'[d] = "merged" => mergedInto'[d] \in Digests
      BY <1>2, <1>5, <1>6 DEF MergesOK
    <3> QED
      BY <3>1, <3>2 DEF MergesOK, Digests, IsDigest, TypeOf
  <2> QED
    BY <1>1, <2>2, <2>3, <2>6, <2>7 DEF MergesStay, Merging
<1>10. CASE wk[w].todo = {s}
  <2>1. Return(w, "none") /\ SlotChain(wk[w])
    BY <1>3, <1>10 DEF Merged, ChainInv, SlotsInChain
  <2>2. Others(w) /\ wk'[w].pc # "merge" /\ ~Live(wk'[w])
    BY <1>1, <2>1, ReturnPC, ReturnMoves DEF NoRepeats, CleanRuns, Errors, Sched
  <2>3. status'[j] = "merged"
    BY <1>6, <1>10
  <2>4. \A v \in Workers, d \in Digests : d # j => (Merging(v, d)' <=> Merging(v, d))
    BY <2>2 DEF Merging, Others
  <2>5. SameInto
    <3> SUFFICES ASSUME NEW i \in Digests, NEW d \in Digests PROVE Into(d, i)' <=> Into(d, i)
      BY DEF SameInto
    <3>1. CASE d # j
      BY <1>5, <2>2, <2>4, <3>1 DEF Into, Others, Merging
    <3>2. CASE d = j
      <4>1. Into(j, i)' <=> i = hit
        BY <1>6, <1>7, <2>2, <2>3, <3>2 DEF Into, Others, Merging
      <4> QED
        BY <1>8, <3>2, <4>1
    <3> QED
      BY <3>1, <3>2
  <2>6. MergesOK'
    <3>1. ASSUME NEW v \in Workers, wk'[v].pc = "merge"
          PROVE  /\ wk'[v].add \in Digests /\ wk'[v].hit \in Digests
                 /\ IF status'[wk'[v].add] = "merged"
                    THEN mergedInto'[wk'[v].add] = wk'[v].hit
                    ELSE wk'[v].add[2] \in wk'[v].todo
      <4>1. v # w /\ wk'[v] = wk[v] /\ wk[v].add # j
        BY <1>7, <2>2, <3>1 DEF Others, Merging
      <4> QED
        BY <1>5, <3>1, <4>1 DEF MergesOK
    <3>2. \A d \in Digests : status'[d] = "merged" => mergedInto'[d] \in Digests
      BY <1>2, <1>5, <1>6 DEF MergesOK
    <3> QED
      BY <3>1, <3>2 DEF MergesOK, Digests, IsDigest, TypeOf
  <2>7. \A p \in Nat : ~Token(j[1], p)'
    <3>1. StoredStays
      BY AddJobSteady DEF NoRepeats, CleanRuns, Steady, AddJobStep
    <3>2. \A q : Ahead(w, q)
      BY <1>1, <2>2, <3>1, KeepsAhead DEF Has
    <3>3. Has(wk[w], j[1]) /\ j[1] \in Notifs
      BY <1>1, <1>2, MergerHas, JobFacts DEF Merging
    <3> SUFFICES ASSUME NEW p \in Nat, Token(j[1], p)' PROVE FALSE
      OBVIOUS
    <3>4. Ahead(w, p + 1)
      BY <3>2
    <3>5. p >= p + 1
      BY <3>3, <3>4 DEF Ahead
    <3> QED
      BY <3>5
  <2> QED
    BY <2>5, <2>6, <2>7 DEF MergesStay, Merging
<1> QED
  BY <1>9, <1>10

\* A slot that writes the status of a job, and that was not merging.
LEMMA WriteInto ==
    ASSUME ChainInv, MergesOK, NEW w \in Workers, Others(w), wk[w].pc # "merge",
           wk'[w].pc # "merge", mergedInto' = mergedInto, NEW i, NEW s, s # "merged",
           status' = [status EXCEPT ![i] = s], i \in Digests => status[i] # "merged"
    PROVE  MergesStay(w)
<1>1. status \in [Jobs -> Statuses]
  BY DEF ChainInv, TypeInv, TypeOK
<1>2. \A j \in Digests : status'[j] = "merged" <=> status[j] = "merged"
  BY <1>1, MergedStatus
<1> QED
  BY <1>2, IntoStays

LEMMA AddJobInto ==
    ASSUME NoRepeats, ChainInv, MergesOK, MergedIsOver, NEW w \in Workers, AddJobStep(w)
    PROVE  DecideMerge(w) \/ MergesStay(w)
<1>1. /\ wk[w] \in WorkerState /\ wk \in [Workers -> WorkerState]
      /\ status \in [Jobs -> Statuses] /\ SlotOK(wk[w])
  BY DEF ChainInv, TypeInv, TypeOK, SlotsOK
<1> USE <1>1
<1>2. ASSUME NEW n \in Notifs, StoreJobs(w, n) PROVE MergesStay(w)
  <2> DEFINE r == [Idle EXCEPT !.pc = "add", !.add = <<n, 1>>]
  <2>1. r.pc = "add"
    BY DEF Idle
  <2>2. wk'[w] = r /\ Others(w) /\ mergedInto' = mergedInto /\ wk[w].pc = "idle"
    BY <1>2 DEF StoreJobs, Others, Idle
  <2> HIDE DEF r
  <2>3. Token(n, 1) /\ ~Stored(n)
    BY <1>2 DEF StoreJobs, Stored, Token
  <2>4. \A j \in Digests : j[1] = n => status[j] # "merged"
    <3> TAKE j \in Digests
    <3> HAVE j[1] = n
    <3>1. \A v \in Workers : ~Merging(v, j)
      BY <2>3, MergerHas DEF ChainInv, StoredFirst, NoToken
    <3> QED
      BY <2>3, <3>1, NotMerged
  <2>5. \A j \in Digests : status'[j] = "merged" <=> status[j] = "merged"
    BY <1>2, <2>4 DEF StoreJobs, Digests
  <2> QED
    BY <2>1, <2>2, <2>5, IntoStays
<1>3. ASSUME AddPlain(w) \/ AddDelay(w) PROVE MergesStay(w)
  <2>1. PICK s \in {"queued", "delayed"} : SetStatus(wk[w].add, s)
    BY <1>3 DEF AddPlain, AddDelay
  <2>2. /\ wk[w].pc = "add" /\ GoTo(w, "enqueue") /\ mergedInto' = mergedInto
        /\ ~IsDigest(wk[w].add)
    BY <1>3 DEF AddPlain, AddDelay, Adding, IsAction, IsDigest
  <2>3. Others(w) /\ wk'[w].pc = "enqueue"
    BY <2>2, GoToPC
  <2>4. status' = [status EXCEPT ![wk[w].add] = s] /\ s # "merged" /\ wk[w].add \notin Digests
    BY <2>1, <2>2 DEF SetStatus, Digests
  <2> QED
    BY <2>2, <2>3, <2>4, WriteInto
<1>4. ASSUME AddDelayMisconfigured(w) PROVE MergesStay(w)
  <2>1. Others(w) /\ wk'[w].pc \in {"idle", "reject"} /\ wk[w].pc = "add"
    BY <1>4, ReturnPC DEF AddDelayMisconfigured, Adding
  <2>2. /\ status' = [status EXCEPT ![wk[w].add] = "canceled"] /\ wk[w].add \notin Digests
        /\ mergedInto' = mergedInto
    BY <1>4 DEF AddDelayMisconfigured, Adding, SetStatus, Digests, IsDigest
  <2> QED
    BY <2>1, <2>2, WriteInto
<1>5. ASSUME AddThrows(w) \/ Enqueue(w) PROVE MergesStay(w)
  <2>1. PICK e : Return(w, e)
    BY <1>5 DEF AddThrows, Enqueue
  <2>2. Others(w) /\ wk'[w].pc \in {"idle", "reject"} /\ wk[w].pc \in {"add", "enqueue"}
    BY <1>5, <2>1, ReturnPC DEF AddThrows, Enqueue
  <2>3. status' = status /\ mergedInto' = mergedInto
    BY <1>5 DEF AddThrows, Enqueue, db
  <2> QED
    BY <2>2, <2>3, IntoStays
<1>6. ASSUME DigestFiltered(w) \/ DecideSkip(w) \/ DecideCreate(w) PROVE MergesStay(w)
  <2>1. PICK pc \in {"skip", "claim"} : GoTo(w, pc)
    BY <1>6 DEF DigestFiltered, DecideSkip, DecideCreate
  <2>2. wk[w].pc = "add" /\ status' = status /\ mergedInto' = mergedInto
    BY <1>6 DEF DigestFiltered, DecideSkip, DecideCreate, Adding, db
  <2> QED
    BY <2>1, <2>2, GoToPC, IntoStays
<1>7. ASSUME Claim(w) \/ Skip(w) PROVE MergesStay(w)
  <2>1. PICK s \in {"delayed", "skipped"} : status' = [status EXCEPT ![wk[w].add] = s]
    BY <1>7 DEF Claim, Skip, SetStatus
  <2>2. wk[w].pc \in {"claim", "skip"} /\ mergedInto' = mergedInto
    BY <1>7 DEF Claim, Skip
  <2>3. Others(w) /\ wk'[w].pc # "merge"
    <3>1. CASE Claim(w)
      BY <3>1, GoToPC DEF Claim
    <3>2. CASE Skip(w) /\ HasChild(wk[w].add)
      <4> DEFINE r == [wk[w] EXCEPT !.pc = "add", !.add = Child(wk[w].add)]
      <4>1. wk' = [wk EXCEPT ![w] = r]
        BY <3>2 DEF Skip, Skipped
      <4>2. r.pc = "add"
        BY DEF WorkerState
      <4> HIDE DEF r
      <4> QED
        BY <4>1, <4>2 DEF Others
    <3>3. CASE Skip(w) /\ ~HasChild(wk[w].add)
      BY <3>3, ReturnPC DEF Skip, Skipped
    <3> QED
      BY <1>7, <3>1, <3>2, <3>3
  <2>4. Has(wk[w], wk[w].add[1]) /\ ~Merging(w, wk[w].add)
    BY <2>2, JobOfSched DEF Has, Sched, Merging
  <2>5. wk[w].add \in Digests => status[wk[w].add] # "merged"
    BY <2>4, HolderNotMerged
  <2>6. s # "merged" /\ wk[w].pc # "merge"
    BY <2>2
  <2> QED
    BY <2>1, <2>2, <2>3, <2>5, <2>6, WriteInto
<1> QED
  BY <1>2, <1>3, <1>4, <1>5, <1>6, <1>7, MergeWriteInto DEF AddJobStep

LEMMA EnqueueLostInto ==
    ASSUME ChainInv, MergesOK, NEW w \in Workers, EnqueueLost(w)
    PROVE  MergesStay(w)
<1>1. Others(w) /\ wk'[w].pc \in {"idle", "reject"} /\ wk[w].pc = "enqueue"
  BY ReturnPC DEF EnqueueLost, ChainInv, TypeInv, TypeOK
<1>2. status' = status /\ mergedInto' = mergedInto
  BY DEF EnqueueLost, db
<1> QED
  BY <1>1, <1>2, IntoStays

LEMMA CaughtPC ==
    ASSUME wk \in [Workers -> WorkerState], NEW w \in Workers, NEW e, Caught(w, e)
    PROVE  /\ Others(w) /\ wk'[w].pc \in {"next", "reject"} /\ wk'[w].err = e
           /\ wk'[w].bull = wk[w].bull
<1> DEFINE r == [wk[w] EXCEPT !.err = e, !.pc = IF StopsChain(wk[w].cur[2], e) THEN "reject" ELSE "next"]
<1>1. wk' = [wk EXCEPT ![w] = r]
  BY DEF Caught
<1>2. r.pc \in {"next", "reject"} /\ r.err = e /\ r.bull = wk[w].bull
  BY DEF WorkerState
<1> HIDE DEF r
<1> QED
  BY <1>1, <1>2 DEF Others

LEMMA RunJobInto ==
    ASSUME NoRepeats, ChainInv, MergesOK, MergedIsOver, FailedUnmerged, NEW w \in Workers,
           RunJobStep(w)
    PROVE  MergesStay(w)
<1>1. /\ wk[w] \in WorkerState /\ wk \in [Workers -> WorkerState] /\ SlotChain(wk[w])
      /\ status \in [Jobs -> Statuses] /\ SlotOK(wk[w]) /\ mergedInto' = mergedInto
  BY DEF ChainInv, TypeInv, TypeOK, SlotsOK, SlotsInChain, RunJobStep, Receive, FindFollower,
         NoFollower, MarkRunning, SendNothing, Deliver, ReadBatch, WriteBatch, FilterOut,
         SendThrows, DeliverThrows, MarkCompleted, QueueNext, Reject, HandleFailed, db
<1> USE <1>1
<1>2. ~FindFollower(w) /\ ~NoFollower(w)
  BY DEF FindFollower, NoFollower, At, SlotChain
<1>3. ASSUME NEW j \in Jobs, NEW a \in 0..MaxStarts, Receive(w, j, a) PROVE MergesStay(w)
  <2> DEFINE run == [Idle EXCEPT !.phase = "run", !.bull = j, !.made = a + 1]
             mark == [run EXCEPT !.pc = "mark", !.cur = j, !.batch = Carries(j)]
             follow == [run EXCEPT !.pc = "follow"]
  <2>1. wk[w] = Idle /\ status' = status
    BY <1>3 DEF Receive, db
  <2>2. \/ wk' = [wk EXCEPT ![w] = mark] \/ wk' = [wk EXCEPT ![w] = follow] \/ wk' = wk
    BY <1>3 DEF Receive
  <2>3. mark.pc = "mark" /\ follow.pc = "follow"
    BY DEF Idle
  <2> HIDE DEF mark, follow
  <2>4. Others(w) /\ wk'[w].pc # "merge" /\ wk[w].pc # "merge"
    BY <2>1, <2>2, <2>3, IdleIsFree DEF Others
  <2> QED
    BY <2>1, <2>4, IntoStays
<1>4. ASSUME MarkRunning(w) \/ FilterOut(w) \/ MarkCompleted(w) PROVE MergesStay(w)
  <2>1. PICK pc \in {"send", "complete", "next"} : GoTo(w, pc)
    BY <1>4 DEF MarkRunning, FilterOut, MarkCompleted, GoTo
  <2>2. PICK s \in {"running", "canceled", "completed"} : status' = [status EXCEPT ![wk[w].cur] = s]
    BY <1>4 DEF MarkRunning, FilterOut, MarkCompleted
  <2>3. wk[w].pc \in {"mark", "send", "complete"}
    BY <1>4 DEF MarkRunning, FilterOut, MarkCompleted, At
  <2>4. Has(wk[w], wk[w].cur[1]) /\ ~Merging(w, wk[w].cur)
    BY <2>3, JobOfRunning DEF Has, Running, Merging
  <2>5. wk[w].cur \in Digests => status[wk[w].cur] # "merged"
    BY <2>4, HolderNotMerged
  <2>6. Others(w) /\ wk'[w].pc # "merge" /\ wk[w].pc # "merge" /\ s # "merged"
    BY <2>1, <2>3, GoToPC
  <2> QED
    BY <2>2, <2>5, <2>6, WriteInto
<1>5. ASSUME SendNothing(w) \/ Deliver(w) \/ ReadBatch(w) \/ WriteBatch(w) \/ SendThrows(w)
             \/ DeliverThrows(w) \/ QueueNext(w) \/ Reject(w)
      PROVE  MergesStay(w)
  <2>1. wk[w].pc \in {"send", "digest", "next", "reject"} /\ status' = status
    BY <1>5 DEF SendNothing, Deliver, ReadBatch, WriteBatch, SendThrows, DeliverThrows, QueueNext,
                Reject, At, db
  <2>2. Others(w) /\ wk'[w].pc # "merge"
    <3>1. CASE SendNothing(w) \/ Deliver(w) \/ WriteBatch(w) \/ Reject(w)
      <4>1. PICK pc \in {"complete", "failed"} : GoTo(w, pc)
        BY <3>1 DEF SendNothing, Deliver, WriteBatch, Reject, GoTo
      <4> QED
        BY <4>1, GoToPC
    <3>2. CASE ReadBatch(w)
      <4> DEFINE r == [wk[w] EXCEPT !.pc = "digest", !.batch = DigestEvents(wk[w].cur)]
      <4>1. wk' = [wk EXCEPT ![w] = r]
        BY <3>2 DEF ReadBatch
      <4>2. r.pc = "digest"
        BY DEF WorkerState
      <4> HIDE DEF r
      <4> QED
        BY <4>1, <4>2 DEF Others
    <3>3. CASE SendThrows(w) \/ DeliverThrows(w)
      <4>1. PICK e : Caught(w, e)
        BY <3>3 DEF SendThrows, DeliverThrows
      <4> QED
        BY <4>1, CaughtPC
    <3>4. CASE QueueNext(w)
      <4> DEFINE r == [wk[w] EXCEPT !.pc = "add", !.add = Child(wk[w].cur)]
      <4>1. wk' = [wk EXCEPT ![w] = r] \/ Return(w, "none")
        BY <3>4 DEF QueueNext
      <4>2. r.pc = "add"
        BY DEF WorkerState
      <4> HIDE DEF r
      <4> QED
        BY <4>1, <4>2, ReturnPC DEF Others
    <3> QED
      BY <1>5, <3>1, <3>2, <3>3, <3>4
  <2> QED
    BY <2>1, <2>2, IntoStays
<1>6. ASSUME HandleFailed(w) PROVE MergesStay(w)
  <2> DEFINE r == [wk[w] EXCEPT !.pc = "next", !.phase = "last", !.cur = wk[w].bull, !.err = "none"]
  <2>1. wk' = [wk EXCEPT ![w] = r] \/ wk' = [wk EXCEPT ![w] = Idle]
    BY <1>6 DEF HandleFailed
  <2>2. r.pc = "next" /\ wk[w].pc = "failed"
    BY <1>6 DEF WorkerState, HandleFailed, At
  <2> HIDE DEF r
  <2>3. Others(w) /\ wk'[w].pc # "merge" /\ wk[w].pc # "merge"
    BY <2>1, <2>2, IdleIsFree DEF Others
  <2>4. CASE status' = status
    BY <2>3, <2>4, IntoStays
  <2>5. CASE status' # status
    <3>1. /\ status' = [status EXCEPT ![wk[w].bull] = "failed"]
          /\ wk[w].err = "webhook" => IsLastFailure(wk[w].err, wk[w].made)
      BY <1>6, <2>5 DEF HandleFailed
    <3>2. wk[w].bull \in Digests => status[wk[w].bull] # "merged"
      <4> SUFFICES ASSUME wk[w].bull \in Digests PROVE status[wk[w].bull] # "merged"
        OBVIOUS
      <4>1. CASE wk[w].err = "plain"
        BY <2>2, <4>1 DEF FailedUnmerged, MergesOK, Into, Failing
      <4>2. CASE wk[w].err = "webhook"
        <5>1. Has(wk[w], wk[w].bull[1]) /\ ~Merging(w, wk[w].bull)
          BY <2>2, <3>1, <4>2, JobOfFailing DEF Has, Live, Last, Failing, Merging
        <5> QED
          BY <5>1, HolderNotMerged
      <4>3. wk[w].err \in {"plain", "webhook"}
        BY <2>2 DEF SlotChain, Failing, WorkerState, Errors
      <4> QED
        BY <4>1, <4>2, <4>3
    <3> QED
      BY <2>3, <3>1, <3>2, WriteInto
  <2> QED
    BY <2>4, <2>5
<1> QED
  BY <1>2, <1>3, <1>4, <1>5, <1>6 DEF RunJobStep

-----------------------------------------------------------------------------
(* A step that merges nothing keeps every event with its owner.             *)

\* A digest is opened by the slot that schedules it.
Opens(w) ==
    \A d \in Digests : status'[d] = "delayed" =>
        status[d] = "delayed" \/ (Has(wk[w], d[1]) /\ Ahead(w, 2 * d[2]))

\* Events are written by the slot that runs the digest, and by their owner.
Writes(w) ==
    \A j \in Jobs : \A e \in events'[j] :
        \/ e \in events[j]
        \/ /\ Has(wk[w], j[1]) /\ Owns(j[1], e)
           /\ \A d \in Digests : d[1] = j[1] => Ahead(w, 2 * d[2] + 1)

\* They are sent by their owner, which has the step behind it then.
Sends(w) ==
    \A s \in Steps, e \in Notifs :
        \/ delivered'[s][e] = delivered[s][e]
        \/ /\ delivered'[s][e] <= 1
           /\ \E m \in Notifs : Has(wk[w], m) /\ Owns(m, e) /\ Ahead(w, 2 * s + 1)

Loads(w) ==
    wk'[w].pc \in {"mark", "send", "digest"} => \A e \in wk'[w].batch : Owns(wk'[w].cur[1], e)

Fails(w) ==
    wk'[w].pc \in Failing /\ wk'[w].err = "plain" /\ wk'[w].bull \in Digests =>
        \A i \in Digests : ~Into(wk'[w].bull, i)

Effects(w) == Opens(w) /\ Writes(w) /\ Sends(w) /\ Loads(w) /\ Fails(w)

\* A token was at the same place before, or farther back.
LEMMA TokenBefore ==
    ASSUME ChainInv, NEW w \in Workers, Ahead(w, Pos(wk[w])), NEW n \in Notifs, NEW p \in Nat,
           Token(n, p)'
    PROVE  \E q \in Nat : q <= p /\ Token(n, q)
<1>1. CASE Has(wk[w], n)
  <2>1. Pos(wk[w]) \in Nat /\ Token(n, Pos(wk[w])) /\ p >= Pos(wk[w])
    BY <1>1, OnlyToken, PosNat DEF ChainInv, Has, Ahead
  <2> QED
    BY <2>1
<1>2. CASE ~Has(wk[w], n)
  BY <1>2 DEF Ahead
<1> QED
  BY <1>1, <1>2

\* No token falls back behind a failed step.
LEMMA FailedBehindKept ==
    ASSUME ChainInv, FailedBehind, NEW w \in Workers, Others(w), Onward(w)
    PROVE  FailedBehind'
<1> SUFFICES ASSUME NEW v \in Workers, v # w PROVE Trails(v)'
  BY DEF Onward, FailedBehind
<1> PICK n : n = wk[v].bull[1]
  OBVIOUS
<1> SUFFICES ASSUME wk[v].pc \in Failing, wk[v].err = "plain", NEW p \in Nat, Token(n, p)'
             PROVE  p > 2 * wk[v].bull[2]
  BY DEF Others, Trails
<1>1. wk[v].bull \in Jobs
  BY DEF ChainInv, TypeInv, SlotsOK, SlotOK, Failing
<1>2. PICK q \in Nat : q <= p /\ Token(n, q)
  BY <1>1, TokenBefore, JobFacts DEF Onward
<1>3. q > 2 * wk[v].bull[2]
  BY <1>2 DEF FailedBehind, Trails
<1> QED
  BY <1>1, <1>2, <1>3, JobFacts

LEMMA OnceKept ==
    ASSUME NoRepeats, OnceInv, ChainInv', NEW w \in Workers, Others(w), Onward(w), MergesStay(w),
           Effects(w)
    PROVE  OnceInv'
<1>1. \A n \in Notifs, p \in Nat : Token(n, p)' => \E q \in Nat : q <= p /\ Token(n, q)
  BY TokenBefore DEF Onward, OnceInv
<1>2. \A d \in Digests : d[1] \in Notifs /\ d[2] \in Nat /\ d \in Jobs
  BY JobFacts DEF Digests
<1>3. /\ SameInto /\ \A n, e : Owns(n, e)' <=> Owns(n, e)
      /\ Digests' = Digests
  BY OwnsStays DEF MergesStay, Digests, IsDigest, TypeOf
<1>4. AttemptsOK' /\ MergesOK'
  BY DEF Onward, MergesStay, OnceInv, AttemptsOK, Others
<1>5. NotYetOpen'
  <2> SUFFICES ASSUME NEW d \in Digests, NEW p \in Nat, Token(d[1], p)'
               PROVE  /\ p < 2 * d[2] => status'[d] # "delayed" /\ \A j \in Digests : ~Into(j, d)'
                      /\ p <= 2 * d[2] => \A s \in Steps : events'[<<d[1], s>>] = {}
    BY <1>3 DEF NotYetOpen
  <2>1. PICK q \in Nat : q <= p /\ Token(d[1], q)
    BY <1>1, <1>2
  <2>2. ASSUME p < 2 * d[2] PROVE status'[d] # "delayed" /\ \A j \in Digests : ~Into(j, d)'
    <3>1. q < 2 * d[2]
      BY <1>2, <2>1, <2>2
    <3>2. status[d] # "delayed" /\ \A j \in Digests : ~Into(j, d)
      BY <2>1, <3>1 DEF OnceInv, NotYetOpen
    <3>3. ~(Has(wk[w], d[1]) /\ Ahead(w, 2 * d[2]))
      BY <1>2, <2>2 DEF Ahead
    <3> QED
      BY <1>3, <3>2, <3>3 DEF Effects, Opens, SameInto
  <2>3. ASSUME p <= 2 * d[2], NEW s \in Steps PROVE events'[<<d[1], s>>] = {}
    <3>1. q <= 2 * d[2]
      BY <1>2, <2>1, <2>3
    <3>2. events[<<d[1], s>>] = {}
      BY <2>1, <3>1 DEF OnceInv, NotYetOpen
    <3>3. ~(Has(wk[w], d[1]) /\ Ahead(w, 2 * d[2] + 1))
      BY <1>2, <2>3 DEF Ahead
    <3>4. \A e : e \notin events'[<<d[1], s>>]
      BY <1>2, <3>2, <3>3, JobFacts DEF Effects, Writes
    <3> QED
      BY <3>4
  <2> QED
    BY <2>2, <2>3
<1>6. MergedIsOver'
  <2> SUFFICES ASSUME NEW i \in Digests, NEW j \in Digests, NEW p \in Nat, Token(j[1], p)',
                      Into(j, i)'
               PROVE  \E v \in Workers : Merging(v, j)'
    BY <1>3 DEF MergedIsOver
  <2>1. PICK q \in Nat : q <= p /\ Token(j[1], q)
    BY <1>1, <1>2
  <2>2. PICK v \in Workers : Merging(v, j)
    BY <1>3, <2>1 DEF OnceInv, MergedIsOver, SameInto
  <2> QED
    BY <2>2 DEF MergesStay, Others, Merging
<1>7. FlatInto'
  BY <1>3 DEF OnceInv, FlatInto, SameInto
<1>8. Unsent'
  <2> SUFFICES ASSUME NEW n \in Notifs, NEW e \in Notifs, NEW p \in Nat, NEW s \in Steps,
                      Token(n, p)', Owns(n, e), p <= 2 * s
               PROVE  delivered'[s][e] = 0
    BY <1>3 DEF Unsent
  <2>1. PICK q \in Nat : q <= p /\ Token(n, q)
    BY <1>1
  <2>2. s \in Nat
    BY StepAssumption DEF Steps
  <2>3. delivered[s][e] = 0
    BY <2>1, <2>2 DEF OnceInv, Unsent
  <2>4. ASSUME NEW m \in Notifs, Has(wk[w], m), Owns(m, e), Ahead(w, 2 * s + 1) PROVE FALSE
    <3>1. m = n
      BY <2>4, OneOwner DEF NoRepeats, CleanRuns, OnceInv
    <3>2. p >= 2 * s + 1
      BY <2>4, <3>1 DEF Ahead
    <3> QED
      BY <2>2, <3>2
  <2> QED
    BY <2>3, <2>4 DEF Effects, Sends
<1>9. EventsOwned'
  BY <1>3 DEF OnceInv, EventsOwned, Effects, Writes
<1>10. BatchOwned'
  <2> SUFFICES ASSUME NEW v \in Workers, wk'[v].pc \in {"mark", "send", "digest"},
                      NEW e \in wk'[v].batch
               PROVE  Owns(wk'[v].cur[1], e)
    BY <1>3 DEF BatchOwned
  <2> QED
    BY DEF OnceInv, BatchOwned, Effects, Loads, Others
<1>11. FailedBehind'
  BY FailedBehindKept DEF OnceInv
<1>12. FailedUnmerged'
  <2> SUFFICES ASSUME NEW v \in Workers, NEW i \in Digests, wk'[v].pc \in Failing,
                      wk'[v].err = "plain", wk'[v].bull \in Digests
               PROVE  ~Into(wk'[v].bull, i)
    BY <1>3 DEF FailedUnmerged, SameInto
  <2> QED
    BY DEF OnceInv, FailedUnmerged, Effects, Fails, Others
<1>13. EventOncePerStep'
  BY DEF OnceInv, EventOncePerStep, Effects, Sends
<1> QED
  BY <1>4, <1>5, <1>6, <1>7, <1>8, <1>9, <1>10, <1>11, <1>12, <1>13 DEF OnceInv

LEMMA ReturnFails ==
    ASSUME ChainInv, MergesOK, MergedIsOver, NEW w \in Workers, wk[w].pc \in Sched \cup {"next"},
           NEW e, Return(w, e)
    PROVE  Fails(w)
<1> DEFINE rej == [wk[w] EXCEPT !.pc = "reject", !.err = IF e = "none" THEN wk[w].err ELSE e]
<1>1. /\ wk[w] \in WorkerState /\ wk \in [Workers -> WorkerState] /\ SlotChain(wk[w])
      /\ SlotOK(wk[w])
  BY DEF ChainInv, TypeInv, TypeOK, SlotsInChain, SlotsOK
<1>2. wk'[w] = Idle \/ (wk'[w] = rej /\ wk[w].phase = "run")
  BY <1>1 DEF Return
<1>3. rej.bull = wk[w].bull
  BY <1>1 DEF WorkerState
<1> HIDE DEF rej
<1> SUFFICES ASSUME wk[w].phase = "run", wk[w].bull \in Digests
             PROVE  \A i \in Digests : ~Into(wk[w].bull, i)
  BY <1>2, <1>3, IdleIsFree DEF Fails, Failing
<1>4. Has(wk[w], wk[w].bull[1])
  BY <1>1, JobOfSched, JobOfRunning DEF SlotChain, SlotOK, Sched, Running, Has
<1>5. ~Merging(w, wk[w].bull)
  BY <1>1, JobFacts DEF SlotChain, SlotOK, Sched, Merging
<1> QED
  BY <1>4, <1>5, HolderNotMerged

\* AddJob goes on with a job, or returns.
LEMMA AddJobForm ==
    ASSUME ChainInv, NEW w \in Workers, AddJobStep(w)
    PROVE  /\ wk'[w].pc \in Sched \/ (wk[w].pc \in Sched /\ \E e : Return(w, e))
           /\ events' = events /\ delivered' = delivered
<1>1. wk \in [Workers -> WorkerState] /\ wk[w] \in WorkerState
  BY DEF ChainInv, TypeInv, TypeOK
<1>2. events' = events /\ delivered' = delivered
  BY DEF AddJobStep, StoreJobs, AddPlain, AddDelay, AddDelayMisconfigured, AddThrows,
         DigestFiltered, DecideSkip, DecideCreate, DecideMerge, Claim, MergeWrite, Skip, Enqueue,
         db, history
<1>3. ASSUME NEW n \in Notifs, StoreJobs(w, n) PROVE wk'[w].pc \in Sched
  BY <1>1, <1>3 DEF StoreJobs, Idle, Sched
<1>4. ASSUME AddPlain(w) \/ AddDelay(w) \/ DigestFiltered(w) \/ DecideSkip(w) \/ DecideCreate(w)
             \/ Claim(w)
      PROVE  wk'[w].pc \in Sched
  <2>1. PICK pc \in {"enqueue", "skip", "claim"} : GoTo(w, pc)
    BY <1>4 DEF AddPlain, AddDelay, DigestFiltered, DecideSkip, DecideCreate, Claim
  <2> QED
    BY <1>1, <2>1, GoToPC DEF Sched
<1>5. ASSUME AddDelayMisconfigured(w) \/ AddThrows(w) \/ Enqueue(w)
      PROVE  wk[w].pc \in Sched /\ \E e : Return(w, e)
  BY <1>5 DEF AddDelayMisconfigured, AddThrows, Enqueue, Adding, Sched
<1>6. ASSUME DecideMerge(w) PROVE wk'[w].pc \in Sched
  <2>1. PICK d : wk' = [wk EXCEPT ![w].pc = "merge", ![w].hit = d,
                                  ![w].todo = wk[w].add[2]..NumSteps]
    BY <1>6 DEF DecideMerge
  <2> DEFINE r == [wk[w] EXCEPT !.pc = "merge", !.hit = d, !.todo = wk[w].add[2]..NumSteps]
  <2>2. wk' = [wk EXCEPT ![w] = r] /\ r.pc = "merge"
    BY <1>1, <2>1 DEF WorkerState
  <2> HIDE DEF r
  <2> QED
    BY <1>1, <2>2 DEF Sched
<1>7. ASSUME MergeWrite(w)
      PROVE  wk'[w].pc \in Sched \/ (wk[w].pc \in Sched /\ \E e : Return(w, e))
  <2>1. PICK s : IF wk[w].todo = {s} THEN Merged(w) ELSE wk' = [wk EXCEPT ![w].todo = @ \ {s}]
    BY <1>7 DEF MergeWrite
  <2>2. wk[w].pc = "merge"
    BY <1>7 DEF MergeWrite
  <2> DEFINE r == [wk[w] EXCEPT !.todo = wk[w].todo \ {s}]
  <2>3. r.pc = "merge" /\ (Return(w, "none") \/ wk' = [wk EXCEPT ![w] = r])
    BY <1>1, <2>1, <2>2 DEF WorkerState, Merged
  <2> HIDE DEF r
  <2> QED
    BY <1>1, <2>2, <2>3 DEF Sched
<1>8. ASSUME Skip(w) PROVE wk'[w].pc \in Sched \/ (wk[w].pc \in Sched /\ \E e : Return(w, e))
  <2> DEFINE r == [wk[w] EXCEPT !.pc = "add", !.add = Child(wk[w].add)]
  <2>1. r.pc = "add" /\ (Return(w, "none") \/ wk' = [wk EXCEPT ![w] = r]) /\ wk[w].pc = "skip"
    BY <1>1, <1>8 DEF WorkerState, Skip, Skipped
  <2> HIDE DEF r
  <2> QED
    BY <1>1, <2>1 DEF Sched
<1> QED
  BY <1>2, <1>3, <1>4, <1>5, <1>6, <1>7, <1>8 DEF AddJobStep

LEMMA AddJobEffects ==
    ASSUME NoRepeats, OnceInv, NEW w \in Workers, AddJobStep(w)
    PROVE  Effects(w)
<1>1. /\ wk[w] \in WorkerState /\ wk \in [Workers -> WorkerState] /\ status \in [Jobs -> Statuses]
      /\ SlotOK(wk[w]) /\ ChainInv /\ MergesOK /\ MergedIsOver
  BY DEF OnceInv, ChainInv, TypeInv, TypeOK, SlotsOK
<1>2. /\ wk'[w].pc \in Sched \/ (wk[w].pc \in Sched /\ \E e : Return(w, e))
      /\ Writes(w) /\ Sends(w)
  BY <1>1, AddJobForm DEF Writes, Sends
<1>3. Loads(w) /\ Fails(w)
  BY <1>1, <1>2, ReturnPC, ReturnFails DEF Loads, Fails, Sched, Failing
<1>4. Opens(w)
  <2>1. ASSUME Claim(w) PROVE Opens(w)
    <3>1. /\ wk[w].pc = "claim" /\ GoTo(w, "enqueue") /\ waiting' = waiting
          /\ status' = [status EXCEPT ![wk[w].add] = "delayed"]
      BY <2>1 DEF Claim, SetStatus
    <3> DEFINE r == [wk[w] EXCEPT !.pc = "enqueue"]
    <3>2. wk' = [wk EXCEPT ![w] = r] /\ r.pc = "enqueue" /\ r.add = wk[w].add
      BY <1>1, <3>1 DEF GoTo, WorkerState
    <3> HIDE DEF r
    <3>3. wk'[w] = r /\ Others(w) /\ wk[w].add \in Jobs
      BY <1>1, <3>1, <3>2 DEF Others, SlotOK
    <3>4. StoredStays
      BY <1>1, AddJobSteady DEF NoRepeats, CleanRuns, Steady
    <3>5. Pos(r) >= 2 * wk[w].add[2]
      BY <3>2, <3>3, PosValues, JobFacts
    <3>6. \A n \in Notifs : Has(r, n) => Has(wk[w], n)
      BY <3>1, <3>2, JobOfSched DEF Has, Sched
    <3>7. Ahead(w, 2 * wk[w].add[2])
      BY <1>1, <3>1, <3>3, <3>4, <3>5, <3>6, KeepsAhead
    <3>8. Has(wk[w], wk[w].add[1])
      BY <3>1, JobOfSched DEF Has, Sched
    <3> QED
      BY <1>1, <3>1, <3>7, <3>8 DEF Opens, Digests
  <2>2. ASSUME NEW n \in Notifs, StoreJobs(w, n) PROVE Opens(w)
    BY <2>2 DEF StoreJobs, Opens, Digests
  <2>3. ASSUME AddPlain(w) \/ AddDelay(w) \/ AddDelayMisconfigured(w) PROVE Opens(w)
    <3>1. PICK s : status' = [status EXCEPT ![wk[w].add] = s]
      BY <2>3 DEF AddPlain, AddDelay, AddDelayMisconfigured, SetStatus
    <3>2. wk[w].add \notin Digests
      BY <2>3 DEF AddPlain, AddDelay, AddDelayMisconfigured, Adding, IsAction, IsDigest, Digests
    <3> QED
      BY <1>1, <3>1, <3>2 DEF Opens, Digests
  <2>4. ASSUME MergeWrite(w) \/ Skip(w) PROVE Opens(w)
    <3>1. PICK i, s : s # "delayed" /\ status' = [status EXCEPT ![i] = s]
      BY <2>4 DEF MergeWrite, Skip, SetStatus
    <3> QED
      BY <1>1, <3>1 DEF Opens, Digests
  <2>5. ASSUME status' = status PROVE Opens(w)
    BY <2>5 DEF Opens
  <2> QED
    BY <2>1, <2>2, <2>3, <2>4, <2>5
       DEF AddJobStep, AddThrows, DigestFiltered, DecideSkip, DecideCreate, DecideMerge, Enqueue, db
<1> QED
  BY <1>2, <1>3, <1>4 DEF Effects

LEMMA EnqueueLostEffects ==
    ASSUME OnceInv, NEW w \in Workers, EnqueueLost(w)
    PROVE  Effects(w)
<1>1. ChainInv /\ MergesOK /\ MergedIsOver /\ wk \in [Workers -> WorkerState]
  BY DEF OnceInv, ChainInv, TypeInv, TypeOK
<1>2. Return(w, "none") /\ wk[w].pc = "enqueue" /\ Opens(w) /\ Writes(w) /\ Sends(w)
  BY DEF EnqueueLost, db, history, Opens, Writes, Sends
<1> QED
  BY <1>1, <1>2, ReturnPC, ReturnFails DEF Effects, Loads, Sched

LEMMA RunJobEffects ==
    ASSUME NoRepeats, OnceInv, NEW w \in Workers, RunJobStep(w), Onward(w),
           RunDone(w) => Ahead(w, 2 * wk[w].cur[2] + 1)
    PROVE  Effects(w)
<1>1. /\ wk[w] \in WorkerState /\ wk \in [Workers -> WorkerState] /\ status \in [Jobs -> Statuses]
      /\ SlotOK(wk[w]) /\ SlotChain(wk[w]) /\ ChainInv /\ MergesOK /\ MergedIsOver /\ BatchOwned
      /\ FailedUnmerged /\ Unsent /\ delivered \in [Steps -> [Notifs -> Nat]]
      /\ \A j \in Jobs : events[j] \in SUBSET Notifs
  BY DEF OnceInv, ChainInv, TypeInv, TypeOK, SlotsOK, SlotsInChain
<1> USE <1>1
<1>2. ~FindFollower(w) /\ ~NoFollower(w)
  BY DEF FindFollower, NoFollower, At, SlotChain
<1>3. Opens(w)
  <2>1. status' = status \/ \E i, s : s # "delayed" /\ status' = [status EXCEPT ![i] = s]
    BY DEF RunJobStep, Receive, FindFollower, NoFollower, MarkRunning, SendNothing, Deliver,
           ReadBatch, WriteBatch, FilterOut, SendThrows, DeliverThrows, MarkCompleted, QueueNext,
           Reject, HandleFailed, db
  <2> QED
    BY <2>1 DEF Opens, Digests
\* The events of a job that can be run belong to its notification.
<1>4. ASSUME NEW n \in Notifs, NEW p \in Nat, Token(n, p), \A v \in Workers, j \in Digests :
                j[1] = n => ~Merging(v, j)
      PROVE  Owns(n, n)
  <2>1. \A i \in Digests, j \in Digests : j[1] = n => ~Into(j, i)
    BY <1>4, NotMerged
  <2> QED
    BY <2>1 DEF Owns
<1>5. \A s \in Steps, e \in Notifs : wk[w].pc \in {"send", "digest"} /\ s = wk[w].cur[2]
                                        /\ e \in wk[w].batch => delivered[s][e] = 0
  <2> SUFFICES ASSUME wk[w].pc \in {"send", "digest"}, NEW e \in Notifs, e \in wk[w].batch
               PROVE  delivered[wk[w].cur[2]][e] = 0
    OBVIOUS
  <2>1. wk[w].cur \in Jobs /\ Has(wk[w], wk[w].cur[1]) /\ Owns(wk[w].cur[1], e)
    BY JobOfRunning DEF SlotOK, Running, Has, BatchOwned
  <2>2. Token(wk[w].cur[1], 2 * wk[w].cur[2])
    BY <2>1, OnlyToken, PosValues, JobFacts
  <2> PICK n, s : n = wk[w].cur[1] /\ s = wk[w].cur[2]
    OBVIOUS
  <2>3. n \in Notifs /\ s \in Steps /\ s \in Nat
    BY <2>1, JobFacts
  <2>4. 2 * s \in Nat /\ 2 * s <= 2 * s
    BY <2>3
  <2>5. delivered[s][e] = 0
    BY <2>1, <2>2, <2>3, <2>4 DEF Unsent
  <2> QED
    BY <2>5
<1>6. ASSUME Deliver(w) \/ DeliverThrows(w) PROVE Writes(w) /\ Sends(w)
  <2>1. /\ events' = events /\ Sent(wk[w].cur[2], wk[w].batch) /\ wk[w].pc = "send"
    BY <1>6 DEF Deliver, DeliverThrows, db, At
  <2>2. wk[w].cur \in Jobs /\ Has(wk[w], wk[w].cur[1])
    BY <2>1, JobOfRunning DEF SlotOK, Running, Has
  <2>3. Ahead(w, 2 * wk[w].cur[2] + 1)
    BY <1>6 DEF RunDone
  <2>4. \A s \in Steps, e \in Notifs :
           delivered'[s][e] = IF s = wk[w].cur[2] /\ e \in wk[w].batch
                              THEN delivered[s][e] + 1 ELSE delivered[s][e]
    BY <2>1, <2>2, JobFacts DEF Sent
  <2>5. Sends(w)
    <3> SUFFICES ASSUME NEW s \in Steps, NEW e \in Notifs, s = wk[w].cur[2], e \in wk[w].batch
                 PROVE  /\ delivered'[s][e] <= 1
                        /\ \E m \in Notifs : Has(wk[w], m) /\ Owns(m, e) /\ Ahead(w, 2 * s + 1)
      BY <2>4 DEF Sends
    <3>1. delivered'[s][e] = 1
      BY <1>5, <2>1, <2>4
    <3>2. Owns(wk[w].cur[1], e)
      BY <2>1 DEF BatchOwned
    <3> QED
      BY <2>2, <2>3, <3>1, <3>2, JobFacts
  <2> QED
    BY <2>1, <2>5 DEF Writes
<1>7. ASSUME WriteBatch(w) PROVE Writes(w) /\ Sends(w)
  <2>1. /\ delivered' = delivered /\ wk[w].pc = "digest"
        /\ events' = [j \in Jobs |-> IF j \in ToUpdate(wk[w].cur) THEN wk[w].batch ELSE events[j]]
    BY <1>7 DEF WriteBatch, history, At
  <2>2. wk[w].cur \in Jobs /\ Has(wk[w], wk[w].cur[1])
    BY <2>1, JobOfRunning DEF SlotOK, Running, Has
  <2>3. Ahead(w, 2 * wk[w].cur[2] + 1)
    BY <1>7 DEF RunDone
  <2>4. IsDigest(wk[w].cur)
    BY <2>1 DEF OnceInv, AttemptsOK, SlotAttempts
  <2>5. \A d \in Digests : d[1] = wk[w].cur[1] => d = wk[w].cur
    BY <2>2, <2>4, DigestOfNotif DEF NoRepeats, CleanRuns, Digests
  <2>6. Writes(w)
    <3> SUFFICES ASSUME NEW j \in Jobs, j \in ToUpdate(wk[w].cur), NEW e \in wk[w].batch
                 PROVE  /\ Has(wk[w], j[1]) /\ Owns(j[1], e)
                        /\ \A d \in Digests : d[1] = j[1] => Ahead(w, 2 * d[2] + 1)
      BY <2>1 DEF Writes
    <3>1. j[1] = wk[w].cur[1]
      BY DEF ToUpdate
    <3> QED
      BY <2>1, <2>2, <2>3, <2>5, <3>1 DEF BatchOwned
  <2> QED
    BY <2>1, <2>6 DEF Sends
<1>8. ASSUME ~Deliver(w), ~DeliverThrows(w), ~WriteBatch(w) PROVE Writes(w) /\ Sends(w)
  <2>1. events' = events /\ delivered' = delivered
    BY <1>2, <1>8
       DEF RunJobStep, Receive, MarkRunning, SendNothing, ReadBatch, FilterOut, SendThrows,
           MarkCompleted, QueueNext, Reject, HandleFailed, db, history
  <2> QED
    BY <2>1 DEF Writes, Sends
<1>9. ASSUME NEW j \in Jobs, NEW a \in 0..MaxStarts, Receive(w, j, a) PROVE Loads(w) /\ Fails(w)
  <2> DEFINE run == [Idle EXCEPT !.phase = "run", !.bull = j, !.made = a + 1]
             mark == [run EXCEPT !.pc = "mark", !.cur = j, !.batch = Carries(j)]
             follow == [run EXCEPT !.pc = "follow"]
  <2>1. \/ wk' = [wk EXCEPT ![w] = mark] \/ wk' = [wk EXCEPT ![w] = follow]
        \/ wk' = wk /\ wk[w] = Idle
    BY <1>9 DEF Receive
  <2>2. /\ mark.pc = "mark" /\ mark.cur = j /\ mark.batch = Carries(j)
        /\ follow.pc = "follow"
    BY DEF Idle
  <2> HIDE DEF mark, follow
  <2>3. Fails(w)
    BY <2>1, <2>2, IdleIsFree DEF Fails, Failing
  <2>4. waiting[j][a] > 0 /\ j[1] \in Notifs
    BY <1>9, JobFacts DEF Receive, HasDelivery
  <2>5. Token(j[1], 2 * j[2]) /\ 2 * j[2] \in Nat
    BY <2>4, JobFacts DEF Token
  <2>6. \A v \in Workers : ~Has(wk[v], j[1])
    BY <2>4, OnlyToken DEF NoDelivery
  <2>7. Owns(j[1], j[1])
    BY <1>4, <2>4, <2>5, <2>6, MergerHas
  <2>8. \A e \in Carries(j) : Owns(j[1], e)
    BY <2>7 DEF Carries, OnceInv, EventsOwned
  <2>9. Loads(w)
    BY <2>1, <2>2, <2>8, IdleIsFree DEF Loads
  <2> QED
    BY <2>3, <2>9
<1>10. ASSUME MarkRunning(w) PROVE Loads(w) /\ Fails(w)
  <2> DEFINE r == [wk[w] EXCEPT !.pc = "send"]
  <2>1. wk' = [wk EXCEPT ![w] = r] /\ wk[w].pc = "mark"
    BY <1>10 DEF MarkRunning, At
  <2>2. r.pc = "send" /\ r.cur = wk[w].cur /\ r.batch = wk[w].batch
    BY DEF WorkerState
  <2> HIDE DEF r
  <2> QED
    BY <2>1, <2>2 DEF Loads, Fails, Failing, BatchOwned
<1>11. ASSUME ReadBatch(w) PROVE Loads(w) /\ Fails(w)
  <2> DEFINE r == [wk[w] EXCEPT !.pc = "digest", !.batch = DigestEvents(wk[w].cur)]
  <2>1. wk' = [wk EXCEPT ![w] = r] /\ wk[w].pc = "send" /\ IsDigest(wk[w].cur)
    BY <1>11 DEF ReadBatch, At
  <2>2. r.pc = "digest" /\ r.cur = wk[w].cur /\ r.batch = DigestEvents(wk[w].cur)
    BY DEF WorkerState
  <2> HIDE DEF r
  <2>3. wk[w].cur \in Digests /\ Has(wk[w], wk[w].cur[1]) /\ wk[w].cur[1] \in Notifs
    BY <2>1, JobOfRunning, JobFacts DEF SlotOK, Running, Has, Digests
  <2>4. Owns(wk[w].cur[1], wk[w].cur[1])
    <3>1. Token(wk[w].cur[1], Pos(wk[w])) /\ Pos(wk[w]) \in Nat
      BY <2>3, OnlyToken, PosNat DEF ChainInv, Has
    <3>2. \A v \in Workers, j \in Digests : j[1] = wk[w].cur[1] => ~Merging(v, j)
      BY <2>1, <2>3, MergerHas, OnlyToken DEF Merging
    <3> QED
      BY <1>4, <2>3, <3>1, <3>2
  <2>5. \A f \in Followers(wk[w].cur) : Owns(wk[w].cur[1], f[1])
    <3> TAKE f \in Followers(wk[w].cur)
    <3>1. f \in Digests /\ Into(f, wk[w].cur)
      BY DEF Followers, WithStatus, Digests, Into
    <3> QED
      BY <2>3, <3>1 DEF Owns
  <2>6. \A e \in DigestEvents(wk[w].cur) : Owns(wk[w].cur[1], e)
    BY <2>4, <2>5 DEF DigestEvents
  <2> QED
    BY <2>1, <2>2, <2>6 DEF Loads, Fails, Failing
<1>12. ASSUME SendNothing(w) \/ Deliver(w) \/ WriteBatch(w) \/ FilterOut(w) \/ MarkCompleted(w)
       PROVE  Loads(w) /\ Fails(w)
  <2>1. PICK pc \in {"complete", "next"} : GoTo(w, pc)
    BY <1>12 DEF SendNothing, Deliver, WriteBatch, FilterOut, MarkCompleted, GoTo
  <2>2. wk'[w].pc = pc
    BY <2>1, GoToPC
  <2> QED
    BY <2>2 DEF Loads, Fails, Failing
<1>13. ASSUME SendThrows(w) \/ DeliverThrows(w) PROVE Loads(w) /\ Fails(w)
  <2>1. (\E e : Caught(w, e)) /\ wk[w].pc = "send"
    BY <1>13 DEF SendThrows, DeliverThrows, At
  <2>2. wk'[w].pc \in {"next", "reject"} /\ wk'[w].bull = wk[w].bull
    BY <2>1, CaughtPC
  <2>3. Has(wk[w], wk[w].bull[1]) /\ ~Merging(w, wk[w].bull)
    BY <2>1, JobOfRunning DEF Has, Running, Merging, SlotChain
  <2> QED
    BY <2>2, <2>3, HolderNotMerged DEF Loads, Fails
<1>14. ASSUME QueueNext(w) PROVE Loads(w) /\ Fails(w)
  <2> DEFINE r == [wk[w] EXCEPT !.pc = "add", !.add = Child(wk[w].cur)]
  <2>1. wk[w].pc = "next" /\ (wk' = [wk EXCEPT ![w] = r] \/ Return(w, "none"))
    BY <1>14 DEF QueueNext, At
  <2>2. r.pc = "add"
    BY DEF WorkerState
  <2> HIDE DEF r
  <2>3. CASE wk' = [wk EXCEPT ![w] = r]
    BY <2>2, <2>3 DEF Loads, Fails, Failing
  <2>4. CASE Return(w, "none")
    BY <2>1, <2>4, ReturnPC, ReturnFails DEF Loads
  <2> QED
    BY <2>1, <2>3, <2>4
<1>15. ASSUME Reject(w) PROVE Loads(w) /\ Fails(w)
  <2> DEFINE r == [wk[w] EXCEPT !.pc = "failed"]
  <2>1. wk' = [wk EXCEPT ![w] = r] /\ wk[w].pc = "reject"
    BY <1>15 DEF Reject, At
  <2>2. r.pc = "failed" /\ r.bull = wk[w].bull /\ r.err = wk[w].err
    BY DEF WorkerState
  <2> HIDE DEF r
  <2> QED
    BY <2>1, <2>2 DEF Loads, Fails, Failing, FailedUnmerged
<1>16. ASSUME HandleFailed(w) PROVE Loads(w) /\ Fails(w)
  <2> DEFINE r == [wk[w] EXCEPT !.pc = "next", !.phase = "last", !.cur = wk[w].bull, !.err = "none"]
  <2>1. wk' = [wk EXCEPT ![w] = r] \/ wk' = [wk EXCEPT ![w] = Idle]
    BY <1>16 DEF HandleFailed
  <2>2. r.pc = "next"
    BY DEF WorkerState
  <2> HIDE DEF r
  <2> QED
    BY <2>1, <2>2, IdleIsFree DEF Loads, Fails, Failing
<1>17. Writes(w) /\ Sends(w)
  BY <1>6, <1>7, <1>8
<1>18. Loads(w) /\ Fails(w)
  BY <1>2, <1>9, <1>10, <1>11, <1>12, <1>13, <1>14, <1>15, <1>16 DEF RunJobStep
<1> QED
  BY <1>3, <1>17, <1>18 DEF Effects

-----------------------------------------------------------------------------
(* A merge hands the event of a notification over to another one.           *)

LEMMA DecideMergeKeepsOnce ==
    ASSUME NoRepeats, OnceInv, ChainInv', NEW w \in Workers, DecideMerge(w), Onward(w)
    PROVE  OnceInv'
<1>1. /\ wk[w] \in WorkerState /\ wk \in [Workers -> WorkerState] /\ SlotOK(wk[w])
      /\ ChainInv /\ MergesOK /\ MergedIsOver /\ NotYetOpen /\ FailedBehind
  BY DEF OnceInv, ChainInv, TypeInv, TypeOK, SlotsOK
<1> PICK j, hit : /\ j = wk[w].add /\ hit \in OpenDigests(GroupOf[j[1]])
                  /\ wk' = [wk EXCEPT ![w].pc = "merge", ![w].hit = hit, ![w].todo = j[2]..NumSteps]
  BY DEF DecideMerge
<1> DEFINE r == [wk[w] EXCEPT !.pc = "merge", !.hit = hit, !.todo = j[2]..NumSteps]
<1>2. wk' = [wk EXCEPT ![w] = r]
  OBVIOUS
<1>3. r.pc = "merge" /\ r.hit = hit /\ r.todo = j[2]..NumSteps /\ r.add = j
  BY <1>1 DEF WorkerState
<1> HIDE DEF r
<1>4. wk'[w] = r /\ Others(w)
  BY <1>1, <1>2 DEF Others
<1>5. /\ wk[w].pc = "add" /\ j \in Digests /\ hit \in Digests /\ status[hit] = "delayed"
      /\ status' = status /\ mergedInto' = mergedInto /\ events' = events /\ waiting' = waiting
      /\ delivered' = delivered
  BY <1>1 DEF DecideMerge, Adding, SlotOK, Digests, IsDigest, TypeOf, OpenDigests, WithStatus, db,
              history
<1>6. /\ j \in Jobs /\ j[1] \in Notifs /\ j[2] \in Nat /\ j[2] \in Steps
      /\ hit \in Jobs /\ hit[1] \in Notifs /\ hit[2] \in Nat /\ hit[2] = j[2]
  BY <1>5, JobFacts DEF NoRepeats, CleanRuns, OneDigestStep, Digests, DigestSteps, IsDigest, TypeOf
<1>7. \A m \in Notifs : Has(r, m) <=> Has(wk[w], m)
  BY <1>3, <1>5, JobOfSched DEF Has, Sched
<1>8. Pos(r) = Pos(wk[w]) /\ Pos(wk[w]) = 2 * j[2] - 1
  BY <1>3, <1>5, PosValues
<1>9. \A m \in Notifs : \A p : Token(m, p)' <=> Token(m, p)
  BY <1>4, <1>5, <1>7, <1>8 DEF Token, Others, Stored
<1>10. Has(wk[w], j[1])
  BY <1>5, JobOfSched DEF Has, Sched
<1>11. Token(j[1], 2 * j[2] - 1) /\ 2 * j[2] - 1 \in Nat
  BY <1>1, <1>6, <1>8, <1>10, OnlyToken, PosNat DEF ChainInv, Has
<1>12. /\ status[j] # "delayed" /\ \A i \in Digests : ~Into(i, j)
       /\ \A s \in Steps : events[<<j[1], s>>] = {}
  <2> PICK q : q = 2 * j[2] - 1
    OBVIOUS
  <2>1. q \in Nat /\ q < 2 * j[2] /\ q <= 2 * j[2] /\ Token(j[1], q)
    BY <1>6, <1>11
  <2> QED
    BY <1>1, <1>5, <2>1 DEF NotYetOpen
<1>13. status[j] # "merged" /\ \A i \in Digests : ~Into(j, i)
  <2>1. ~Merging(w, j)
    BY <1>5 DEF Merging
  <2> QED
    BY <1>1, <1>5, <1>10, <2>1, HolderNotMerged
<1>14. hit # j /\ hit[1] # j[1]
  BY <1>5, <1>12, DigestOfNotif DEF NoRepeats, CleanRuns
<1>15. \A p \in Nat : Token(hit[1], p) => p >= 2 * hit[2]
  BY <1>1, <1>5, <1>6 DEF NotYetOpen
<1>16. \A k \in Digests : ~Into(hit, k)
  <2>1. ASSUME NEW v \in Workers, Merging(v, hit) PROVE FALSE
    <3>1. Has(wk[v], hit[1]) /\ wk[v].pc = "merge" /\ wk[v].add = hit
      BY <1>5, <2>1, MergerHas DEF Merging
    <3>2. Token(hit[1], Pos(wk[v])) /\ Pos(wk[v]) \in Nat
      BY <1>1, <1>6, <3>1, OnlyToken, PosNat DEF ChainInv, Has
    <3>3. Pos(wk[v]) = 2 * hit[2] - 1
      BY <3>1, PosValues
    <3> QED
      BY <1>6, <1>15, <3>2, <3>3
  <2> QED
    BY <1>5, <2>1 DEF Into
<1>17. \A v \in Workers : \A d : Merging(v, d)' <=> Merging(v, d) \/ (v = w /\ d = j)
  BY <1>3, <1>4, <1>5 DEF Merging, Others
<1>18. \A v \in Workers : v # w => wk'[v] = wk[v]
  BY <1>4 DEF Others
<1>19. \A d, i : Into(d, i)' <=> Into(d, i) \/ (d = j /\ i = hit)
  <2> TAKE d, i
  <2>1. Into(d, i)' <=> \/ status[d] = "merged" /\ mergedInto[d] = i
                        \/ \E v \in Workers : wk'[v].pc = "merge" /\ wk'[v].add = d /\ wk'[v].hit = i
    BY <1>5 DEF Into, Merging
  <2>2. Into(d, i) <=> \/ status[d] = "merged" /\ mergedInto[d] = i
                       \/ \E v \in Workers : wk[v].pc = "merge" /\ wk[v].add = d /\ wk[v].hit = i
    BY DEF Into, Merging
  <2>3. (\E v \in Workers : wk'[v].pc = "merge" /\ wk'[v].add = d /\ wk'[v].hit = i)
           <=> \/ \E v \in Workers : wk[v].pc = "merge" /\ wk[v].add = d /\ wk[v].hit = i
               \/ d = j /\ i = hit
    <3>1. wk[w].pc # "merge" /\ wk'[w] = r
      BY <1>4, <1>5
    <3> QED
      BY <1>3, <1>18, <3>1
  <2> QED
    BY <2>1, <2>2, <2>3
<1>20. Digests' = Digests
  BY DEF Digests, IsDigest, TypeOf
<1>21. \A m, e : Owns(m, e)' => Owns(m, e) \/ (m = hit[1] /\ e = j[1])
  BY <1>19, <1>20 DEF Owns
<1>22. \A m, e : Owns(m, e) => Owns(m, e)' \/ (m = j[1] /\ e = j[1])
  BY <1>19, <1>20 DEF Owns
<1>23. AttemptsOK'
  BY <1>4 DEF Onward, OnceInv, AttemptsOK, Others
<1>24. MergesOK'
  <2>1. ASSUME NEW v \in Workers, wk'[v].pc = "merge"
        PROVE  /\ wk'[v].add \in Digests /\ wk'[v].hit \in Digests
               /\ IF status'[wk'[v].add] = "merged"
                  THEN mergedInto'[wk'[v].add] = wk'[v].hit
                  ELSE wk'[v].add[2] \in wk'[v].todo
    <3>1. CASE v = w
      <4>1. j[2] \in j[2]..NumSteps
        BY <1>6, StepAssumption DEF Steps
      <4> QED
        BY <1>3, <1>4, <1>5, <1>13, <3>1, <4>1
    <3>2. CASE v # w
      BY <1>1, <1>5, <1>18, <2>1, <3>2 DEF MergesOK
    <3> QED
      BY <3>1, <3>2
  <2> QED
    BY <1>1, <1>5, <1>20, <2>1 DEF MergesOK
<1>25. NotYetOpen'
  <2> SUFFICES ASSUME NEW d \in Digests, NEW p \in Nat, Token(d[1], p)'
               PROVE  /\ p < 2 * d[2] => status'[d] # "delayed" /\ \A i \in Digests : ~Into(i, d)'
                      /\ p <= 2 * d[2] => \A s \in Steps : events'[<<d[1], s>>] = {}
    BY <1>20 DEF NotYetOpen
  <2>1. Token(d[1], p) /\ d[1] \in Notifs
    BY <1>9, JobFacts DEF Digests
  <2>2. /\ p < 2 * d[2] => status[d] # "delayed" /\ \A i \in Digests : ~Into(i, d)
        /\ p <= 2 * d[2] => \A s \in Steps : events[<<d[1], s>>] = {}
    BY <1>1, <2>1 DEF NotYetOpen
  <2>3. p < 2 * d[2] => d # hit
    BY <1>5, <2>2
  <2> QED
    BY <1>5, <1>19, <2>2, <2>3
<1>26. MergedIsOver'
  <2> SUFFICES ASSUME NEW i \in Digests, NEW d \in Digests, NEW p \in Nat, Token(d[1], p)',
                      Into(d, i)'
               PROVE  \E v \in Workers : Merging(v, d)'
    BY <1>20 DEF MergedIsOver
  <2>1. Token(d[1], p)
    BY <1>9, JobFacts DEF Digests
  <2> QED
    BY <1>1, <1>17, <1>19, <2>1 DEF MergedIsOver
<1>27. FlatInto'
  BY <1>5, <1>12, <1>14, <1>16, <1>19, <1>20 DEF OnceInv, FlatInto
<1>28. Unsent'
  <2> SUFFICES ASSUME NEW n \in Notifs, NEW e \in Notifs, NEW p \in Nat, NEW s \in Steps,
                      Token(n, p), Owns(n, e)', p <= 2 * s
               PROVE  delivered[s][e] = 0
    BY <1>5, <1>9 DEF Unsent
  <2>1. CASE Owns(n, e)
    BY <2>1 DEF OnceInv, Unsent
  <2>2. CASE n = hit[1] /\ e = j[1]
    <3>1. Owns(j[1], j[1])
      BY <1>5, <1>13, DigestOfNotif DEF NoRepeats, CleanRuns, Owns
    <3>2. 2 * j[2] - 1 <= 2 * s
      <4>1. p >= 2 * hit[2] /\ s \in Nat
        BY <1>15, <2>2, StepAssumption DEF Steps
      <4> QED
        BY <1>6, <4>1
    <3> PICK q : q = 2 * j[2] - 1
      OBVIOUS
    <3> QED
      BY <1>6, <1>11, <2>2, <3>1, <3>2 DEF OnceInv, Unsent
  <2> QED
    BY <1>21, <2>1, <2>2
<1>29. EventsOwned'
  <2> SUFFICES ASSUME NEW i \in Jobs, NEW e \in events[i] PROVE Owns(i[1], e)'
    BY <1>5 DEF EventsOwned
  <2>1. Owns(i[1], e)
    BY DEF OnceInv, EventsOwned
  <2>2. i[1] # j[1]
    <3>1. i = <<i[1], i[2]>> /\ i[2] \in Steps
      BY JobFacts DEF Jobs
    <3> QED
      BY <1>12, <3>1
  <2> QED
    BY <1>22, <2>1, <2>2
<1>30. BatchOwned'
  <2> SUFFICES ASSUME NEW v \in Workers, wk'[v].pc \in {"mark", "send", "digest"},
                      NEW e \in wk'[v].batch
               PROVE  Owns(wk[v].cur[1], e)' /\ wk'[v].cur = wk[v].cur
    BY DEF BatchOwned
  <2>1. v # w /\ wk'[v] = wk[v]
    BY <1>3, <1>4, <1>18
  <2>2. Owns(wk[v].cur[1], e)
    BY <2>1 DEF OnceInv, BatchOwned
  <2>3. wk[v].cur[1] # j[1]
    <3>1. Has(wk[v], wk[v].cur[1])
      BY <2>1, JobOfRunning DEF Has, Running
    <3> QED
      BY <1>1, <1>6, <1>10, <2>1, <3>1, OnlyToken
  <2> QED
    BY <1>22, <2>1, <2>2, <2>3
<1>31. FailedBehind'
  <2> SUFFICES ASSUME NEW v \in Workers, v # w PROVE Trails(v)'
    BY DEF Onward, FailedBehind
  <2> PICK n : n = wk[v].bull[1]
    OBVIOUS
  <2> SUFFICES ASSUME wk[v].pc \in Failing, wk[v].err = "plain", NEW p \in Nat, Token(n, p)'
               PROVE  p > 2 * wk[v].bull[2]
    BY <1>18 DEF Trails
  <2>1. wk[v].bull \in Jobs
    BY <1>1 DEF ChainInv, TypeInv, SlotsOK, SlotOK, Failing
  <2>2. Token(n, p)
    BY <1>9, <2>1, JobFacts
  <2> QED
    BY <1>1, <2>2 DEF FailedBehind, Trails
<1>32. FailedUnmerged'
  <2> SUFFICES ASSUME NEW v \in Workers, NEW i \in Digests, wk'[v].pc \in Failing,
                      wk'[v].err = "plain", wk'[v].bull \in Digests
               PROVE  ~Into(wk[v].bull, i) /\ wk[v].bull # j /\ wk'[v].bull = wk[v].bull
    BY <1>19, <1>20 DEF FailedUnmerged
  <2>1. v # w /\ wk'[v] = wk[v]
    BY <1>3, <1>4, <1>18 DEF Failing
  <2>2. wk[v].bull # j
    <3> SUFFICES ASSUME wk[v].bull = j PROVE FALSE
      OBVIOUS
    <3>1. 2 * j[2] - 1 > 2 * j[2]
      BY <1>1, <1>11, <2>1 DEF FailedBehind, Trails
    <3> QED
      BY <1>6, <3>1
  <2> QED
    BY <2>1, <2>2 DEF OnceInv, FailedUnmerged
<1>33. EventOncePerStep'
  BY <1>5 DEF OnceInv, EventOncePerStep
<1> QED
  BY <1>23, <1>24, <1>25, <1>26, <1>27, <1>28, <1>29, <1>30, <1>31, <1>32, <1>33 DEF OnceInv

LEMMA OtherStepKeepsOnce ==
    ASSUME NoRepeats, OnceInv, ChainInv',
           \/ \E x \in Cancelled : CancelStep(x)
           \/ \E g \in Groups : LockExpires(g) \/ DeadLockExpires(g)
           \/ UNCHANGED vars
    PROVE  OnceInv'
<1>1. wk' = wk /\ waiting' = waiting /\ events' = events /\ delivered' = delivered
  BY DEF CancelStep, CancelFind, CancelFindPending, CancelWrite, FindNextMain, NoNextMain, Promote,
         PromoteChild, Repoint, LockExpires, DeadLockExpires, vars, db, history
<1>2. Digests = {} \/ (status' = status /\ mergedInto' = mergedInto)
  <2>1. CASE \E x \in Cancelled : CancelStep(x)
    <3>1. DigestSteps = {}
      BY <2>1 DEF NoRepeats, CleanRuns, Calm, NoDigestIsCancelled
    <3> QED
      BY <3>1, JobFacts DEF Digests, DigestSteps, IsDigest, TypeOf
  <2>2. CASE ~(\E x \in Cancelled : CancelStep(x))
    BY <2>2 DEF LockExpires, DeadLockExpires, vars, db
  <2> QED
    BY <2>1, <2>2
<1>3. Digests' = Digests
  BY DEF Digests, IsDigest, TypeOf
<1>4. \A n \in Notifs : \A p : Token(n, p)' => Token(n, p)
  <2>1. \A n \in Notifs : ~Stored(n)' => ~Stored(n)
    <3>1. \A j \in Jobs : status[j] # "absent" => status'[j] # "absent"
      <4>1. ASSUME NEW x \in Cancelled, CancelStep(x)
            PROVE  \A j \in Jobs : status[j] # "absent" => status'[j] # "absent"
        <5>1. \/ status' = status
              \/ \E i, s : s # "absent" /\ status' = [status EXCEPT ![i] = s]
              \/ \E S : status' = [j \in Jobs |-> IF j \in S THEN "canceled" ELSE status[j]]
          BY <4>1 DEF CancelStep, CancelFind, CancelFindPending, CancelWrite, FindNextMain,
                 NoNextMain, Promote, PromoteChild, Repoint, db
        <5> QED
          BY <5>1 DEF OnceInv, ChainInv, TypeInv, TypeOK
      <4>2. CASE ~(\E x \in Cancelled : CancelStep(x))
        BY <4>2 DEF LockExpires, DeadLockExpires, vars, db
      <4> QED
        BY <4>1, <4>2
    <3>2. \A n \in Notifs : <<n, 1>> \in Jobs
      BY StepAssumption DEF Jobs, Steps
    <3> QED
      BY <3>1, <3>2 DEF Stored
  <2> QED
    BY <1>1, <2>1 DEF Token
<1>5. SameInto
  BY <1>1, <1>2 DEF SameInto, Into, Merging
<1>6. \A n, e : Owns(n, e)' <=> Owns(n, e)
  BY <1>5, OwnsStays
<1>7. AttemptsOK'
  BY <1>1 DEF OnceInv, AttemptsOK, QueueAttempts
<1>8. MergesOK'
  BY <1>1, <1>2, <1>3 DEF OnceInv, MergesOK
<1>9. NotYetOpen'
  <2> SUFFICES ASSUME NEW d \in Digests, NEW p \in Nat, Token(d[1], p)
               PROVE  /\ p < 2 * d[2] => status'[d] # "delayed" /\ \A j \in Digests : ~Into(j, d)'
                      /\ p <= 2 * d[2] => \A s \in Steps : events'[<<d[1], s>>] = {}
    BY <1>3, <1>4, JobFacts DEF NotYetOpen, Digests
  <2> QED
    BY <1>1, <1>2, <1>5 DEF OnceInv, NotYetOpen, SameInto
<1>10. MergedIsOver'
  <2> SUFFICES ASSUME NEW i \in Digests, NEW j \in Digests, NEW p \in Nat, Token(j[1], p), Into(j, i)
               PROVE  \E v \in Workers : Merging(v, j)'
    BY <1>3, <1>4, <1>5, JobFacts DEF MergedIsOver, Digests, SameInto
  <2> QED
    BY <1>1 DEF OnceInv, MergedIsOver, Merging
<1>11. FlatInto'
  BY <1>3, <1>5 DEF OnceInv, FlatInto, SameInto
<1>12. Unsent' /\ EventsOwned' /\ BatchOwned'
  BY <1>1, <1>4, <1>6 DEF OnceInv, Unsent, EventsOwned, BatchOwned
<1>13. FailedBehind'
  <2> SUFFICES ASSUME NEW v \in Workers, wk[v].pc \in Failing, wk[v].err = "plain", NEW p \in Nat,
                      NEW n, n = wk[v].bull[1], Token(n, p)'
               PROVE  p > 2 * wk[v].bull[2]
    BY <1>1 DEF FailedBehind, Trails
  <2>1. wk[v].bull \in Jobs
    BY DEF OnceInv, ChainInv, TypeInv, SlotsOK, SlotOK, Failing
  <2> QED
    BY <1>4, <2>1, JobFacts DEF OnceInv, FailedBehind, Trails
<1>14. FailedUnmerged'
  <2> SUFFICES ASSUME NEW v \in Workers, NEW i \in Digests, wk[v].pc \in Failing,
                      wk[v].err = "plain", wk[v].bull \in Digests
               PROVE  ~Into(wk[v].bull, i)
    BY <1>1, <1>3, <1>5 DEF FailedUnmerged, SameInto
  <2> QED
    BY DEF OnceInv, FailedUnmerged
<1>15. EventOncePerStep'
  BY <1>1 DEF OnceInv, EventOncePerStep
<1> QED
  BY <1>7, <1>8, <1>9, <1>10, <1>11, <1>12, <1>13, <1>14, <1>15 DEF OnceInv

LEMMA OnceStep ==
    ASSUME NoRepeats, OnceInv, [Next]_vars
    PROVE  OnceInv'
<1>1. ChainInv' /\ ChainInv
  BY ChainStep DEF NoRepeats, CleanRuns, OnceInv
<1>2. ASSUME NEW w \in Workers, AddJobStep(w) PROVE OnceInv'
  <2>1. Onward(w)
    BY <1>2, AddJobOnward DEF OnceInv, NoRepeats
  <2>2. DecideMerge(w) \/ MergesStay(w)
    BY <1>2, AddJobInto DEF OnceInv
  <2>3. Effects(w) /\ Others(w)
    BY <1>1, <1>2, AddJobEffects, AddJobSteady
       DEF NoRepeats, CleanRuns, Steady, Moves, Keeps, Puts, Takes, Starts
  <2> QED
    BY <1>1, <2>1, <2>2, <2>3, OnceKept, DecideMergeKeepsOnce
<1>3. ASSUME NEW w \in Workers, RunJobStep(w) PROVE OnceInv'
  <2>1. Onward(w) /\ (RunDone(w) => Ahead(w, 2 * wk[w].cur[2] + 1)) /\ MergesStay(w)
    BY <1>3, RunJobOnward, RunJobInto DEF OnceInv, NoRepeats
  <2>2. Effects(w)
    BY <1>3, <2>1, RunJobEffects
  <2>3. Others(w)
    BY <1>1, <1>3, RunJobSteady, EndMoves
       DEF NoRepeats, CleanRuns, Steady, Moves, Keeps, Puts, Takes, Starts
  <2> QED
    BY <1>1, <2>1, <2>2, <2>3, OnceKept
<1>4. ASSUME NEW w \in Workers, EnqueueLost(w) PROVE OnceInv'
  <2>1. Onward(w) /\ MergesStay(w) /\ Effects(w)
    BY <1>4, EnqueueLostOnward, EnqueueLostInto, EnqueueLostEffects DEF OnceInv, NoRepeats
  <2>2. Others(w)
    BY <1>1, <1>4, EnqueueLostSteady DEF NoRepeats, CleanRuns, Steady, Moves, Keeps, Puts, Takes, Starts
  <2> QED
    BY <1>1, <2>1, <2>2, OnceKept
<1>5. \A w \in Workers : ~Crash(w)
  BY DEF NoRepeats, CleanRuns, Crash
<1> QED
  BY <1>1, <1>2, <1>3, <1>4, <1>5, OtherStepKeepsOnce DEF Next, Environment

LEMMA OnceInit == Init => OnceInv
<1> SUFFICES ASSUME Init PROVE OnceInv
  OBVIOUS
<1>1. ChainInv /\ TypeOK
  BY ChainInit DEF ChainInv, TypeInv
<1>2. /\ \A w \in Workers : wk[w] = Idle
      /\ \A j \in Jobs : status[j] = "absent" /\ events[j] = {}
      /\ \A j \in Jobs, a \in 0..MaxStarts : waiting[j][a] = 0
      /\ \A s \in Steps, n \in Notifs : delivered[s][n] = 0
  BY DEF Init
<1>3. \A n \in Notifs : \A p : Token(n, p) => p = 1
  BY <1>2, IdleIsFree DEF Token, Has
<1>4. \A i, j \in Digests : ~Into(j, i)
  BY <1>2, IdleIsFree DEF Into, Merging, Digests
<1>5. AttemptsOK /\ MergesOK /\ FailedBehind /\ FailedUnmerged /\ BatchOwned
  BY <1>2, IdleIsFree
     DEF AttemptsOK, QueueAttempts, SlotAttempts, MergesOK, FailedBehind, Trails, FailedUnmerged,
         BatchOwned, Failing, Digests
<1>6. NotYetOpen /\ MergedIsOver /\ FlatInto
  BY <1>2, <1>4, JobFacts DEF NotYetOpen, MergedIsOver, FlatInto, Digests
<1>7. Unsent /\ EventsOwned /\ EventOncePerStep
  BY <1>2 DEF Unsent, EventsOwned, EventOncePerStep
<1> QED
  BY <1>1, <1>5, <1>6, <1>7 DEF OnceInv

\* Every event once: the message of a step carries the event of a trigger once at most,
\* be it in the message of its own notification or in that of the digest it was merged
\* into.  Locks may expire, enqueues be lost, steps fail and webhooks be retried.
THEOREM EventsGoOnce ==
    ASSUME NoRepeats
    PROVE  Spec => []EventOncePerStep
<1>1. OnceInv /\ [Next]_vars => OnceInv'
  BY OnceStep
<1>2. OnceInv => EventOncePerStep
  BY DEF OnceInv
<1> QED
  BY <1>1, <1>2, OnceInit, PTL DEF Spec

\* A digest that others are merged into is not merged itself.
THEOREM MergesAreFlat ==
    ASSUME NoRepeats
    PROVE  Spec => []FlatMerge
<1>1. OnceInv /\ [Next]_vars => OnceInv'
  BY OnceStep
<1>2. OnceInv => FlatMerge
  <2> SUFFICES ASSUME OnceInv, NEW d \in Jobs, NEW f \in Followers(d), status[d] = "merged"
               PROVE  FALSE
    BY DEF FlatMerge
  <2>1. f \in Digests /\ Into(f, d) /\ d \in Digests
    BY DEF Followers, WithStatus, Digests, Into, OnceInv, MergesOK
  <2>2. Into(d, mergedInto[d]) /\ mergedInto[d] \in Digests
    BY <2>1 DEF Into, OnceInv, MergesOK
  <2> QED
    BY <2>1, <2>2 DEF OnceInv, FlatInto
<1> QED
  BY <1>1, <1>2, OnceInit, PTL DEF Spec

-----------------------------------------------------------------------------
(* A digest that is over has collected every event.                         *)

\* A digest step is not filtered when it runs: SendMessage completes a filtered digest
\* without the events of its followers.
DigestsAreNotFiltered == Filterable \cap DigestSteps = {}

\* What is still being merged into the digest is missed already.
AllMissed(d) == InFlight(d) \subseteq missed

Collected(d) == AllMissed(d) /\ \A f \in Followers(d) \ missed : f[1] \in events[d]

\* What is known of a digest while it runs and when it is over.
BatchInv ==
    /\ ChainInv
    /\ \A w \in Workers :
          LET d == wk[w].cur
          IN  /\ wk[w].pc \in {"send", "digest", "complete"} /\ d \in Digests => status[d] # "delayed"
              /\ wk[w].pc = "digest" =>
                    d \in Digests /\ AllMissed(d) /\ \A f \in Followers(d) \ missed : f[1] \in wk[w].batch
              /\ wk[w].pc = "complete" /\ d \in Digests => Collected(d)
    /\ \A d \in Digests : status[d] = "completed" => Collected(d)

SlotStep(w) == AddJobStep(w) \/ RunJobStep(w) \/ EnqueueLost(w) \/ Crash(w)

\* A merge begins while the main digest is DELAYED, and has ever less to write.
LEMMA MergeBegins ==
    ASSUME ChainInv, NEW w \in Workers, SlotStep(w), wk'[w].pc = "merge"
    PROVE  /\ \/ /\ wk[w].pc = "merge" /\ wk'[w].hit = wk[w].hit
                 /\ wk'[w].add = wk[w].add /\ wk'[w].todo \subseteq wk[w].todo
              \/ status[wk'[w].hit] = "delayed"
           /\ DecideMerge(w) \/ MergeWrite(w)
<1>1. wk \in [Workers -> WorkerState] /\ wk[w] \in WorkerState
  BY DEF ChainInv, TypeInv, TypeOK
<1>2. ~RunJobStep(w) /\ ~EnqueueLost(w) /\ ~Crash(w)
  <2>1. ASSUME RunJobStep(w) PROVE FALSE
    <3>1. CASE \E j \in Jobs, a \in 0..MaxStarts : Receive(w, j, a)
      <4>1. PICK j \in Jobs, a \in 0..MaxStarts : Receive(w, j, a)
        BY <3>1
      <4> DEFINE run == [Idle EXCEPT !.phase = "run", !.bull = j, !.made = a + 1]
                 mark == [run EXCEPT !.pc = "mark", !.cur = j, !.batch = Carries(j)]
                 follow == [run EXCEPT !.pc = "follow"]
      <4>2. \/ wk' = [wk EXCEPT ![w] = mark] \/ wk' = [wk EXCEPT ![w] = follow]
            \/ wk' = wk /\ wk[w] = Idle
        BY <4>1 DEF Receive
      <4>3. mark.pc = "mark" /\ follow.pc = "follow"
        BY DEF Idle
      <4> HIDE DEF mark, follow
      <4> QED
        BY <1>1, <4>2, <4>3, IdleIsFree
    <3>2. CASE FindFollower(w) \/ NoFollower(w)
      BY <3>2 DEF FindFollower, NoFollower, At, ChainInv, SlotsInChain, SlotChain
    <3>3. CASE MarkRunning(w) \/ SendNothing(w) \/ Deliver(w) \/ WriteBatch(w) \/ FilterOut(w)
               \/ MarkCompleted(w) \/ Reject(w)
      <4>1. PICK pc \in {"send", "complete", "next", "failed"} : GoTo(w, pc)
        BY <3>3 DEF MarkRunning, SendNothing, Deliver, WriteBatch, FilterOut, MarkCompleted, Reject,
                    GoTo
      <4> QED
        BY <1>1, <4>1, GoToPC
    <3>4. CASE ReadBatch(w)
      <4> DEFINE r == [wk[w] EXCEPT !.pc = "digest", !.batch = DigestEvents(wk[w].cur)]
      <4>1. wk' = [wk EXCEPT ![w] = r] /\ r.pc = "digest"
        BY <1>1, <3>4 DEF ReadBatch, WorkerState
      <4> HIDE DEF r
      <4> QED
        BY <1>1, <4>1
    <3>5. CASE SendThrows(w) \/ DeliverThrows(w)
      BY <1>1, <3>5, CaughtPC DEF SendThrows, DeliverThrows
    <3>6. CASE QueueNext(w)
      <4> DEFINE r == [wk[w] EXCEPT !.pc = "add", !.add = Child(wk[w].cur)]
      <4>1. r.pc = "add" /\ (wk' = [wk EXCEPT ![w] = r] \/ Return(w, "none"))
        BY <1>1, <3>6 DEF QueueNext, WorkerState
      <4> HIDE DEF r
      <4> QED
        BY <1>1, <4>1, ReturnPC
    <3>7. CASE HandleFailed(w)
      <4> DEFINE r == [wk[w] EXCEPT !.pc = "next", !.phase = "last", !.cur = wk[w].bull,
                                    !.err = "none"]
      <4>1. (wk' = [wk EXCEPT ![w] = r] \/ wk' = [wk EXCEPT ![w] = Idle]) /\ r.pc = "next"
        BY <1>1, <3>7 DEF HandleFailed, WorkerState
      <4> HIDE DEF r
      <4> QED
        BY <1>1, <4>1, IdleIsFree
    <3> QED
      BY <2>1, <3>1, <3>2, <3>3, <3>4, <3>5, <3>6, <3>7 DEF RunJobStep
  <2> QED
    BY <1>1, <2>1, ReturnPC, IdleIsFree DEF EnqueueLost, Crash
<1>3. CASE DecideMerge(w)
  <2>1. PICK d : /\ d \in OpenDigests(GroupOf[wk[w].add[1]])
                 /\ wk' = [wk EXCEPT ![w].pc = "merge", ![w].hit = d,
                                     ![w].todo = wk[w].add[2]..NumSteps]
    BY <1>3 DEF DecideMerge
  <2> DEFINE r == [wk[w] EXCEPT !.pc = "merge", !.hit = d, !.todo = wk[w].add[2]..NumSteps]
  <2>2. wk' = [wk EXCEPT ![w] = r] /\ r.hit = d
    BY <1>1, <2>1 DEF WorkerState
  <2> HIDE DEF r
  <2>3. status[wk'[w].hit] = "delayed"
    BY <1>1, <2>1, <2>2 DEF OpenDigests, WithStatus
  <2> QED
    BY <1>3, <2>3
<1>4. CASE MergeWrite(w)
  <2>1. PICK s : IF wk[w].todo = {s} THEN Merged(w) ELSE wk' = [wk EXCEPT ![w].todo = @ \ {s}]
    BY <1>4 DEF MergeWrite
  <2> DEFINE r == [wk[w] EXCEPT !.todo = wk[w].todo \ {s}]
  <2>2. /\ r.hit = wk[w].hit /\ r.add = wk[w].add /\ r.todo \subseteq wk[w].todo
        /\ Return(w, "none") \/ wk' = [wk EXCEPT ![w] = r]
    BY <1>1, <2>1 DEF WorkerState, Merged
  <2>3. wk[w].pc = "merge"
    BY <1>4 DEF MergeWrite
  <2> HIDE DEF r
  <2> QED
    BY <1>1, <1>4, <2>2, <2>3, ReturnPC
<1>5. CASE AddJobStep(w) /\ ~DecideMerge(w) /\ ~MergeWrite(w)
  <2>1. CASE \E n \in Notifs : StoreJobs(w, n)
    BY <1>1, <2>1 DEF StoreJobs, Idle
  <2>2. CASE AddPlain(w) \/ AddDelay(w) \/ DigestFiltered(w) \/ DecideSkip(w) \/ DecideCreate(w)
             \/ Claim(w)
    <3>1. PICK pc \in {"enqueue", "skip", "claim"} : GoTo(w, pc)
      BY <2>2 DEF AddPlain, AddDelay, DigestFiltered, DecideSkip, DecideCreate, Claim
    <3> QED
      BY <1>1, <3>1, GoToPC
  <2>3. CASE AddDelayMisconfigured(w) \/ AddThrows(w) \/ Enqueue(w)
    BY <1>1, <2>3, ReturnPC DEF AddDelayMisconfigured, AddThrows, Enqueue
  <2>4. CASE Skip(w)
    <3> DEFINE r == [wk[w] EXCEPT !.pc = "add", !.add = Child(wk[w].add)]
    <3>1. r.pc = "add" /\ (Return(w, "none") \/ wk' = [wk EXCEPT ![w] = r])
      BY <1>1, <2>4 DEF WorkerState, Skip, Skipped
    <3> HIDE DEF r
    <3> QED
      BY <1>1, <3>1, ReturnPC
  <2> QED
    BY <1>5, <2>1, <2>2, <2>3, <2>4 DEF AddJobStep
<1> QED
  BY <1>2, <1>3, <1>4, <1>5 DEF SlotStep

\* Only the slot that merges makes a follower.
LEMMA FollowersFrom ==
    ASSUME ChainInv, NEW w \in Workers, SlotStep(w), NEW d, NEW f \in Followers(d)'
    PROVE  f \in Followers(d) \cup InFlight(d)
<1>1. /\ status \in [Jobs -> Statuses] /\ mergedInto \in [Jobs -> Jobs \cup {NoJob}]
      /\ f \in Jobs /\ IsDigest(f) /\ status'[f] = "merged" /\ mergedInto'[f] = d
  BY DEF ChainInv, TypeInv, TypeOK, Followers, WithStatus, IsDigest, TypeOf
<1>2. ASSUME status[f] = "merged", mergedInto' = mergedInto PROVE f \in Followers(d)
  BY <1>1, <1>2 DEF Followers, WithStatus
<1>3. CASE MergeWrite(w)
  <2>1. wk[w].pc = "merge"
    BY <1>3 DEF MergeWrite
  <2>2. PICK s \in wk[w].todo :
              /\ status' = [status EXCEPT ![<<wk[w].add[1], s>>] = "merged"]
              /\ mergedInto' = [mergedInto EXCEPT ![<<wk[w].add[1], s>>] = wk[w].hit]
    BY <1>3 DEF MergeWrite
  <2> DEFINE k == <<wk[w].add[1], s>>
  <2>3. CASE f = k
    <3>1. wk[w].hit = d
      BY <1>1, <2>2, <2>3
    <3> QED
      BY <1>1, <2>1, <2>3, <3>1 DEF InFlight
  <2>4. CASE f # k
    BY <1>1, <2>2, <2>4 DEF Followers, WithStatus
  <2> QED
    BY <2>3, <2>4
<1>4. CASE ~MergeWrite(w)
  <2>1. mergedInto' = mergedInto
    BY <1>4
       DEF SlotStep, AddJobStep, StoreJobs, AddPlain, AddDelay, AddDelayMisconfigured, AddThrows,
           DigestFiltered, DecideSkip, DecideCreate, DecideMerge, Claim, Skip, Enqueue, db,
           RunJobStep, Receive, FindFollower, NoFollower, MarkRunning, SendNothing, Deliver,
           ReadBatch, WriteBatch, FilterOut, SendThrows, DeliverThrows, MarkCompleted, QueueNext,
           Reject, HandleFailed, EnqueueLost, Crash
  <2>2. status'[f] = "merged" => status[f] = "merged"
    <3>1. CASE \E n \in Notifs : StoreJobs(w, n)
      BY <1>1, <3>1 DEF StoreJobs
    <3>2. CASE AddPlain(w) \/ AddDelay(w) \/ AddDelayMisconfigured(w) \/ Claim(w) \/ Skip(w)
      BY <1>1, <3>2 DEF AddPlain, AddDelay, AddDelayMisconfigured, Claim, Skip, SetStatus
    <3>3. CASE MarkRunning(w) \/ FilterOut(w) \/ MarkCompleted(w) \/ HandleFailed(w)
      BY <1>1, <3>3 DEF MarkRunning, FilterOut, MarkCompleted, HandleFailed
    <3>4. CASE status' = status
      BY <1>1, <3>4
    <3> QED
      BY <1>4, <3>1, <3>2, <3>3, <3>4
         DEF SlotStep, AddJobStep, AddThrows, DigestFiltered, DecideSkip, DecideCreate, DecideMerge,
             Enqueue, db, RunJobStep, Receive, FindFollower, NoFollower, SendNothing, Deliver,
             ReadBatch, WriteBatch, SendThrows, DeliverThrows, QueueNext, Reject, EnqueueLost, Crash
  <2>3. status[f] = "merged"
    BY <1>1, <2>2
  <2> QED
    BY <1>2, <2>1, <2>3
<1> QED
  BY <1>3, <1>4

\* Where a slot gets to the steps of a run.
LEMMA RunsOn ==
    ASSUME ChainInv, NEW w \in Workers, SlotStep(w), wk'[w].pc \in {"send", "digest", "complete"}
    PROVE  \/ MarkRunning(w) \/ SendNothing(w) \/ Deliver(w) \/ ReadBatch(w) \/ WriteBatch(w)
           \/ FilterOut(w)
<1>1. /\ wk \in [Workers -> WorkerState] /\ wk[w] \in WorkerState /\ SlotChain(wk[w])
  BY DEF ChainInv, TypeInv, TypeOK, SlotsInChain
<1>2. ~AddJobStep(w)
  BY <1>1, AddJobForm, ReturnPC DEF Sched
<1>3. ~EnqueueLost(w) /\ ~Crash(w)
  BY <1>1, ReturnPC, IdleIsFree DEF EnqueueLost, Crash
<1>4. ~(\E j \in Jobs, a \in 0..MaxStarts : Receive(w, j, a))
  <2> SUFFICES ASSUME NEW j \in Jobs, NEW a \in 0..MaxStarts, Receive(w, j, a) PROVE FALSE
    OBVIOUS
  <2> DEFINE run == [Idle EXCEPT !.phase = "run", !.bull = j, !.made = a + 1]
             mark == [run EXCEPT !.pc = "mark", !.cur = j, !.batch = Carries(j)]
             follow == [run EXCEPT !.pc = "follow"]
  <2>1. \/ wk' = [wk EXCEPT ![w] = mark] \/ wk' = [wk EXCEPT ![w] = follow]
        \/ wk' = wk /\ wk[w] = Idle
    BY DEF Receive
  <2>2. mark.pc = "mark" /\ follow.pc = "follow"
    BY DEF Idle
  <2> HIDE DEF mark, follow
  <2> QED
    BY <1>1, <2>1, <2>2, IdleIsFree
<1>5. ~FindFollower(w) /\ ~NoFollower(w)
  BY <1>1 DEF FindFollower, NoFollower, At, SlotChain
<1>6. ~SendThrows(w) /\ ~DeliverThrows(w)
  BY <1>1, CaughtPC DEF SendThrows, DeliverThrows
<1>7. ~MarkCompleted(w) /\ ~Reject(w)
  <2> SUFFICES ASSUME MarkCompleted(w) \/ Reject(w) PROVE FALSE
    OBVIOUS
  <2>1. PICK pc \in {"next", "failed"} : GoTo(w, pc)
    BY DEF MarkCompleted, Reject, GoTo
  <2> QED
    BY <1>1, <2>1, GoToPC
<1>8. ~QueueNext(w)
  <2> SUFFICES ASSUME QueueNext(w) PROVE FALSE
    OBVIOUS
  <2> DEFINE r == [wk[w] EXCEPT !.pc = "add", !.add = Child(wk[w].cur)]
  <2>1. r.pc = "add" /\ (wk' = [wk EXCEPT ![w] = r] \/ Return(w, "none"))
    BY <1>1 DEF QueueNext, WorkerState
  <2> HIDE DEF r
  <2> QED
    BY <1>1, <2>1, ReturnPC
<1>9. ~HandleFailed(w)
  <2> SUFFICES ASSUME HandleFailed(w) PROVE FALSE
    OBVIOUS
  <2> DEFINE r == [wk[w] EXCEPT !.pc = "next", !.phase = "last", !.cur = wk[w].bull, !.err = "none"]
  <2>1. (wk' = [wk EXCEPT ![w] = r] \/ wk' = [wk EXCEPT ![w] = Idle]) /\ r.pc = "next"
    BY <1>1 DEF HandleFailed, WorkerState
  <2> HIDE DEF r
  <2> QED
    BY <1>1, <2>1, IdleIsFree
<1> QED
  BY <1>2, <1>3, <1>4, <1>5, <1>6, <1>7, <1>8, <1>9 DEF SlotStep, RunJobStep

\* How the status of a digest becomes DELAYED or COMPLETED, and its events change.
LEMMA DigestWrites ==
    ASSUME ChainInv, NEW w \in Workers, SlotStep(w), NEW d \in Digests
    PROVE  /\ status'[d] = "delayed" =>
                 status[d] = "delayed" \/ (wk[w].pc = "claim" /\ wk[w].add = d)
           /\ status'[d] = "completed" =>
                 status[d] = "completed" \/ (MarkCompleted(w) /\ wk[w].cur = d)
           /\ events' = events \/ WriteBatch(w)
<1>1. status \in [Jobs -> Statuses] /\ d \in Jobs /\ IsDigest(d)
  BY DEF ChainInv, TypeInv, TypeOK, Digests
<1>2. events' = events \/ WriteBatch(w)
  <2>1. CASE AddJobStep(w)
    BY <2>1, AddJobForm
  <2>2. CASE RunJobStep(w)
    BY <2>2 DEF RunJobStep, Receive, FindFollower, NoFollower, MarkRunning, SendNothing, Deliver,
                ReadBatch, FilterOut, SendThrows, DeliverThrows, MarkCompleted, QueueNext, Reject,
                HandleFailed, db
  <2>3. CASE EnqueueLost(w) \/ Crash(w)
    BY <2>3 DEF EnqueueLost, Crash, db
  <2> QED
    BY <2>1, <2>2, <2>3 DEF SlotStep
<1>3. CASE \E n \in Notifs : StoreJobs(w, n)
  BY <1>1, <1>2, <1>3 DEF StoreJobs
<1>4. CASE AddPlain(w) \/ AddDelay(w) \/ AddDelayMisconfigured(w)
  <2>1. d # wk[w].add
    BY <1>1, <1>4 DEF AddPlain, AddDelay, AddDelayMisconfigured, Adding, IsAction, IsDigest
  <2> QED
    BY <1>1, <1>2, <1>4, <2>1 DEF AddPlain, AddDelay, AddDelayMisconfigured, SetStatus
<1>5. CASE Claim(w)
  BY <1>1, <1>2, <1>5 DEF Claim, SetStatus
<1>6. CASE MergeWrite(w) \/ Skip(w)
  <2>1. PICK i, s : s \in {"merged", "skipped"} /\ status' = [status EXCEPT ![i] = s]
    BY <1>6 DEF MergeWrite, Skip, SetStatus
  <2> QED
    BY <1>1, <1>2, <2>1
<1>7. CASE MarkRunning(w) \/ FilterOut(w) \/ HandleFailed(w)
  BY <1>1, <1>2, <1>7 DEF MarkRunning, FilterOut, HandleFailed
<1>8. CASE MarkCompleted(w)
  BY <1>1, <1>2, <1>8 DEF MarkCompleted
<1>9. CASE status' = status
  BY <1>2, <1>9
<1> QED
  BY <1>3, <1>4, <1>5, <1>6, <1>7, <1>8, <1>9
     DEF SlotStep, AddJobStep, AddThrows, DigestFiltered, DecideSkip, DecideCreate, DecideMerge,
         Enqueue, db, RunJobStep, Receive, FindFollower, NoFollower, SendNothing, Deliver,
         ReadBatch, WriteBatch, SendThrows, DeliverThrows, QueueNext, Reject, EnqueueLost, Crash

\* Nothing that was missed is found again.
LEMMA MissedStays ==
    ASSUME NEW w \in Workers, SlotStep(w)
    PROVE  /\ missed \subseteq missed'
           /\ missed' = missed \/ (ReadBatch(w) /\ missed' = missed \cup InFlight(wk[w].cur))
<1>1. CASE AddJobStep(w)
  BY <1>1 DEF AddJobStep, StoreJobs, AddPlain, AddDelay, AddDelayMisconfigured, AddThrows,
              DigestFiltered, DecideSkip, DecideCreate, DecideMerge, Claim, MergeWrite, Skip,
              Enqueue, history
<1>2. CASE RunJobStep(w)
  BY <1>2 DEF RunJobStep, Receive, FindFollower, NoFollower, MarkRunning, SendNothing, Deliver,
              ReadBatch, WriteBatch, FilterOut, SendThrows, DeliverThrows, MarkCompleted, QueueNext,
              Reject, HandleFailed, history
<1>3. CASE EnqueueLost(w) \/ Crash(w)
  BY <1>3 DEF EnqueueLost, Crash, history
<1> QED
  BY <1>1, <1>2, <1>3 DEF SlotStep

\* Nobody begins to merge into a digest that is not open.
LEMMA NoNewMerge ==
    ASSUME ChainInv, NEW w \in Workers, SlotStep(w), Others(w), NEW d, status[d] # "delayed"
    PROVE  InFlight(d)' \subseteq InFlight(d)
<1> SUFFICES ASSUME NEW f \in InFlight(d)' PROVE f \in InFlight(d)
  OBVIOUS
<1>1. f \in Jobs /\ IsDigest(f)
  BY DEF InFlight, IsDigest, TypeOf
<1>2. PICK v \in Workers : /\ wk'[v].pc = "merge" /\ wk'[v].hit = d
                           /\ wk'[v].add[1] = f[1] /\ f[2] \in wk'[v].todo
  BY DEF InFlight
<1>3. /\ wk[v].pc = "merge" /\ wk[v].hit = d
      /\ wk[v].add[1] = f[1] /\ f[2] \in wk[v].todo
  <2>1. CASE v # w
    BY <1>2, <2>1 DEF Others
  <2>2. CASE v = w
    <3>1. /\ wk[w].pc = "merge" /\ wk'[w].hit = wk[w].hit
          /\ wk'[w].add = wk[w].add /\ wk'[w].todo \subseteq wk[w].todo
      BY <1>2, <2>2, MergeBegins
    <3> QED
      BY <1>2, <2>2, <3>1
  <2> QED
    BY <2>1, <2>2
<1> QED
  BY <1>1, <1>3 DEF InFlight

\* A digest that is not open gets no follower but those that it has missed.
LEMMA NoNewFollower ==
    ASSUME ChainInv, NEW w \in Workers, SlotStep(w), Others(w), NEW d, status[d] # "delayed",
           AllMissed(d)
    PROVE  AllMissed(d)' /\ \A f \in Followers(d)' \ missed' : f \in Followers(d) \ missed
<1>1. InFlight(d)' \subseteq InFlight(d) /\ missed \subseteq missed'
  BY NoNewMerge, MissedStays
<1>2. AllMissed(d)'
  BY <1>1 DEF AllMissed
<1>3. \A f \in Followers(d)' \ missed' : f \in Followers(d) \ missed
  BY <1>1, FollowersFrom DEF AllMissed
<1> QED
  BY <1>2, <1>3

LEMMA BatchStep ==
    ASSUME Calm, DigestsAreNotFiltered, BatchInv, ChainInv', NEW w \in Workers,
           SlotStep(w)
    PROVE  BatchInv'
<1>1. /\ ChainInv /\ wk \in [Workers -> WorkerState] /\ wk[w] \in WorkerState /\ SlotOK(wk[w])
      /\ status \in [Jobs -> Statuses] /\ events \in [Jobs -> SUBSET Notifs]
  BY DEF BatchInv, ChainInv, TypeInv, TypeOK, SlotsOK
<1>2. Others(w) /\ Digests' = Digests
  BY <1>1, AddJobSteady, RunJobSteady, EnqueueLostSteady, CrashMoves, EndMoves
     DEF SlotStep, Steady, Moves, Keeps, Puts, Takes, Starts, Digests, IsDigest, TypeOf
<1>3. ASSUME NEW d \in Digests, status[d] # "delayed", AllMissed(d)
      PROVE  AllMissed(d)' /\ \A f \in Followers(d)' \ missed' : f \in Followers(d) \ missed
  BY <1>1, <1>2, <1>3, NoNewFollower
<1>4. \A d \in Digests : status[d] = "completed" => status[d] # "delayed" /\ Collected(d)
  BY DEF BatchInv
\* The events of a digest are written by the slot that runs one of its notification.
<1>5. ASSUME WriteBatch(w)
      PROVE  /\ wk[w].pc = "digest" /\ wk[w].cur \in Digests /\ Has(wk[w], wk[w].cur[1])
             /\ AllMissed(wk[w].cur) /\ status[wk[w].cur] # "delayed"
             /\ \A f \in Followers(wk[w].cur) \ missed : f[1] \in events'[wk[w].cur]
             /\ \A d \in Digests : d[1] # wk[w].cur[1] => events'[d] = events[d]
             /\ \A d \in Digests : d # wk[w].cur /\ status[d] = "completed" => events'[d] = events[d]
             /\ status' = status
             /\ wk'[w].pc = "complete" /\ wk'[w].cur = wk[w].cur
  <2>1. /\ wk[w].pc = "digest" /\ status' = status
        /\ events' = [j \in Jobs |-> IF j \in ToUpdate(wk[w].cur) THEN wk[w].batch ELSE events[j]]
        /\ wk' = [wk EXCEPT ![w].pc = "complete"]
    BY <1>5 DEF WriteBatch, At
  <2>2. /\ wk[w].cur \in Digests /\ AllMissed(wk[w].cur) /\ status[wk[w].cur] # "delayed"
        /\ \A f \in Followers(wk[w].cur) \ missed : f[1] \in wk[w].batch
    BY <2>1 DEF BatchInv
  <2>3. Has(wk[w], wk[w].cur[1])
    BY <2>1, JobOfRunning DEF Has, Running
  <2>4. wk'[w].pc = "complete" /\ wk'[w].cur = wk[w].cur
    BY <1>1, <2>1 DEF WorkerState
  <2>5. \A d \in Digests : d[2] \notin InAppSteps
    BY StepAssumption DEF Digests, IsDigest, TypeOf
  <2> QED
    BY <1>1, <2>1, <2>2, <2>3, <2>4, <2>5 DEF ToUpdate, Digests
<1>6. ASSUME NEW v \in Workers, wk'[v].pc \in {"send", "digest", "complete"}, wk'[v].cur \in Digests
      PROVE  status'[wk'[v].cur] # "delayed"
  <2>1. CASE v # w
    <3>1. /\ wk'[v] = wk[v] /\ status[wk[v].cur] # "delayed" /\ wk[v].cur \in Digests
      BY <1>2, <1>6, <2>1 DEF Others, BatchInv
    <3>2. ~(wk[w].pc = "claim" /\ wk[w].add = wk[v].cur)
      BY <1>1, <1>6, <2>1, <3>1, JobOfSched, JobOfRunning, JobFacts
         DEF ChainInv, OneSlot, Has, Sched, Running, Digests
    <3> QED
      BY <1>1, <3>1, <3>2, DigestWrites
  <2>2. CASE v = w
    <3>1. \/ MarkRunning(w) \/ SendNothing(w) \/ Deliver(w) \/ ReadBatch(w) \/ WriteBatch(w)
          \/ FilterOut(w)
      BY <1>1, <1>6, <2>2, RunsOn
    <3>2. wk'[w].cur = wk[w].cur /\ wk[w].pc \in {"mark", "send", "digest"}
      BY <1>1, <3>1
         DEF MarkRunning, SendNothing, Deliver, ReadBatch, WriteBatch, FilterOut, At, WorkerState
    <3>3. CASE MarkRunning(w) \/ FilterOut(w)
      BY <1>1, <1>6, <2>2, <3>2, <3>3 DEF MarkRunning, FilterOut, Digests
    <3>4. CASE ~MarkRunning(w) /\ ~FilterOut(w)
      <4>1. status' = status /\ wk[w].pc \in {"send", "digest"}
        BY <3>1, <3>4 DEF SendNothing, Deliver, ReadBatch, WriteBatch, db, At
      <4> QED
        BY <1>6, <2>2, <3>2, <4>1 DEF BatchInv
    <3> QED
      BY <3>3, <3>4
  <2> QED
    BY <2>1, <2>2
<1>7. ASSUME NEW v \in Workers, wk'[v].pc = "digest"
      PROVE  /\ wk'[v].cur \in Digests
             /\ \A d : d = wk'[v].cur => AllMissed(d)' /\ \A f \in Followers(d)' \ missed' : f[1] \in wk'[v].batch
  <2>1. CASE v # w
    <3>1. wk'[v] = wk[v]
      BY <1>2, <2>1 DEF Others
    <3> PICK d : d = wk[v].cur
      OBVIOUS
    <3>2. /\ d \in Digests /\ AllMissed(d) /\ status[d] # "delayed"
          /\ \A f \in Followers(d) \ missed : f[1] \in wk[v].batch
      BY <1>7, <3>1 DEF BatchInv
    <3>3. AllMissed(d)' /\ \A f \in Followers(d)' \ missed' : f \in Followers(d) \ missed
      BY <1>3, <3>2
    <3> QED
      BY <3>1, <3>2, <3>3
  <2>2. CASE v = w
    <3>1. ReadBatch(w)
      <4>1. \/ MarkRunning(w) \/ SendNothing(w) \/ Deliver(w) \/ ReadBatch(w) \/ WriteBatch(w)
            \/ FilterOut(w)
        BY <1>1, <1>7, <2>2, RunsOn
      <4>2. ASSUME MarkRunning(w) \/ SendNothing(w) \/ Deliver(w) \/ WriteBatch(w) \/ FilterOut(w)
            PROVE  FALSE
        <5>1. PICK pc \in {"send", "complete"} : GoTo(w, pc)
          BY <4>2 DEF MarkRunning, SendNothing, Deliver, WriteBatch, FilterOut, GoTo
        <5> QED
          BY <1>1, <1>7, <2>2, <5>1, GoToPC
      <4> QED
        BY <4>1, <4>2
    <3> DEFINE r == [wk[w] EXCEPT !.pc = "digest", !.batch = DigestEvents(wk[w].cur)]
    <3>2. wk' = [wk EXCEPT ![w] = r] /\ r.cur = wk[w].cur /\ r.batch = DigestEvents(wk[w].cur)
      BY <1>1, <3>1 DEF ReadBatch, WorkerState
    <3> HIDE DEF r
    <3>3. wk'[w] = r
      BY <1>1, <3>2
    <3> PICK d : d = wk[w].cur
      OBVIOUS
    <3>4. d \in Digests /\ status[d] # "delayed"
      BY <1>1, <3>1 DEF ReadBatch, SlotOK, Digests, BatchInv, At
    <3>5. AllMissed(d)' /\ Followers(d)' = Followers(d)
      <4>1. InFlight(d)' \subseteq InFlight(d)
        BY <1>1, <1>2, <3>4, NoNewMerge
      <4>2. missed' = missed \cup InFlight(d) /\ UNCHANGED db
        BY <3>1 DEF ReadBatch
      <4> QED
        BY <4>1, <4>2 DEF AllMissed, db, Followers, WithStatus, IsDigest, TypeOf
    <3>6. \A f \in Followers(d) : f[1] \in r.batch
      BY <3>2 DEF DigestEvents
    <3> QED
      BY <2>2, <3>2, <3>3, <3>4, <3>5, <3>6
  <2> QED
    BY <2>1, <2>2
<1>8. ASSUME NEW v \in Workers, NEW d \in Digests, wk'[v].pc = "complete", wk'[v].cur = d
      PROVE  Collected(d)'
  <2>1. CASE v # w
    <3>1. /\ wk'[v] = wk[v] /\ Collected(d) /\ status[d] # "delayed" /\ wk[v].cur = d
          /\ wk[v].pc = "complete"
      BY <1>2, <1>8, <2>1 DEF Others, BatchInv
    <3>2. events'[d] = events[d]
      <4>1. CASE WriteBatch(w)
        <5>1. d[1] # wk[w].cur[1]
          BY <1>1, <1>5, <2>1, <3>1, <4>1, JobOfRunning, JobFacts
             DEF ChainInv, OneSlot, Has, Running, Digests
        <5> QED
          BY <1>5, <4>1, <5>1
      <4>2. CASE ~WriteBatch(w)
        BY <1>1, <4>2, DigestWrites
      <4> QED
        BY <4>1, <4>2
    <3> QED
      BY <1>3, <3>1, <3>2 DEF Collected
  <2>2. CASE v = w
    <3>1. \/ MarkRunning(w) \/ SendNothing(w) \/ Deliver(w) \/ ReadBatch(w) \/ WriteBatch(w)
          \/ FilterOut(w)
      BY <1>1, <1>8, <2>2, RunsOn
    <3>2. WriteBatch(w)
      <4>1. wk'[w].cur = wk[w].cur
        BY <1>1, <3>1 DEF MarkRunning, SendNothing, Deliver, ReadBatch, WriteBatch, FilterOut, WorkerState
      <4>2. TypeOf(wk[w].cur) = "digest" /\ wk[w].cur[2] \notin Filterable
        BY <1>8, <2>2, <4>1, JobFacts
           DEF Digests, IsDigest, TypeOf, DigestsAreNotFiltered, DigestSteps
      <4>3. ~SendNothing(w) /\ ~Deliver(w) /\ ~FilterOut(w)
        BY <4>2 DEF SendNothing, Deliver, FilterOut
      <4>4. ~MarkRunning(w) /\ ~ReadBatch(w)
        BY <1>1, <1>8, <2>2 DEF MarkRunning, ReadBatch, WorkerState
      <4> QED
        BY <3>1, <4>3, <4>4
    <3>3. d = wk[w].cur
      BY <1>5, <1>8, <2>2, <3>2
    <3> QED
      BY <1>3, <1>5, <3>2, <3>3 DEF Collected
  <2> QED
    BY <2>1, <2>2
<1>9. ASSUME NEW d \in Digests, status'[d] = "completed" PROVE Collected(d)'
  <2>1. CASE MarkCompleted(w) /\ wk[w].cur = d
    <3>1. Collected(d) /\ status[d] # "delayed" /\ events' = events
      BY <2>1 DEF MarkCompleted, At, BatchInv
    <3> QED
      BY <1>3, <3>1 DEF Collected
  <2>2. CASE status[d] = "completed" /\ ~WriteBatch(w)
    <3>1. events' = events
      BY <1>1, <2>2, DigestWrites
    <3> QED
      BY <1>3, <1>4, <2>2, <3>1 DEF Collected
  <2>3. CASE status[d] = "completed" /\ WriteBatch(w)
    <3>1. \A f \in Followers(d) \ missed : f[1] \in events'[d]
      BY <1>4, <1>5, <2>3 DEF Collected
    <3> QED
      BY <1>3, <1>4, <2>3, <3>1 DEF Collected
  <2> QED
    BY <1>1, <1>9, <2>1, <2>2, <2>3, DigestWrites
<1> QED
  BY <1>2, <1>6, <1>7, <1>8, <1>9 DEF BatchInv

LEMMA OtherStepKeepsBatch ==
    ASSUME Calm, BatchInv, ChainInv',
           \/ \E x \in Cancelled : CancelStep(x)
           \/ \E g \in Groups : LockExpires(g) \/ DeadLockExpires(g)
           \/ UNCHANGED vars
    PROVE  BatchInv'
<1>1. wk' = wk /\ events' = events
  BY DEF CancelStep, CancelFind, CancelFindPending, CancelWrite, FindNextMain, NoNextMain, Promote,
         PromoteChild, Repoint, LockExpires, DeadLockExpires, vars, db
<1>2. Digests = {} \/ (status' = status /\ mergedInto' = mergedInto /\ missed' = missed)
  <2>1. CASE \E x \in Cancelled : CancelStep(x)
    <3>1. DigestSteps = {}
      BY <2>1 DEF Calm, NoDigestIsCancelled
    <3> QED
      BY <3>1, JobFacts DEF Digests, DigestSteps, IsDigest, TypeOf
  <2>2. CASE ~(\E x \in Cancelled : CancelStep(x))
    BY <2>2 DEF LockExpires, DeadLockExpires, vars, db, history
  <2> QED
    BY <2>1, <2>2
<1>3. Digests' = Digests
  BY DEF Digests, IsDigest, TypeOf
<1>4. ASSUME NEW d \in Digests
      PROVE  /\ status'[d] = status[d] /\ AllMissed(d)' = AllMissed(d)
             /\ Followers(d)' = Followers(d) /\ Collected(d)' = Collected(d)
             /\ missed' = missed
  BY <1>1, <1>2
     DEF AllMissed, InFlight, Followers, WithStatus, IsDigest, TypeOf, Collected
<1>5. ASSUME NEW w \in Workers
      PROVE  /\ wk[w].pc \in {"send", "digest", "complete"} /\ wk[w].cur \in Digests =>
                   status'[wk[w].cur] # "delayed"
             /\ wk[w].pc = "digest" =>
                   /\ wk[w].cur \in Digests
                   /\ \A d : d = wk[w].cur => AllMissed(d)' /\ \A f \in Followers(d)' \ missed' : f[1] \in wk[w].batch
             /\ \A d \in Digests : wk[w].pc = "complete" /\ wk[w].cur = d => Collected(d)'
  BY <1>4 DEF BatchInv
<1> QED
  BY <1>1, <1>3, <1>4, <1>5 DEF BatchInv

LEMMA BatchInit == Init => BatchInv
BY ChainInit DEF Init, BatchInv, Idle, Digests

\* A digest that is over has the event of every trigger that was merged into it, but for
\* those whose MERGED was still to be written when the digest read its events.  Slots may
\* crash, locks expire and enqueues be lost, and steps fail.
THEOREM BatchesAreComplete ==
    ASSUME Calm, DigestsAreNotFiltered
    PROVE  Spec => []BatchComplete
<1>1. BatchInv /\ [Next]_vars => BatchInv'
  <2> SUFFICES ASSUME BatchInv, [Next]_vars PROVE BatchInv'
    OBVIOUS
  <2>1. ChainInv'
    BY ChainStep DEF BatchInv
  <2> QED
    BY <2>1, BatchStep, OtherStepKeepsBatch DEF Next, Environment, SlotStep
<1>2. BatchInv => BatchComplete
  BY DEF BatchInv, BatchComplete, Collected, WithStatus, Digests
<1> QED
  BY <1>1, <1>2, BatchInit, PTL DEF Spec

-----------------------------------------------------------------------------
(* A step that has to stop its chain.                                       *)

\* Between a step with shouldStopOnFail and the next one whose scheduling fails no digest
\* has been skipped: RunJob schedules the next job before it fails, and a skipped digest is
\* written by then.
StopsAreClean ==
    \A s \in StopOnFail, t \in Steps :
        Follows(s, t) /\ StepType[t] \in {"digest", "delay"} /\ t \in Fallible => t = s + 1

\* The slot is about to write that job j has failed.
WillFail(w, j) ==
    wk[w].pc \in Failing /\ wk[w].bull = j /\ (wk[w].err = "plain" \/ Last(wk[w]))

Stops(j) ==
    j[2] \in StopOnFail /\ HasChild(j) /\ (status[j] = "failed" \/ \E w \in Workers : WillFail(w, j))

\* A slot does not go on after a step with shouldStopOnFail that has failed.
SlotStops(r) ==
    r.pc \in Sched \cup {"next"} /\ r.phase = "run" /\ r.err # "none" => r.bull[2] \notin StopOnFail

\* The jobs of the steps ahead of the token have not been started.
Untouched ==
    \A n \in Notifs, p \in Nat : Token(n, p) /\ Stored(n) =>
        \/ \E w \in Workers : wk[w].pc = "merge" /\ wk[w].add[1] = n
        \/ \A t \in Steps : p < 2 * t => status[<<n, t>>] \in {"pending", "canceled"}

\* Nothing moves in a chain that has stopped at job j.
Stopped(j) ==
    /\ Stored(j[1]) /\ NoDelivery(j[1]) /\ status[Child(j)] \in {"pending", "canceled"}
    /\ \A v \in Workers : Has(wk[v], j[1]) => WillFail(v, j)
    /\ \A v \in Workers : wk[v].pc \in Failing /\ wk[v].err = "plain" /\ wk[v].bull[1] = j[1] =>
                             wk[v].bull[2] <= j[2]

\* No cancel call promotes a digest where there is none, and all it cancels is stored.
NoPromotion ==
    \A x \in Cancelled :
        /\ DigestSteps = {} =>
              cc[x].pc \in {"off", "pending", "write", "done"} /\ cc[x].main = NoJob
        /\ \A j \in cc[x].ids : status[j] # "absent"

StopInv ==
    /\ ChainInv /\ AttemptsOK /\ FailedBehind /\ Untouched /\ NoPromotion
    /\ \A w \in Workers : SlotStops(wk[w])
    /\ \A j \in Jobs : Stops(j) => Stopped(j)

-----------------------------------------------------------------------------
\* The status of a job is written by the slot that has the token of its notification, which
\* is past the job then, or by one that has failed it before.
StatusWrites(w) ==
    \A j \in Jobs :
        \/ status'[j] = status[j]
        \/ ~Stored(j[1]) /\ \A t \in Steps : status'[<<j[1], t>>] = "pending"
        \/ /\ Has(wk[w], j[1])
           /\ \/ status'[j] = "canceled"
              \/ Ahead(w, 2 * j[2])
              \/ wk'[w].pc = "merge" /\ wk'[w].add[1] = j[1]
        \/ wk[w].pc \in Failing /\ wk[w].err = "plain" /\ wk[w].bull = j

\* A slot fails the job it runs, or one whose next job it cannot schedule.
FailureSource(w) ==
    \A j \in Jobs : WillFail(w, j)' =>
        \/ WillFail(w, j)
        \/ /\ Has(wk[w], j[1])
           /\ j[2] \in StopOnFail =>
                 /\ wk[w].pc # "merge" /\ Pos(wk[w]) <= 2 * j[2] + 1 /\ waiting' = waiting
                 /\ status'[Child(j)] \in {status[Child(j)], "canceled"}

LEMMA AddJobWrites ==
    ASSUME CleanRuns, ChainInv, AttemptsOK, NEW w \in Workers, AddJobStep(w)
    PROVE  StatusWrites(w)
<1>1. /\ wk[w] \in WorkerState /\ SlotOK(wk[w]) /\ SlotChain(wk[w])
      /\ wk \in [Workers -> WorkerState] /\ status \in [Jobs -> Statuses]
  BY DEF ChainInv, TypeInv, TypeOK, SlotsOK, SlotsInChain
<1>2. StoredStays /\ Others(w)
  BY AddJobSteady DEF CleanRuns, Steady, Moves, Keeps, Puts, Takes, Starts
<1>3. ASSUME NEW n \in Notifs, StoreJobs(w, n) PROVE StatusWrites(w)
  BY <1>1, <1>3 DEF StoreJobs, StatusWrites, Stored, Jobs
<1>4. wk[w].pc \in Sched => wk[w].add \in Jobs /\ Has(wk[w], wk[w].add[1])
  BY <1>1, JobOfSched DEF SlotOK, Sched, Has
<1>5. ASSUME AddPlain(w) \/ AddDelay(w) \/ Claim(w) PROVE StatusWrites(w)
  <2>1. /\ wk[w].pc \in Sched /\ waiting' = waiting /\ GoTo(w, "enqueue")
        /\ \E s : SetStatus(wk[w].add, s)
    BY <1>5 DEF AddPlain, AddDelay, Claim, Adding, Sched
  <2> DEFINE r == [wk[w] EXCEPT !.pc = "enqueue"]
  <2>2. wk'[w] = r /\ r.pc = "enqueue" /\ r.add = wk[w].add
    BY <1>1, <2>1 DEF GoTo, WorkerState
  <2> HIDE DEF r
  <2>3. Pos(r) = 2 * wk[w].add[2] /\ Pos(r) >= Pos(r)
    BY <1>4, <2>1, <2>2, PosValues, JobFacts
  <2>4. \A n \in Notifs : Has(r, n) => Has(wk[w], n)
    BY <2>1, <2>2, JobOfSched DEF Has, Sched
  <2>5. Ahead(w, 2 * wk[w].add[2])
    BY <1>2, <2>1, <2>2, <2>3, <2>4, KeepsAhead
  <2> QED
    BY <1>1, <1>4, <2>1, <2>5 DEF SetStatus, StatusWrites
<1>6. ASSUME AddDelayMisconfigured(w) PROVE StatusWrites(w)
  BY <1>1, <1>4, <1>6 DEF AddDelayMisconfigured, Adding, Sched, SetStatus, StatusWrites
<1>7. ASSUME Skip(w) PROVE StatusWrites(w)
  <2>1. /\ wk[w].pc = "skip" /\ waiting' = waiting /\ SetStatus(wk[w].add, "skipped")
        /\ HasChild(wk[w].add) => wk' = [wk EXCEPT ![w].pc = "add", ![w].add = Child(wk[w].add)]
        /\ ~HasChild(wk[w].add) => Return(w, "none")
    BY <1>7 DEF Skip, Skipped
  <2>2. Ahead(w, 2 * wk[w].add[2])
    <3>1. CASE HasChild(wk[w].add)
      <4> DEFINE r == [wk[w] EXCEPT !.pc = "add", !.add = Child(wk[w].add)]
      <4>1. wk'[w] = r /\ r.pc = "add" /\ r.add = Child(wk[w].add)
        BY <1>1, <2>1, <3>1 DEF WorkerState
      <4> HIDE DEF r
      <4>2. r.add[1] = wk[w].add[1] /\ r.add[2] = wk[w].add[2] + 1
        BY <4>1 DEF Child
      <4>3. Pos(r) >= 2 * wk[w].add[2]
        BY <1>4, <2>1, <4>1, <4>2, PosValues, JobFacts DEF Sched
      <4>4. \A n \in Notifs : Has(r, n) => Has(wk[w], n)
        BY <2>1, <4>1, <4>2, JobOfSched DEF Has, Sched
      <4> QED
        BY <1>2, <2>1, <4>1, <4>3, <4>4, KeepsAhead
    <3>2. CASE ~HasChild(wk[w].add)
      BY <1>1, <1>2, <2>1, <3>2, ReturnMoves, KeepsAhead DEF CleanRuns, Errors, Sched, Has
    <3> QED
      BY <3>1, <3>2
  <2> QED
    BY <1>1, <1>4, <2>1, <2>2 DEF SetStatus, StatusWrites, Sched
<1>8. ASSUME MergeWrite(w) PROVE StatusWrites(w)
  <2>1. /\ wk[w].pc = "merge" /\ waiting' = waiting
        /\ \E s \in wk[w].todo :
              /\ status' = [status EXCEPT ![<<wk[w].add[1], s>>] = "merged"]
              /\ IF wk[w].todo = {s} THEN Return(w, "none") ELSE wk' = [wk EXCEPT ![w].todo = @ \ {s}]
    BY <1>8 DEF MergeWrite, Merged
  <2>2. Return(w, "none") => \A q : Ahead(w, q)
    BY <1>1, <1>2, <2>1, ReturnMoves, KeepsAhead DEF CleanRuns, Errors, Sched, Has
  <2>3. ~Return(w, "none") => wk'[w].pc = "merge" /\ wk'[w].add = wk[w].add
    <3> SUFFICES ASSUME NEW T, wk' = [wk EXCEPT ![w].todo = T]
                 PROVE  wk'[w].pc = "merge" /\ wk'[w].add = wk[w].add
      BY <2>1
    <3> QED
      BY <1>1, <2>1 DEF WorkerState
  <2> QED
    BY <1>1, <1>4, <2>1, <2>2, <2>3 DEF StatusWrites, Sched, Jobs
<1>9. ASSUME AddThrows(w) \/ DigestFiltered(w) \/ DecideSkip(w) \/ DecideCreate(w) \/ DecideMerge(w)
             \/ Enqueue(w)
      PROVE  StatusWrites(w)
  BY <1>9 DEF AddThrows, DigestFiltered, DecideSkip, DecideCreate, DecideMerge, Enqueue, db,
              StatusWrites
<1> QED
  BY <1>3, <1>5, <1>6, <1>7, <1>8, <1>9 DEF AddJobStep

LEMMA RunJobWrites ==
    ASSUME CleanRuns, ChainInv, NEW w \in Workers, RunJobStep(w), Onward(w)
    PROVE  StatusWrites(w)
<1>1. /\ wk[w] \in WorkerState /\ SlotOK(wk[w]) /\ SlotChain(wk[w])
      /\ wk \in [Workers -> WorkerState] /\ status \in [Jobs -> Statuses]
  BY DEF ChainInv, TypeInv, TypeOK, SlotsOK, SlotsInChain
<1>2. wk[w].pc \in Running => wk[w].cur \in Jobs /\ Has(wk[w], wk[w].cur[1])
  BY <1>1, JobOfRunning DEF SlotOK, Running, Has
<1>3. ASSUME MarkRunning(w) PROVE StatusWrites(w)
  BY <1>1, <1>2, <1>3, PosValues DEF MarkRunning, At, Onward, Running, StatusWrites
<1>4. ASSUME FilterOut(w) PROVE StatusWrites(w)
  BY <1>1, <1>2, <1>4 DEF FilterOut, At, Running, StatusWrites
<1>5. ASSUME MarkCompleted(w) PROVE StatusWrites(w)
  <2>1. /\ wk[w].pc = "complete" /\ status' = [status EXCEPT ![wk[w].cur] = "completed"]
        /\ Ahead(w, 2 * wk[w].cur[2] + 1)
    BY <1>5, PosValues DEF MarkCompleted, At, Onward
  <2>2. Ahead(w, 2 * wk[w].cur[2])
    BY <1>2, <2>1, JobFacts DEF Ahead, Running
  <2> QED
    BY <1>1, <1>2, <2>1, <2>2 DEF Running, StatusWrites
<1>6. ASSUME HandleFailed(w) PROVE StatusWrites(w)
  <2>1. /\ wk[w].pc = "failed" /\ wk[w].err # "none" /\ wk[w].err \in Errors /\ wk[w].bull \in Jobs
        /\ \/ status' = status
           \/ /\ wk[w].err # "webhook" \/ IsLastFailure(wk[w].err, wk[w].made)
              /\ status' = [status EXCEPT ![wk[w].bull] = "failed"]
    BY <1>1, <1>6 DEF HandleFailed, At, SlotChain, SlotOK, Failing, WorkerState
  <2>2. wk[w].err = "plain" \/ (Has(wk[w], wk[w].bull[1]) /\ Ahead(w, 2 * wk[w].bull[2]))
        \/ status' = status
    BY <2>1, JobOfFailing, PosValues DEF Errors, Has, Live, Last, Failing, Onward
  <2> QED
    BY <1>1, <2>1, <2>2 DEF StatusWrites, Failing
<1>7. CASE ~(MarkRunning(w) \/ FilterOut(w) \/ MarkCompleted(w) \/ HandleFailed(w))
  <2>1. status' = status
    BY <1>7 DEF RunJobStep, Receive, FindFollower, NoFollower, SendNothing, Deliver, ReadBatch,
           WriteBatch, SendThrows, DeliverThrows, QueueNext, Reject, db
  <2> QED
    BY <2>1 DEF StatusWrites
<1> QED
  BY <1>3, <1>4, <1>5, <1>6, <1>7

\* How AddJob ends for the job of a run: with the error of the run, or with one of the next
\* job, which is the one after it if the run has to stop.
LEMMA ReturnStops ==
    ASSUME CleanRuns, StopsAreClean, ChainInv, AttemptsOK, NEW w \in Workers, SlotStops(wk[w]),
           wk[w].pc \in Sched \cup {"next"}, NEW e \in Errors, Return(w, e),
           e # "none" => /\ wk[w].pc = "add" /\ IsAction(wk[w].add) /\ e \in ErrorsOf(wk[w].add[2])
                         /\ waiting' = waiting
                         /\ \/ status' = status
                            \/ status' = [status EXCEPT ![wk[w].add] = "canceled"]
    PROVE  FailureSource(w) /\ SlotStops(wk'[w])
<1>1. /\ wk[w] \in WorkerState /\ SlotChain(wk[w]) /\ SlotOK(wk[w]) /\ SlotAttempts(wk[w])
      /\ wk \in [Workers -> WorkerState] /\ status \in [Jobs -> Statuses]
  BY DEF ChainInv, TypeInv, TypeOK, SlotsOK, SlotsInChain, AttemptsOK
<1> DEFINE thrown == IF e = "none" THEN wk[w].err ELSE e
           rej == [wk[w] EXCEPT !.pc = "reject", !.err = thrown]
<1>2. wk'[w] = Idle \/ (wk'[w] = rej /\ wk[w].phase = "run" /\ thrown # "none")
  BY <1>1 DEF Return
<1>3. rej.pc = "reject" /\ rej.err = thrown /\ rej.bull = wk[w].bull /\ rej.made = wk[w].made
  BY <1>1 DEF WorkerState
<1> HIDE DEF rej
<1>4. SlotStops(wk'[w])
  BY <1>2, <1>3, IdleIsFree DEF SlotStops, Sched, Idle
<1>5. FailureSource(w)
  <2> SUFFICES ASSUME NEW j \in Jobs, WillFail(w, j)'
               PROVE  /\ Has(wk[w], j[1])
                      /\ j[2] \in StopOnFail =>
                            /\ wk[w].pc # "merge" /\ Pos(wk[w]) <= 2 * j[2] + 1 /\ waiting' = waiting
                            /\ status'[Child(j)] \in {status[Child(j)], "canceled"}
    BY DEF FailureSource
  <2>1. /\ wk'[w] = rej /\ wk[w].phase = "run" /\ thrown # "none" /\ wk[w].bull = j
        /\ thrown = "plain" \/ IsLastFailure(thrown, wk[w].made)
    BY <1>2, <1>3, IdleIsFree DEF WillFail, Last, Failing
  <2>2. Has(wk[w], j[1])
    BY <1>1, <2>1, JobOfSched, JobOfRunning DEF SlotChain, Running, Has
  <2>3. ASSUME j[2] \in StopOnFail
        PROVE  /\ wk[w].pc # "merge" /\ Pos(wk[w]) <= 2 * j[2] + 1 /\ waiting' = waiting
               /\ status'[Child(j)] \in {status[Child(j)], "canceled"}
    <3>1. e # "none"
      BY <2>1, <2>3 DEF SlotStops
    <3>2. /\ wk[w].pc = "add" /\ IsAction(wk[w].add) /\ e \in ErrorsOf(wk[w].add[2]) /\ thrown = e
          /\ wk[w].add \in Jobs /\ Follows(j[2], wk[w].add[2]) /\ wk[w].add[1] = j[1]
      BY <1>1, <2>1, <3>1 DEF Sched, SlotOK, SlotAttempts, SlotChain
    <3>3. j[2] \notin WebhookSteps
      BY <3>2, JobFacts DEF CleanRuns, RetriesAreClean, ErrorsOf, IsAction, TypeOf
    <3>4. wk[w].made <= 1
      BY <1>1, <2>1, <3>3 DEF SlotAttempts, Attempts
    <3>5. e = "plain"
      BY <1>1, <2>1, <3>2, <3>4, MaxStartsNat DEF IsLastFailure, DefaultAttempts, WorkerState
    <3>6. wk[w].add[2] = j[2] + 1
      BY <2>3, <3>2, <3>5, JobFacts DEF StopsAreClean, ErrorsOf, IsAction, TypeOf
    <3>7. Pos(wk[w]) = 2 * wk[w].add[2] - 1
      BY <3>2, PosValues
    <3>8. Pos(wk[w]) <= 2 * j[2] + 1
      BY <3>6, <3>7, JobFacts
    <3>9. status'[Child(j)] \in {status[Child(j)], "canceled"}
      BY <1>1, <3>1, <3>2, <3>6, JobFacts DEF Child
    <3> QED
      BY <3>1, <3>2, <3>8, <3>9
  <2> QED
    BY <2>2, <2>3
<1> QED
  BY <1>4, <1>5

LEMMA AddJobStops ==
    ASSUME CleanRuns, StopsAreClean, ChainInv, AttemptsOK, NEW w \in Workers, SlotStops(wk[w]),
           AddJobStep(w)
    PROVE  FailureSource(w) /\ SlotStops(wk'[w])
<1>1. wk[w] \in WorkerState /\ wk \in [Workers -> WorkerState]
  BY DEF ChainInv, TypeInv, TypeOK
<1>2. ASSUME NEW r, wk' = [wk EXCEPT ![w] = r], r.pc \in Sched,
             \/ r.phase = "store"
             \/ wk[w].pc \in Sched /\ r.phase = wk[w].phase /\ r.bull = wk[w].bull /\ r.err = wk[w].err
      PROVE  FailureSource(w) /\ SlotStops(wk'[w])
  BY <1>1, <1>2 DEF FailureSource, WillFail, Failing, Sched, SlotStops
<1>3. ASSUME NEW n \in Notifs, StoreJobs(w, n) PROVE FailureSource(w) /\ SlotStops(wk'[w])
  <2> DEFINE r == [Idle EXCEPT !.pc = "add", !.add = <<n, 1>>]
  <2>1. wk' = [wk EXCEPT ![w] = r] /\ r.pc = "add" /\ r.phase = "store"
    BY <1>3 DEF StoreJobs, Idle
  <2> HIDE DEF r
  <2> QED
    BY <1>2, <2>1 DEF Sched
<1>4. ASSUME AddPlain(w) \/ AddDelay(w) \/ DigestFiltered(w) \/ DecideSkip(w) \/ DecideCreate(w)
             \/ Claim(w)
      PROVE  FailureSource(w) /\ SlotStops(wk'[w])
  <2>1. PICK pc \in {"enqueue", "skip", "claim"} : wk[w].pc \in {"add", "claim"} /\ GoTo(w, pc)
    BY <1>4 DEF AddPlain, AddDelay, DigestFiltered, DecideSkip, DecideCreate, Claim, Adding
  <2> DEFINE r == [wk[w] EXCEPT !.pc = pc]
  <2>2. /\ wk' = [wk EXCEPT ![w] = r] /\ r.pc = pc
        /\ r.phase = wk[w].phase /\ r.bull = wk[w].bull /\ r.err = wk[w].err
    BY <1>1, <2>1 DEF GoTo, WorkerState
  <2> HIDE DEF r
  <2> QED
    BY <1>2, <2>1, <2>2 DEF Sched
<1>5. ASSUME DecideMerge(w) PROVE FailureSource(w) /\ SlotStops(wk'[w])
  <2>1. PICK d : wk' = [wk EXCEPT ![w].pc = "merge", ![w].hit = d,
                                  ![w].todo = wk[w].add[2]..NumSteps]
    BY <1>5 DEF DecideMerge
  <2> DEFINE r == [wk[w] EXCEPT !.pc = "merge", !.hit = d, !.todo = wk[w].add[2]..NumSteps]
  <2>2. /\ wk' = [wk EXCEPT ![w] = r] /\ r.pc = "merge" /\ wk[w].pc = "add"
        /\ r.phase = wk[w].phase /\ r.bull = wk[w].bull /\ r.err = wk[w].err
    BY <1>1, <1>5, <2>1 DEF WorkerState, DecideMerge, Adding
  <2> HIDE DEF r
  <2> QED
    BY <1>2, <2>2 DEF Sched
<1>6. ASSUME wk[w].pc \in Sched, Return(w, "none") PROVE FailureSource(w) /\ SlotStops(wk'[w])
  BY <1>6, ReturnStops DEF Errors
<1>7. ASSUME MergeWrite(w) PROVE FailureSource(w) /\ SlotStops(wk'[w])
  <2>1. PICK T : wk[w].pc = "merge" /\ (Return(w, "none") \/ wk' = [wk EXCEPT ![w].todo = T])
    BY <1>7 DEF MergeWrite, Merged
  <2> DEFINE r == [wk[w] EXCEPT !.todo = T]
  <2>2. /\ r.pc = "merge" /\ (Return(w, "none") \/ wk' = [wk EXCEPT ![w] = r])
        /\ r.phase = wk[w].phase /\ r.bull = wk[w].bull /\ r.err = wk[w].err
    BY <1>1, <2>1 DEF WorkerState
  <2> HIDE DEF r
  <2> QED
    BY <1>2, <1>6, <2>1, <2>2 DEF Sched
<1>8. ASSUME Skip(w) PROVE FailureSource(w) /\ SlotStops(wk'[w])
  <2> DEFINE r == [wk[w] EXCEPT !.pc = "add", !.add = Child(wk[w].add)]
  <2>1. /\ r.pc = "add" /\ (Return(w, "none") \/ wk' = [wk EXCEPT ![w] = r]) /\ wk[w].pc = "skip"
        /\ r.phase = wk[w].phase /\ r.bull = wk[w].bull /\ r.err = wk[w].err
    BY <1>1, <1>8 DEF WorkerState, Skip, Skipped
  <2> HIDE DEF r
  <2> QED
    BY <1>2, <1>6, <2>1 DEF Sched
<1>9. ASSUME Enqueue(w) PROVE FailureSource(w) /\ SlotStops(wk'[w])
  BY <1>6, <1>9 DEF Enqueue, Sched
<1>10. ASSUME AddThrows(w) \/ AddDelayMisconfigured(w) PROVE FailureSource(w) /\ SlotStops(wk'[w])
  <2>1. PICK e \in ErrorsOf(wk[w].add[2]) :
           /\ wk[w].pc = "add" /\ IsAction(wk[w].add) /\ Return(w, e) /\ waiting' = waiting
           /\ status' = status \/ status' = [status EXCEPT ![wk[w].add] = "canceled"]
    BY <1>10 DEF AddThrows, AddDelayMisconfigured, Adding, IsAction, ErrorsOf, SetStatus, db
  <2>2. e \in Errors
    BY DEF ErrorsOf, Errors
  <2> QED
    BY <2>1, <2>2, ReturnStops DEF Sched
<1> QED
  BY <1>3, <1>4, <1>5, <1>7, <1>8, <1>9, <1>10 DEF AddJobStep

LEMMA RunJobStops ==
    ASSUME CleanRuns, StopsAreClean, ChainInv, AttemptsOK, NEW w \in Workers, SlotStops(wk[w]),
           RunJobStep(w)
    PROVE  FailureSource(w) /\ SlotStops(wk'[w])
<1>1. /\ wk[w] \in WorkerState /\ wk \in [Workers -> WorkerState] /\ SlotChain(wk[w])
      /\ SlotOK(wk[w])
  BY DEF ChainInv, TypeInv, TypeOK, SlotsInChain, SlotsOK
<1>2. ~FindFollower(w) /\ ~NoFollower(w)
  BY <1>1 DEF FindFollower, NoFollower, At, SlotChain
<1>3. ASSUME wk'[w].pc \notin Failing,
             wk'[w].pc \notin Sched \cup {"next"} \/ wk'[w].phase # "run" \/ wk'[w].err = "none"
                \/ wk'[w].bull[2] \notin StopOnFail
      PROVE  FailureSource(w) /\ SlotStops(wk'[w])
  BY <1>3 DEF FailureSource, WillFail, SlotStops
<1>4. ASSUME NEW j \in Jobs, NEW a \in 0..MaxStarts, Receive(w, j, a)
      PROVE  FailureSource(w) /\ SlotStops(wk'[w])
  <2> DEFINE run == [Idle EXCEPT !.phase = "run", !.bull = j, !.made = a + 1]
             mark == [run EXCEPT !.pc = "mark", !.cur = j, !.batch = Carries(j)]
             follow == [run EXCEPT !.pc = "follow"]
  <2>1. mark.pc = "mark" /\ follow.pc = "follow" /\ Idle.pc = "idle"
    BY DEF Idle
  <2>2. wk'[w] \in {mark, follow, Idle}
    BY <1>1, <1>4 DEF Receive
  <2> HIDE DEF mark, follow
  <2> QED
    BY <1>3, <2>1, <2>2 DEF Failing, Sched
<1>5. ASSUME MarkRunning(w) \/ SendNothing(w) \/ Deliver(w) \/ WriteBatch(w) \/ FilterOut(w)
      PROVE  FailureSource(w) /\ SlotStops(wk'[w])
  <2>1. PICK pc \in {"send", "complete"} : GoTo(w, pc)
    BY <1>5 DEF MarkRunning, SendNothing, Deliver, WriteBatch, FilterOut, GoTo
  <2> QED
    BY <1>1, <1>3, <2>1, GoToPC DEF Failing, Sched
<1>6. ASSUME ReadBatch(w) PROVE FailureSource(w) /\ SlotStops(wk'[w])
  <2> DEFINE r == [wk[w] EXCEPT !.pc = "digest", !.batch = DigestEvents(wk[w].cur)]
  <2>1. wk'[w] = r /\ r.pc = "digest"
    BY <1>1, <1>6 DEF ReadBatch, WorkerState
  <2> HIDE DEF r
  <2> QED
    BY <1>3, <2>1 DEF Failing, Sched
<1>7. ASSUME MarkCompleted(w) PROVE FailureSource(w) /\ SlotStops(wk'[w])
  <2> DEFINE r == [wk[w] EXCEPT !.pc = "next"]
  <2>1. wk'[w] = r /\ r.pc = "next" /\ r.err = "none"
    BY <1>1, <1>7 DEF MarkCompleted, At, WorkerState, SlotChain
  <2> HIDE DEF r
  <2> QED
    BY <1>3, <2>1 DEF Failing
<1>8. ASSUME SendThrows(w) \/ DeliverThrows(w) PROVE FailureSource(w) /\ SlotStops(wk'[w])
  <2>1. PICK e : Caught(w, e)
    BY <1>8 DEF SendThrows, DeliverThrows
  <2>2. wk[w].pc = "send" /\ status' = status /\ waiting' = waiting
    BY <1>8 DEF SendThrows, DeliverThrows, At, db
  <2> DEFINE r == [wk[w] EXCEPT !.err = e,
                                !.pc = IF StopsChain(wk[w].cur[2], e) THEN "reject" ELSE "next"]
  <2>3. /\ wk'[w] = r /\ r.bull = wk[w].bull /\ wk[w].bull = wk[w].cur /\ wk[w].bull \in Jobs
        /\ r.pc = IF StopsChain(wk[w].cur[2], e) THEN "reject" ELSE "next"
    BY <1>1, <2>1, <2>2 DEF Caught, WorkerState, SlotChain, SlotOK, Running
  <2> HIDE DEF r
  <2>4. CASE r.pc = "next"
    BY <1>3, <2>3, <2>4 DEF Failing, StopsChain
  <2>5. CASE r.pc # "next"
    <3>1. SlotStops(wk'[w])
      BY <2>3, <2>5 DEF SlotStops, Sched
    <3>2. Has(wk[w], wk[w].bull[1]) /\ Pos(wk[w]) = 2 * wk[w].bull[2]
      BY <2>2, <2>3, JobOfRunning, PosValues DEF Has, Running
    <3>3. Pos(wk[w]) <= 2 * wk[w].bull[2] + 1
      BY <2>3, <3>2, JobFacts
    <3> QED
      BY <2>2, <2>3, <3>1, <3>2, <3>3 DEF FailureSource, WillFail
  <2> QED
    BY <2>4, <2>5
<1>9. ASSUME QueueNext(w) PROVE FailureSource(w) /\ SlotStops(wk'[w])
  <2>1. CASE HasChild(wk[w].cur)
    <3> DEFINE r == [wk[w] EXCEPT !.pc = "add", !.add = Child(wk[w].cur)]
    <3>1. /\ wk'[w] = r /\ r.pc = "add" /\ r.bull = wk[w].bull /\ r.err = wk[w].err
          /\ r.phase = wk[w].phase /\ wk[w].pc = "next"
      BY <1>1, <1>9, <2>1 DEF QueueNext, At, WorkerState
    <3> HIDE DEF r
    <3> QED
      BY <3>1 DEF FailureSource, WillFail, SlotStops, Failing
  <2>2. CASE ~HasChild(wk[w].cur)
    <3>1. wk[w].pc = "next" /\ Return(w, "none")
      BY <1>9, <2>2 DEF QueueNext, At
    <3> QED
      BY <3>1, ReturnStops DEF Errors
  <2> QED
    BY <2>1, <2>2
<1>10. ASSUME Reject(w) PROVE FailureSource(w) /\ SlotStops(wk'[w])
  <2> DEFINE r == [wk[w] EXCEPT !.pc = "failed"]
  <2>1. /\ wk'[w] = r /\ r.pc = "failed" /\ r.bull = wk[w].bull /\ r.err = wk[w].err
        /\ r.made = wk[w].made /\ wk[w].pc = "reject"
    BY <1>1, <1>10 DEF Reject, At, WorkerState
  <2> HIDE DEF r
  <2> QED
    BY <2>1 DEF FailureSource, WillFail, Last, SlotStops, Failing, Sched
<1>11. ASSUME HandleFailed(w) PROVE FailureSource(w) /\ SlotStops(wk'[w])
  <2> DEFINE r == [wk[w] EXCEPT !.pc = "next", !.phase = "last", !.cur = wk[w].bull, !.err = "none"]
  <2>1. wk'[w] \in {r, Idle} /\ r.pc = "next" /\ r.err = "none"
    BY <1>1, <1>11 DEF HandleFailed, WorkerState
  <2> HIDE DEF r
  <2> QED
    BY <1>3, <2>1, IdleIsFree DEF Failing, Sched, Idle
<1> QED
  BY <1>2, <1>4, <1>5, <1>6, <1>7, <1>8, <1>9, <1>10, <1>11 DEF RunJobStep

\* A slot that has failed a step goes on to reject its delivery and to write the failure.
LEMMA FailingSteps ==
    ASSUME NEW w \in Workers, wk[w].pc \in Failing, SlotStep(w), "crash" \notin Faults
    PROVE  Reject(w) \/ HandleFailed(w)
<1>1. wk[w] # Idle /\ wk[w].pc \in {"reject", "failed"}
  BY DEF Failing, Idle
<1>2. ~AddJobStep(w) /\ ~EnqueueLost(w) /\ ~Crash(w)
  BY <1>1 DEF AddJobStep, StoreJobs, AddPlain, AddDelay, AddDelayMisconfigured, AddThrows,
         DigestFiltered, DecideSkip, DecideCreate, DecideMerge, Claim, MergeWrite, Skip, Enqueue,
         EnqueueLost, Adding, Crash
<1>3. RunJobStep(w) => Reject(w) \/ HandleFailed(w)
  BY <1>1 DEF RunJobStep, Receive, FindFollower, NoFollower, MarkRunning, SendNothing, Deliver,
         ReadBatch, WriteBatch, FilterOut, SendThrows, DeliverThrows, MarkCompleted, QueueNext, At
<1> QED
  BY <1>2, <1>3 DEF SlotStep

\* A slot that will fail a job has the token only for the last attempt of a webhook.
LEMMA FailingHolds ==
    ASSUME ChainInv, FailedBehind, NEW w \in Workers, NEW j, WillFail(w, j), NEW n, Has(wk[w], n)
    PROVE  /\ Last(wk[w]) /\ wk[w].err = "webhook" /\ n = j[1] /\ j \in Jobs
           /\ ~(wk[w].made < Attempts(wk[w].bull))
<1>1. wk[w].pc \in Failing /\ wk[w].bull = j /\ j \in Jobs /\ wk[w] \in WorkerState
  BY DEF WillFail, Failing, ChainInv, TypeInv, TypeOK, SlotsOK, SlotOK
<1>2. n = j[1] /\ n \in Notifs
  BY <1>1, JobOfFailing, JobFacts DEF Has
<1>3. wk[w].err # "plain"
  <2> SUFFICES ASSUME wk[w].err = "plain" PROVE FALSE
    OBVIOUS
  <2>1. Token(n, 2 * j[2])
    BY <1>1, <1>2, OnlyToken, PosValues
  <2>2. 2 * j[2] \in Nat /\ ~(2 * j[2] > 2 * j[2])
    BY <1>1, JobFacts
  <2> QED
    BY <1>1, <1>2, <2>1, <2>2 DEF FailedBehind, Trails
<1>4. Last(wk[w]) /\ wk[w].err = "webhook"
  BY <1>3 DEF WillFail, Last, IsLastFailure
<1>5. ~(wk[w].made < Attempts(wk[w].bull))
  BY <1>1, <1>4, MaxStartsNat DEF Last, IsLastFailure, Attempts, DefaultAttempts, WorkerState
<1> QED
  BY <1>1, <1>2, <1>4, <1>5

LEMMA StopBegins ==
    ASSUME StopInv, NEW w \in Workers, Others(w), FailureSource(w), StoredStays,
           NEW j \in Jobs, WillFail(w, j)', ~WillFail(w, j), j[2] \in StopOnFail, HasChild(j)
    PROVE  Stopped(j)'
<1>1. ChainInv /\ FailedBehind /\ Untouched
  BY DEF StopInv
<1>2. /\ Has(wk[w], j[1]) /\ wk[w].pc # "merge" /\ Pos(wk[w]) <= 2 * j[2] + 1
      /\ waiting' = waiting /\ status'[Child(j)] \in {status[Child(j)], "canceled"}
  BY DEF FailureSource
<1>3. /\ Stored(j[1]) /\ NoDelivery(j[1]) /\ Token(j[1], Pos(wk[w])) /\ Pos(wk[w]) \in Nat
      /\ \A v \in Workers : Has(wk[v], j[1]) => v = w
  BY <1>1, <1>2, OnlyToken, PosNat, JobFacts DEF ChainInv, Has
<1>4. \A v \in Workers : ~(wk[v].pc = "merge" /\ wk[v].add[1] = j[1])
  BY <1>2, <1>3, JobOfSched DEF Has, Sched
<1>5. status[Child(j)] \in {"pending", "canceled"}
  <2>1. j[2] + 1 \in Steps /\ Child(j) = <<j[1], j[2] + 1>>
    BY JobFacts, StepAssumption DEF HasChild, Child, Steps, Jobs
  <2>2. Pos(wk[w]) < 2 * (j[2] + 1)
    BY <1>2, <1>3, JobFacts
  <2> QED
    BY <1>1, <1>3, <1>4, <2>1, <2>2, JobFacts DEF Untouched
<1>6. \A v \in Workers : wk[v].pc \in Failing /\ wk[v].err = "plain" /\ wk[v].bull[1] = j[1] =>
                            wk[v].bull[2] <= j[2]
  <2> SUFFICES ASSUME NEW v \in Workers, wk[v].pc \in Failing, wk[v].err = "plain",
                      wk[v].bull[1] = j[1]
               PROVE  wk[v].bull[2] <= j[2]
    OBVIOUS
  <2>1. Pos(wk[w]) > 2 * wk[v].bull[2]
    BY <1>1, <1>3 DEF FailedBehind, Trails
  <2>2. wk[v].bull \in Jobs
    BY <1>1 DEF ChainInv, TypeInv, SlotsOK, SlotOK, Failing
  <2> QED
    BY <1>2, <1>3, <2>1, <2>2, JobFacts
<1>7. Stored(j[1])' /\ NoDelivery(j[1])' /\ status'[Child(j)] \in {"pending", "canceled"}
  BY <1>2, <1>3, <1>5, JobFacts DEF StoredStays, NoDelivery
<1>8. \A v \in Workers : Has(wk'[v], j[1]) => WillFail(v, j)'
  BY <1>3 DEF Others
<1>9. \A v \in Workers : wk'[v].pc \in Failing /\ wk'[v].err = "plain" /\ wk'[v].bull[1] = j[1] =>
                            wk'[v].bull[2] <= j[2]
  <2>1. wk'[w].bull = j /\ j[2] <= j[2]
    BY JobFacts DEF WillFail
  <2> QED
    BY <1>6, <2>1 DEF Others
<1> QED
  BY <1>7, <1>8, <1>9 DEF Stopped

LEMMA StopStays ==
    ASSUME CleanRuns, StopInv, ChainInv', NEW w \in Workers, SlotStep(w), Others(w), Onward(w),
           StatusWrites(w), FailureSource(w), StoredStays, NEW j \in Jobs, Stopped(j),
           j[2] \in StopOnFail, HasChild(j)
    PROVE  Stopped(j)'
<1>1. /\ ChainInv /\ FailedBehind /\ wk[w] \in WorkerState /\ wk \in [Workers -> WorkerState]
      /\ status \in [Jobs -> Statuses]
  BY DEF StopInv, ChainInv, TypeInv, TypeOK
<1>2. Stored(j[1])' /\ Child(j) \in Jobs /\ Child(j)[1] = j[1] /\ Child(j)[2] = j[2] + 1
      /\ Child(j) # j
  BY JobFacts, StepAssumption DEF Stopped, StoredStays, HasChild, Child, Steps, Jobs
<1>3. CASE Has(wk[w], j[1])
  <2>1. WillFail(w, j) /\ wk[w].pc \in Failing /\ wk[w].bull = j
    BY <1>3 DEF Stopped, WillFail
  <2>2. ~(wk[w].made < Attempts(wk[w].bull)) /\ wk[w].err = "webhook" /\ Last(wk[w])
    BY <1>1, <1>3, <2>1, FailingHolds
  <2>3. CASE Reject(w)
    <3> DEFINE r == [wk[w] EXCEPT !.pc = "failed"]
    <3>1. /\ wk'[w] = r /\ r.pc = "failed" /\ r.bull = j /\ r.err = wk[w].err
          /\ r.made = wk[w].made
      BY <1>1, <2>1, <2>3 DEF Reject, WorkerState
    <3> HIDE DEF r
    <3>2. waiting' = waiting /\ status' = status
      BY <2>2, <2>3 DEF Reject, db
    <3>3. WillFail(w, j)' /\ wk'[w].err # "plain"
      BY <2>2, <3>1 DEF WillFail, Last, Failing
    <3> QED
      BY <1>2, <3>2, <3>3 DEF Stopped, NoDelivery, Others, WillFail
  <2>4. CASE HandleFailed(w)
    <3>1. wk'[w] = Idle /\ waiting' = waiting /\ status'[Child(j)] = status[Child(j)]
      BY <1>1, <1>2, <2>1, <2>4 DEF HandleFailed
    <3> QED
      BY <1>2, <3>1, IdleIsFree DEF Stopped, NoDelivery, Others, WillFail, Has, Failing
  <2> QED
    BY <2>1, <2>3, <2>4, FailingSteps DEF CleanRuns
<1>4. CASE ~Has(wk[w], j[1])
  \* The notification had no token, and gets none.
  <2>1. \A v \in Workers : v # w => ~(Has(wk[v], j[1]) /\ Has(wk'[w], j[1]))
    <3>1. \A v \in Workers : Has(wk'[v], j[1]) /\ Has(wk'[w], j[1]) => v = w
      BY JobFacts DEF ChainInv, OneSlot
    <3> QED
      BY <3>1 DEF Others
  <2>2. \A p \in Nat : Token(j[1], p)' => \E v \in Workers : v # w /\ Has(wk[v], j[1])
    BY <1>4, JobFacts DEF Onward, Ahead, Token, Stopped, NoDelivery
  <2>3. ~Has(wk'[w], j[1])
    <3> SUFFICES ASSUME Has(wk'[w], j[1]) PROVE FALSE
      OBVIOUS
    <3>1. PICK p \in Nat : p = Pos(wk'[w])
      BY PosOfSlot DEF ChainInv, Has, TypeInv, TypeOK, SlotsOK
    <3>2. Token(j[1], p)'
      BY <3>1 DEF Token
    <3> QED
      BY <2>1, <2>2, <3>2
  <2>4. NoDelivery(j[1])'
    <3> SUFFICES ASSUME NEW i \in Jobs, NEW a \in 0..MaxStarts, i[1] = j[1], waiting'[i][a] # 0
                 PROVE  FALSE
      BY DEF NoDelivery
    <3>1. waiting'[i][a] > 0 /\ 2 * i[2] \in Nat
      <4>1. waiting'[i][a] \in Nat
        BY DEF ChainInv, TypeInv, TypeOK
      <4> QED
        BY <4>1, JobFacts
    <3>2. PICK p \in Nat : p = 2 * i[2]
      BY <3>1
    <3>3. Token(j[1], p)'
      BY <3>1, <3>2 DEF Token
    <3>4. PICK v \in Workers : v # w /\ Has(wk[v], j[1])
      BY <2>2, <3>3
    <3>5. Has(wk[v], j[1])'
      BY <3>4 DEF Others, Has, Live, JobOf, Retried, Last
    <3> QED
      BY <3>1, <3>5, JobFacts DEF ChainInv, SlotOrQueue, NoDelivery
  <2>5. status'[Child(j)] \in {"pending", "canceled"}
    <3>1. ~(wk[w].pc \in Failing /\ wk[w].err = "plain" /\ wk[w].bull = Child(j))
      BY <1>2, JobFacts DEF Stopped
    <3>2. status'[Child(j)] = status[Child(j)]
      BY <1>2, <1>4, <3>1 DEF StatusWrites, Stopped
    <3> QED
      BY <3>2 DEF Stopped
  <2>6. \A v \in Workers : wk'[v].pc \in Failing /\ wk'[v].err = "plain" /\ wk'[v].bull[1] = j[1] =>
                              wk'[v].bull[2] <= j[2]
    <3> SUFFICES ASSUME wk'[w].pc \in Failing, wk'[w].err = "plain", wk'[w].bull[1] = j[1]
                 PROVE  wk'[w].bull[2] <= j[2]
      BY DEF Stopped, Others
    <3>1. PICK i : i = wk'[w].bull
      OBVIOUS
    <3>2. i \in Jobs /\ WillFail(w, i)'
      BY <3>1 DEF ChainInv, TypeInv, SlotsOK, SlotOK, Failing, WillFail
    <3>3. WillFail(w, i)
      BY <1>4, <3>1, <3>2 DEF FailureSource
    <3>4. wk[w].pc \in Failing /\ wk[w].bull = i
      BY <3>3 DEF WillFail
    <3>5. wk[w].err = "plain"
      BY <1>4, <3>1, <3>3, <3>4, JobOfFailing DEF WillFail, Has, Live, Failing
    <3> QED
      BY <3>1, <3>4, <3>5 DEF Stopped
  <2>7. \A v \in Workers : v # w /\ Has(wk'[v], j[1]) => WillFail(v, j)'
    BY DEF Stopped, Others, WillFail, Last
  <2> QED
    BY <1>2, <2>3, <2>4, <2>5, <2>6, <2>7 DEF Stopped
<1> QED
  BY <1>3, <1>4

\* A slot that merges a chain keeps its token until it is done, and loses it then.
MergeEnds(w) ==
    wk[w].pc = "merge" =>
        (wk'[w].pc = "merge" /\ wk'[w].add = wk[w].add) \/ Ahead(w, 2 * NumSteps + 1)

LEMMA MergingStops ==
    ASSUME CleanRuns, ChainInv, NEW w \in Workers, SlotStep(w), Others(w), StoredStays
    PROVE  MergeEnds(w)
<1> SUFFICES ASSUME wk[w].pc = "merge" PROVE MergeEnds(w)
  BY DEF MergeEnds
<1>1. /\ wk[w] \in WorkerState /\ wk \in [Workers -> WorkerState] /\ SlotChain(wk[w])
      /\ SlotOK(wk[w])
  BY DEF ChainInv, TypeInv, TypeOK, SlotsInChain, SlotsOK
<1>2. MergeWrite(w)
  <2>1. wk[w] # Idle
    BY DEF Idle
  <2>2. ~RunJobStep(w) /\ ~EnqueueLost(w) /\ ~Crash(w)
    BY <2>1 DEF RunJobStep, Receive, FindFollower, NoFollower, MarkRunning, SendNothing, Deliver,
           ReadBatch, WriteBatch, FilterOut, SendThrows, DeliverThrows, MarkCompleted, QueueNext,
           Reject, HandleFailed, At, EnqueueLost, Crash, CleanRuns
  <2>3. AddJobStep(w) => MergeWrite(w)
    BY <2>1 DEF AddJobStep, StoreJobs, AddPlain, AddDelay, AddDelayMisconfigured, AddThrows,
         DigestFiltered, DecideSkip, DecideCreate, DecideMerge, Claim, Skip, Enqueue, Adding
  <2> QED
    BY <2>2, <2>3 DEF SlotStep
<1>3. waiting' = waiting /\ (Return(w, "none") \/ \E T : wk' = [wk EXCEPT ![w].todo = T])
  BY <1>2 DEF MergeWrite, Merged
<1>4. Return(w, "none") => Ahead(w, 2 * NumSteps + 1)
  BY <1>1, <1>3, ReturnMoves, KeepsAhead DEF CleanRuns, Errors, Sched, Has
<1>5. ~Return(w, "none") => wk'[w].pc = "merge" /\ wk'[w].add = wk[w].add
  <2> SUFFICES ASSUME NEW T, wk' = [wk EXCEPT ![w].todo = T]
               PROVE  wk'[w].pc = "merge" /\ wk'[w].add = wk[w].add
    BY <1>3
  <2> QED
    BY <1>1 DEF WorkerState
<1> QED
  BY <1>4, <1>5 DEF MergeEnds

LEMMA UntouchedStays ==
    ASSUME StopInv, NEW w \in Workers, Others(w), Onward(w), StatusWrites(w), MergeEnds(w)
    PROVE  Untouched'
<1>1. ChainInv /\ FailedBehind /\ Untouched
  BY DEF StopInv
<1> SUFFICES ASSUME NEW n \in Notifs, NEW p \in Nat, Token(n, p)', Stored(n)',
                    \A v \in Workers : ~(wk'[v].pc = "merge" /\ wk'[v].add[1] = n),
                    NEW t \in Steps, p < 2 * t
             PROVE  status'[<<n, t>>] \in {"pending", "canceled"}
  BY DEF Untouched
<1> PICK j : j = <<n, t>>
  OBVIOUS
<1>2. j \in Jobs /\ j[1] = n /\ j[2] = t /\ t \in Nat /\ NumSteps \in Nat /\ t <= NumSteps
  BY StepAssumption DEF Jobs, Steps
<1>3. PICK q \in Nat : q <= p /\ Token(n, q)
  BY <1>1, TokenBefore DEF Onward
<1>4. CASE Stored(n)
  <2>1. \A v \in Workers : ~(wk[v].pc = "merge" /\ wk[v].add[1] = n)
    <3> SUFFICES ASSUME NEW v \in Workers, wk[v].pc = "merge", wk[v].add[1] = n PROVE FALSE
      OBVIOUS
    <3>1. v = w
      BY DEF Others
    <3>2. Ahead(w, 2 * NumSteps + 1) /\ Has(wk[w], n)
      BY <3>1, JobOfSched DEF MergeEnds, Has, Sched
    <3> QED
      BY <1>2, <3>2 DEF Ahead
  <2>2. status[j] \in {"pending", "canceled"}
    <3>1. q < 2 * t
      BY <1>2, <1>3
    <3> QED
      BY <1>1, <1>3, <1>4, <2>1, <3>1 DEF Untouched
  <2>3. ~(Has(wk[w], j[1]) /\ Ahead(w, 2 * j[2]))
    BY <1>2 DEF Ahead
  <2>4. ~(wk[w].pc \in Failing /\ wk[w].err = "plain" /\ wk[w].bull = j)
    <3> SUFFICES ASSUME wk[w].pc \in Failing, wk[w].err = "plain", wk[w].bull = j PROVE FALSE
      OBVIOUS
    <3>1. q > 2 * t
      BY <1>1, <1>2, <1>3 DEF FailedBehind, Trails
    <3> QED
      BY <1>2, <1>3, <3>1
  <2> QED
    BY <1>2, <1>4, <2>2, <2>3, <2>4 DEF StatusWrites
<1>5. CASE ~Stored(n)
  \* The notification is stored by this step.
  <2>1. PICK i : i = <<n, 1>>
    OBVIOUS
  <2>2. i \in Jobs /\ i[1] = n /\ i[2] = 1 /\ status[i] # status'[i]
    BY <1>5, <2>1, StepAssumption DEF Stored, Jobs, Steps
  <2>3. ~Has(wk[w], n)
    BY <1>1, <1>5, OnlyToken
  <2>4. ~(wk[w].pc \in Failing /\ wk[w].err = "plain" /\ wk[w].bull = i)
    <3> SUFFICES ASSUME wk[w].pc \in Failing, wk[w].err = "plain", wk[w].bull = i PROVE FALSE
      OBVIOUS
    <3>1. Token(n, 1)
      BY <1>5 DEF Token
    <3> QED
      BY <1>1, <2>2, <3>1 DEF FailedBehind, Trails
  <2> QED
    BY <2>2, <2>3, <2>4 DEF StatusWrites
<1> QED
  BY <1>4, <1>5

LEMMA StopStep ==
    ASSUME CleanRuns, StopsAreClean, StopInv, ChainInv', NEW w \in Workers, SlotStep(w)
    PROVE  StopInv'
<1>1. ChainInv /\ AttemptsOK /\ FailedBehind /\ SlotStops(wk[w])
  BY DEF StopInv
<1>2. ~Crash(w)
  BY DEF Crash, CleanRuns
<1>3. Others(w) /\ StoredStays
  BY <1>1, <1>2, AddJobSteady, RunJobSteady, EnqueueLostSteady, EndMoves
     DEF SlotStep, CleanRuns, Steady, Moves, Keeps, Puts, Takes, Starts
<1>4. Onward(w)
  BY <1>1, <1>2, AddJobOnward, RunJobOnward, EnqueueLostOnward DEF SlotStep
<1>5. StatusWrites(w) /\ FailureSource(w) /\ SlotStops(wk'[w])
  <2>1. ASSUME EnqueueLost(w) PROVE StatusWrites(w) /\ FailureSource(w) /\ SlotStops(wk'[w])
    <3>1. wk[w].pc \in Sched /\ Return(w, "none") /\ status' = status
      BY <2>1 DEF EnqueueLost, Sched, db
    <3>2. StatusWrites(w)
      BY <3>1 DEF StatusWrites
    <3>3. FailureSource(w) /\ SlotStops(wk'[w])
      BY <1>1, <3>1, ReturnStops DEF Errors
    <3> QED
      BY <3>2, <3>3
  <2> QED
    BY <1>1, <1>2, <1>4, <2>1, AddJobWrites, RunJobWrites, AddJobStops, RunJobStops DEF SlotStep
<1>6. Untouched'
  BY <1>1, <1>3, <1>4, <1>5, MergingStops, UntouchedStays
<1>7. AttemptsOK' /\ FailedBehind'
  BY <1>1, <1>3, <1>4, FailedBehindKept DEF Onward, AttemptsOK, Others
<1>8. NoPromotion'
  <2>1. cc' = cc
    BY DEF SlotStep, AddJobStep, StoreJobs, AddPlain, AddDelay, AddDelayMisconfigured,
           AddThrows, DigestFiltered, DecideSkip, DecideCreate, DecideMerge, Claim, MergeWrite, Skip,
           Enqueue, EnqueueLost, Crash, RunJobStep, Receive, FindFollower, NoFollower,
           MarkRunning, SendNothing, Deliver, ReadBatch, WriteBatch, FilterOut, SendThrows,
           DeliverThrows, MarkCompleted, QueueNext, Reject, HandleFailed
  <2>2. \A j \in Jobs : status[j] # "absent" => status'[j] # "absent"
    <3>1. \/ status' = status
          \/ \E n : status' = [j \in Jobs |-> IF j[1] = n THEN "pending" ELSE status[j]]
          \/ \E i, s : s # "absent" /\ status' = [status EXCEPT ![i] = s]
      BY <1>2 DEF SlotStep, AddJobStep, StoreJobs, AddPlain, AddDelay, AddDelayMisconfigured,
           AddThrows, DigestFiltered, DecideSkip, DecideCreate, DecideMerge, Claim, MergeWrite, Skip,
           Enqueue, EnqueueLost, RunJobStep, Receive, FindFollower, NoFollower,
           MarkRunning, SendNothing, Deliver, ReadBatch, WriteBatch, FilterOut, SendThrows,
           DeliverThrows, MarkCompleted, QueueNext, Reject, HandleFailed, SetStatus, db
    <3> QED
      BY <1>1, <3>1 DEF ChainInv, TypeInv, TypeOK
  <2>3. \A x \in Cancelled : cc[x].ids \subseteq Jobs
    BY <1>1 DEF ChainInv, TypeInv, TypeOK, CancelState
  <2> QED
    BY <2>1, <2>2, <2>3 DEF StopInv, NoPromotion, DigestSteps
<1>9. \A v \in Workers : SlotStops(wk'[v])
  BY <1>3, <1>5 DEF StopInv, Others
<1>10. ASSUME NEW j \in Jobs, Stops(j)' PROVE Stopped(j)'
  <2>1. j[2] \in StopOnFail /\ HasChild(j)
    BY <1>10 DEF Stops, HasChild
  <2>2. CASE Stops(j)
    BY <1>3, <1>4, <1>5, <2>1, <2>2, StopStays DEF StopInv
  <2>3. CASE ~Stops(j)
    <3>1. status'[j] # "failed"
      <4> SUFFICES ASSUME status'[j] = "failed" PROVE FALSE
        OBVIOUS
      <4>1. status[j] # "failed"
        BY <2>1, <2>3 DEF Stops
      <4>2. HandleFailed(w) /\ wk[w].bull = j
        BY <1>2, <4>1 DEF SlotStep, AddJobStep, StoreJobs, AddPlain, AddDelay,
           AddDelayMisconfigured, AddThrows, DigestFiltered, DecideSkip, DecideCreate, DecideMerge,
           Claim, MergeWrite, Skip, Enqueue, EnqueueLost, RunJobStep, Receive, FindFollower,
           NoFollower, MarkRunning, SendNothing, Deliver, ReadBatch, WriteBatch, FilterOut,
           SendThrows, DeliverThrows, MarkCompleted, QueueNext, Reject, HandleFailed, SetStatus, db,
           ChainInv, TypeInv, TypeOK
      <4>3. WillFail(w, j)
        BY <1>1, <4>1, <4>2 DEF HandleFailed, At, WillFail, Last, Failing, ChainInv, TypeInv, TypeOK,
           SlotsInChain, SlotChain, WorkerState, Errors
      <4> QED
        BY <2>1, <2>3, <4>3 DEF Stops
    <3>2. PICK v \in Workers : WillFail(v, j)'
      BY <1>10, <3>1 DEF Stops
    <3>3. ~WillFail(v, j)
      BY <2>1, <2>3 DEF Stops
    <3>4. v = w
      BY <1>3, <3>2, <3>3 DEF WillFail, Last, Others
    <3> QED
      BY <1>3, <1>5, <2>1, <3>2, <3>3, <3>4, StopBegins
  <2> QED
    BY <2>2, <2>3
<1> QED
  BY <1>6, <1>7, <1>8, <1>9, <1>10 DEF StopInv

LEMMA OtherStepKeepsStop ==
    ASSUME CleanRuns, StopInv, ChainInv',
           \/ \E x \in Cancelled : CancelStep(x)
           \/ \E g \in Groups : LockExpires(g) \/ DeadLockExpires(g)
           \/ UNCHANGED vars
    PROVE  StopInv'
<1>1. wk' = wk /\ waiting' = waiting
  BY DEF CancelStep, CancelFind, CancelFindPending, CancelWrite, FindNextMain, NoNextMain, Promote,
         PromoteChild, Repoint, LockExpires, DeadLockExpires, vars
<1>2. /\ ChainInv /\ status \in [Jobs -> Statuses] /\ cc \in [Cancelled -> CancelState]
  BY DEF StopInv, ChainInv, TypeInv, TypeOK
\* A cancel call cancels jobs that are stored, and nothing more.
<1>3. ASSUME NEW x \in Cancelled, CancelStep(x)
      PROVE  /\ \A j \in Jobs : status'[j] = status[j] \/ (status'[j] = "canceled" /\ status[j] # "absent")
             /\ cc'[x].pc \in {"off", "pending", "write", "done"} /\ cc'[x].main = NoJob
             /\ \A j \in cc'[x].ids : status[j] # "absent"
             /\ \A y \in Cancelled : y # x => cc'[y] = cc[y]
  <2>1. /\ DigestSteps = {} /\ cc[x].main = NoJob /\ cc[x].pc \in {"off", "pending", "write", "done"}
        /\ \A j \in cc[x].ids : status[j] # "absent"
    BY <1>3 DEF CleanRuns, Calm, NoDigestIsCancelled, StopInv, NoPromotion
  <2>2. CancelFind(x) \/ CancelFindPending(x) \/ CancelWrite(x)
    BY <1>3, <2>1 DEF CancelStep, FindNextMain, NoNextMain, Promote, PromoteChild, Repoint, CancelAt
  <2>3. \A y \in Cancelled : y # x => cc'[y] = cc[y]
    BY <1>2, <2>2 DEF CancelFind, CancelFindPending, CancelWrite
  <2>4. CASE CancelFind(x)
    <3> DEFINE found == JobsOf(x) \cap WithStatus({"delayed", "merged"})
               next == IF \E j \in found : IsAction(j) THEN "pending" ELSE "write"
               r == [cc[x] EXCEPT !.pc = next, !.ids = found, !.main = NoJob]
    <3>1. \A j \in Jobs : ~IsDigest(j)
      BY <2>1, JobFacts DEF DigestSteps, IsDigest, TypeOf
    <3>2. {j \in found : IsDigest(j) /\ status[j] = "delayed"} = {}
      BY <3>1 DEF JobsOf
    <3>3. cc' = [cc EXCEPT ![x] = r] /\ status' = status
      BY <2>4, <3>2 DEF CancelFind, db
    <3>4. r.pc \in {"pending", "write"} /\ r.ids = found /\ r.main = NoJob
      BY <1>2 DEF CancelState
    <3> HIDE DEF r
    <3>5. \A j \in found : status[j] # "absent"
      BY DEF WithStatus
    <3> QED
      BY <1>2, <2>3, <3>3, <3>4, <3>5
  <2>5. CASE CancelFindPending(x)
    <3> DEFINE ids == cc[x].ids \cup (JobsOf(x) \cap WithStatus({"pending"}))
               r == [cc[x] EXCEPT !.pc = "write", !.ids = ids]
    <3>1. cc' = [cc EXCEPT ![x] = r] /\ status' = status
      BY <2>5 DEF CancelFindPending, db
    <3>2. r.pc = "write" /\ r.ids = ids /\ r.main = cc[x].main
      BY <1>2 DEF CancelState
    <3> HIDE DEF r
    <3>3. \A j \in ids : status[j] # "absent"
      BY <2>1 DEF WithStatus
    <3> QED
      BY <1>2, <2>1, <2>3, <3>1, <3>2, <3>3
  <2>6. CASE CancelWrite(x)
    <3> DEFINE r == [cc[x] EXCEPT !.pc = "done"]
    <3>1. /\ cc' = [cc EXCEPT ![x] = r]
          /\ status' = [j \in Jobs |-> IF j \in cc[x].ids THEN "canceled" ELSE status[j]]
      BY <2>1, <2>6 DEF CancelWrite
    <3>2. r.pc = "done" /\ r.ids = cc[x].ids /\ r.main = cc[x].main
      BY <1>2 DEF CancelState
    <3> HIDE DEF r
    <3> QED
      BY <1>2, <2>1, <2>3, <3>1, <3>2
  <2> QED
    BY <2>2, <2>4, <2>5, <2>6
<1>4. \A j \in Jobs : status'[j] = status[j] \/ (status'[j] = "canceled" /\ status[j] # "absent")
  <2>1. CASE ~(\E x \in Cancelled : CancelStep(x))
    BY <2>1 DEF LockExpires, DeadLockExpires, vars, db
  <2> QED
    BY <1>3, <2>1
<1>5. \A n \in Notifs : Stored(n)' <=> Stored(n)
  <2>1. \A n \in Notifs : <<n, 1>> \in Jobs
    BY StepAssumption DEF Jobs, Steps
  <2> QED
    BY <1>4, <2>1 DEF Stored
<1>6. \A n \in Notifs : \A p : Token(n, p)' <=> Token(n, p)
  BY <1>1, <1>5 DEF Token
<1>7. AttemptsOK' /\ \A w \in Workers : SlotStops(wk'[w])
  BY <1>1 DEF StopInv, AttemptsOK, QueueAttempts
<1>8. FailedBehind'
  <2> SUFFICES ASSUME NEW v \in Workers, wk[v].pc \in Failing, wk[v].err = "plain", NEW p \in Nat,
                      NEW n, n = wk[v].bull[1], Token(n, p)'
               PROVE  p > 2 * wk[v].bull[2]
    BY <1>1 DEF FailedBehind, Trails
  <2>1. n \in Notifs
    BY <1>2, JobFacts DEF ChainInv, TypeInv, SlotsOK, SlotOK, Failing
  <2> QED
    BY <1>6, <2>1 DEF StopInv, FailedBehind, Trails
<1>9. Untouched'
  <2> SUFFICES ASSUME NEW n \in Notifs, NEW p \in Nat, Token(n, p), Stored(n),
                      ~(\E v \in Workers : wk[v].pc = "merge" /\ wk[v].add[1] = n),
                      NEW t \in Steps, p < 2 * t
               PROVE  status'[<<n, t>>] \in {"pending", "canceled"}
    BY <1>1, <1>5, <1>6 DEF Untouched
  <2>1. <<n, t>> \in Jobs /\ status[<<n, t>>] \in {"pending", "canceled"}
    BY DEF StopInv, Untouched, Jobs
  <2> QED
    BY <1>4, <2>1
<1>10. NoPromotion'
  <2>1. CASE \E x \in Cancelled : CancelStep(x)
    <3>1. PICK x \in Cancelled : CancelStep(x)
      BY <2>1
    <3>2. \A j : status[j] # "absent" /\ j \in Jobs => status'[j] # "absent"
      BY <1>4
    <3>3. \A y \in Cancelled : cc[y].ids \subseteq Jobs /\ cc'[y].ids \subseteq Jobs
      BY <1>2 DEF CancelState, ChainInv, TypeInv, TypeOK
    <3>4. \A y \in Cancelled : \A j \in cc'[y].ids : status'[j] # "absent"
      BY <1>3, <3>1, <3>2, <3>3 DEF StopInv, NoPromotion
    <3> QED
      BY <1>3, <3>1, <3>4 DEF StopInv, NoPromotion, DigestSteps
  <2>2. CASE ~(\E x \in Cancelled : CancelStep(x))
    BY <2>2 DEF LockExpires, DeadLockExpires, vars, db, StopInv, NoPromotion, DigestSteps
  <2> QED
    BY <2>1, <2>2
<1>11. ASSUME NEW j \in Jobs, Stops(j)' PROVE Stopped(j)'
  <2>1. Stops(j) /\ HasChild(j)
    <3>1. status'[j] = "failed" => status[j] = "failed"
      BY <1>4
    <3> QED
      BY <1>1, <1>11, <3>1 DEF Stops, WillFail, Last, HasChild
  <2>2. Child(j) \in Jobs
    BY <2>1, JobFacts, StepAssumption DEF HasChild, Child, Steps, Jobs
  <2>3. Stopped(j)
    BY <2>1 DEF StopInv
  <2> QED
    BY <1>1, <1>4, <1>5, <2>2, <2>3, JobFacts DEF Stopped, NoDelivery, WillFail, Last
<1> QED
  BY <1>7, <1>8, <1>9, <1>10, <1>11 DEF StopInv

LEMMA StopInit == Init => StopInv
<1> SUFFICES ASSUME Init PROVE StopInv
  OBVIOUS
<1>1. /\ \A w \in Workers : wk[w] = Idle
      /\ \A j \in Jobs : status[j] = "absent"
      /\ \A j \in Jobs, a \in 0..MaxStarts : waiting[j][a] = 0
      /\ \A x \in Cancelled : cc[x] = NoCancel
  BY DEF Init
<1>2. \A w \in Workers : SlotStops(wk[w])
  BY <1>1 DEF Idle, SlotStops, Sched
<1>3. AttemptsOK /\ FailedBehind
  BY <1>1, IdleIsFree DEF AttemptsOK, QueueAttempts, SlotAttempts, FailedBehind, Trails, Failing
<1>4. Untouched
  <2>1. \A n \in Notifs : <<n, 1>> \in Jobs
    BY StepAssumption DEF Jobs, Steps
  <2> QED
    BY <1>1, <2>1 DEF Untouched, Stored
<1>5. NoPromotion
  BY <1>1 DEF NoPromotion, NoCancel
<1>6. \A j \in Jobs : ~Stops(j)
  BY <1>1 DEF Stops, WillFail, Idle, Failing
<1> QED
  BY <1>2, <1>3, <1>4, <1>5, <1>6, ChainInit DEF StopInv

\* Nothing follows a step with shouldStopOnFail that has failed: neither RunJob nor the
\* handler of the last failure schedules the next job, and the chain is never taken up again.
\* Locks may expire, enqueues be lost, webhooks be retried, and delays be cancelled.
THEOREM StopsAreRespected ==
    ASSUME CleanRuns, StopsAreClean
    PROVE  Spec => []StopIsRespected
<1>1. StopInv /\ [Next]_vars => StopInv'
  <2> SUFFICES ASSUME StopInv, [Next]_vars PROVE StopInv'
    OBVIOUS
  <2>1. ChainInv'
    BY ChainStep DEF StopInv, CleanRuns
  <2> QED
    BY <2>1, StopStep, OtherStepKeepsStop DEF Next, Environment, SlotStep
<1>2. StopInv => StopIsRespected
  BY DEF StopInv, Stops, Stopped, StopIsRespected, WithStatus
<1> QED
  BY <1>1, <1>2, StopInit, PTL DEF Spec
=============================================================================
