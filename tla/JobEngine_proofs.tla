-------------------------- MODULE JobEngine_proofs --------------------------
(***************************************************************************)
(* Proofs about the workflow engine.  First its type correctness, with the *)
(* control states in which the local variables of a slot or of a cancel    *)
(* call hold a job.                                                        *)
(***************************************************************************)
EXTENDS JobEngine, TLAPS

\* Where a worker slot has a job to add, a job to run, or a delivery to settle.
SlotOK(r) ==
    /\ r.pc \in {"add", "skip", "claim", "merge", "enqueue"} => r.add \in Jobs
    /\ r.pc \in {"mark", "send", "digest", "complete", "next"} => r.cur \in Jobs
    /\ r.phase = "run" \/ r.pc \in {"follow", "mark", "send", "digest", "complete", "reject", "failed"}
          => r.bull \in Jobs

\* Where a cancel call has a main digest, or the follower that replaces it.
CallOK(r) ==
    /\ r.pc = "find" => r.main \in Jobs
    /\ r.pc \in {"promote", "children", "repoint"} => r.next \in Jobs

SlotsOK == \A w \in Workers : SlotOK(wk[w])

CallsOK == \A x \in Cancelled : CallOK(cc[x])

TypeInv == TypeOK /\ SlotsOK /\ CallsOK

-----------------------------------------------------------------------------
LEMMA JobFacts ==
    ASSUME NEW j \in Jobs
    PROVE  /\ j[1] \in Notifs /\ j[2] \in Steps /\ j[2] \in Nat
           /\ \A s \in Steps : <<j[1], s>> \in Jobs
           /\ HasChild(j) => Child(j) \in Jobs
           /\ j[2]..NumSteps \subseteq Steps
           /\ j[2] + 1 .. NumSteps \subseteq Steps
           /\ GroupOf[j[1]] \in Groups
BY StepAssumption, NotifAssumption DEF Jobs, Steps, HasChild, Child

LEMMA MaxStartsNat == MaxStarts \in Nat
BY EnvironmentAssumption DEF MaxStarts, DefaultAttempts

LEMMA CountUpdate ==
    ASSUME NEW S, NEW f \in [S -> Nat], NEW a, NEW k, a \in S => k \in Nat
    PROVE  [f EXCEPT ![a] = k] \in [S -> Nat]
OBVIOUS

\* One more delivery, or one less, leaves the queue well-typed.
LEMMA PushOK ==
    ASSUME waiting \in [Jobs -> [0..MaxStarts -> Nat]], NEW j, NEW made, Push(j, made)
    PROVE  waiting' \in [Jobs -> [0..MaxStarts -> Nat]]
<1> SUFFICES ASSUME NEW i \in Jobs PROVE waiting'[i] \in [0..MaxStarts -> Nat]
  BY DEF Push
<1>1. waiting[i] \in [0..MaxStarts -> Nat]
  OBVIOUS
<1>2. CASE i = j
  <2>1. waiting'[i] = [waiting[i] EXCEPT ![made] = waiting[i][made] + 1]
    BY <1>2 DEF Push
  <2>2. made \in 0..MaxStarts => waiting[i][made] + 1 \in Nat
    BY <1>1
  <2> QED
    BY <1>1, <2>1, <2>2, CountUpdate
<1>3. CASE i # j
  BY <1>1, <1>3 DEF Push
<1> QED
  BY <1>2, <1>3

LEMMA TakeOK ==
    ASSUME waiting \in [Jobs -> [0..MaxStarts -> Nat]], NEW j, NEW made,
           waiting[j][made] > 0, waiting' = [waiting EXCEPT ![j][made] = @ - 1]
    PROVE  waiting' \in [Jobs -> [0..MaxStarts -> Nat]]
<1> SUFFICES ASSUME NEW i \in Jobs PROVE waiting'[i] \in [0..MaxStarts -> Nat]
  OBVIOUS
<1>1. waiting[i] \in [0..MaxStarts -> Nat]
  OBVIOUS
<1>2. CASE i = j
  <2>1. waiting'[i] = [waiting[i] EXCEPT ![made] = waiting[i][made] - 1]
    BY <1>2
  <2>2. made \in 0..MaxStarts => waiting[i][made] - 1 \in Nat
    BY <1>1, <1>2
  <2> QED
    BY <1>1, <2>1, <2>2, CountUpdate
<1>3. CASE i # j
  BY <1>1, <1>3
<1> QED
  BY <1>2, <1>3

\* A step that only replaces the record of one slot keeps the slots well-typed when the
\* new record is.
LEMMA SlotUpdate ==
    ASSUME NEW w \in Workers, NEW r \in WorkerState, SlotOK(r),
           wk \in [Workers -> WorkerState], SlotsOK,
           wk' = [wk EXCEPT ![w] = r]
    PROVE  wk' \in [Workers -> WorkerState] /\ SlotsOK'
BY DEF SlotsOK

LEMMA IdleOK == Idle \in WorkerState /\ SlotOK(Idle)
BY MaxStartsNat DEF Idle, WorkerState, WorkerPCs, Errors, SlotOK, Jobs

LEMMA CallUpdate ==
    ASSUME NEW x \in Cancelled, NEW r \in CancelState, CallOK(r),
           cc \in [Cancelled -> CancelState], CallsOK,
           cc' = [cc EXCEPT ![x] = r]
    PROVE  cc' \in [Cancelled -> CancelState] /\ CallsOK'
BY DEF CallsOK

\* The way back from AddJob keeps the slots well-typed.
LEMMA ReturnOK ==
    ASSUME NEW w \in Workers, NEW e \in Errors, Return(w, e),
           wk \in [Workers -> WorkerState], SlotsOK
    PROVE  wk' \in [Workers -> WorkerState] /\ SlotsOK'
<1> DEFINE thrown == IF e = "none" THEN wk[w].err ELSE e
           rej == [wk[w] EXCEPT !.pc = "reject", !.err = thrown]
<1>1. CASE wk[w].phase = "run" /\ thrown # "none"
  <2>1. wk' = [wk EXCEPT ![w] = rej]
    BY <1>1 DEF Return
  <2>2. rej \in WorkerState /\ SlotOK(rej)
    BY <1>1 DEF WorkerState, WorkerPCs, SlotsOK, SlotOK
  <2> QED
    BY <2>1, <2>2, SlotUpdate
<1>2. CASE ~(wk[w].phase = "run" /\ thrown # "none")
  <2>1. wk' = [wk EXCEPT ![w] = Idle]
    BY <1>2 DEF Return
  <2> QED
    BY <2>1, IdleOK, SlotUpdate
<1> QED
  BY <1>1, <1>2

LEMMA InFlightOK ==
    ASSUME NEW d
    PROVE  InFlight(d) \subseteq Jobs
BY DEF InFlight

LEMMA TypeInit == Init => TypeInv
<1> SUFFICES ASSUME Init PROVE TypeInv
  OBVIOUS
<1>1. TypeOK
  BY IdleOK, MaxStartsNat, EnvironmentAssumption
     DEF Init, TypeOK, Statuses, Steps, NoCancel, CancelState, CancelPCs
<1>2. SlotsOK
  BY IdleOK DEF Init, SlotsOK
<1>3. CallsOK
  BY DEF Init, CallsOK, CallOK, NoCancel
<1> QED
  BY <1>1, <1>2, <1>3 DEF TypeInv

-----------------------------------------------------------------------------
(* AddJob.                                                                  *)

LEMMA AddJobType ==
    ASSUME TypeInv, NEW w \in Workers, AddJobStep(w)
    PROVE  TypeInv'
<1> USE DEF TypeInv, TypeOK
<1> wk[w] \in WorkerState /\ SlotOK(wk[w])
  BY DEF SlotsOK
<1>1. ASSUME NEW n \in Notifs, StoreJobs(w, n) PROVE TypeInv'
  <2> DEFINE r == [Idle EXCEPT !.pc = "add", !.add = <<n, 1>>]
  <2>1. r \in WorkerState /\ SlotOK(r)
    <3>1. <<n, 1>> \in Jobs
      BY StepAssumption DEF Jobs, Steps
    <3>2. Idle.phase = "store"
      BY DEF Idle
    <3>3. r \in WorkerState
      BY <3>1, IdleOK DEF WorkerState, WorkerPCs
    <3>4. r.pc = "add" /\ r.add = <<n, 1>> /\ r.phase = "store"
      BY <3>2, IdleOK DEF WorkerState
    <3> QED
      BY <3>1, <3>3, <3>4 DEF SlotOK
  <2>2. wk' \in [Workers -> WorkerState] /\ SlotsOK'
    BY <1>1, <2>1, SlotUpdate DEF StoreJobs
  <2>3. status' \in [Jobs -> Statuses]
    BY <1>1 DEF StoreJobs, Statuses
  <2> QED
    BY <1>1, <2>2, <2>3 DEF StoreJobs, CallsOK, history
<1>2. ASSUME AddPlain(w) PROVE TypeInv'
  <2>1. wk' \in [Workers -> WorkerState] /\ SlotsOK'
    BY <1>2, SlotUpdate DEF AddPlain, GoTo, WorkerState, WorkerPCs, SlotOK
  <2> QED
    BY <1>2, <2>1 DEF AddPlain, SetStatus, Statuses, CallsOK, history
<1>3. ASSUME AddDelay(w) PROVE TypeInv'
  <2>1. wk' \in [Workers -> WorkerState] /\ SlotsOK'
    BY <1>3, SlotUpdate DEF AddDelay, Adding, GoTo, WorkerState, WorkerPCs, SlotOK
  <2> QED
    BY <1>3, <2>1 DEF AddDelay, SetStatus, Statuses, CallsOK, history
<1>4. ASSUME AddDelayMisconfigured(w) PROVE TypeInv'
  <2>1. wk' \in [Workers -> WorkerState] /\ SlotsOK'
    BY <1>4, ReturnOK DEF AddDelayMisconfigured, Errors
  <2> QED
    BY <1>4, <2>1 DEF AddDelayMisconfigured, SetStatus, Statuses, CallsOK, history
<1>5. ASSUME AddThrows(w) PROVE TypeInv'
  <2>1. wk' \in [Workers -> WorkerState] /\ SlotsOK'
    BY <1>5, ReturnOK DEF AddThrows, Errors, ErrorsOf
  <2> QED
    BY <1>5, <2>1 DEF AddThrows, db, history, CallsOK
<1>6. ASSUME DigestFiltered(w) PROVE TypeInv'
  <2>1. wk' \in [Workers -> WorkerState] /\ SlotsOK'
    BY <1>6, SlotUpdate DEF DigestFiltered, Adding, GoTo, WorkerState, WorkerPCs, SlotOK
  <2> QED
    BY <1>6, <2>1 DEF DigestFiltered, db, history, CallsOK
<1>7. ASSUME DecideSkip(w) PROVE TypeInv'
  <2>1. wk' \in [Workers -> WorkerState] /\ SlotsOK'
    BY <1>7, SlotUpdate DEF DecideSkip, Adding, GoTo, WorkerState, WorkerPCs, SlotOK
  <2> QED
    BY <1>7, <2>1 DEF DecideSkip, db, history, CallsOK
<1>8. ASSUME DecideCreate(w) PROVE TypeInv'
  <2>1. wk' \in [Workers -> WorkerState] /\ SlotsOK'
    BY <1>8, SlotUpdate DEF DecideCreate, Adding, GoTo, WorkerState, WorkerPCs, SlotOK
  <2> QED
    BY <1>8, <2>1 DEF DecideCreate, db, history, CallsOK
<1>9. ASSUME DecideMerge(w) PROVE TypeInv'
  <2>1. PICK d \in OpenDigests(GroupOf[wk[w].add[1]]) :
           wk' = [wk EXCEPT ![w].pc = "merge", ![w].hit = d, ![w].todo = wk[w].add[2]..NumSteps]
    BY <1>9 DEF DecideMerge
  <2> DEFINE r == [wk[w] EXCEPT !.pc = "merge", !.hit = d, !.todo = wk[w].add[2]..NumSteps]
  <2>2. d \in Jobs /\ wk[w].add \in Jobs
    BY <1>9 DEF DecideMerge, Adding, SlotOK, OpenDigests, WithStatus
  <2>3. r \in WorkerState /\ SlotOK(r)
    BY <2>2, JobFacts, Zenon DEF WorkerState, WorkerPCs, SlotOK
  <2>4. wk' = [wk EXCEPT ![w] = r]
    BY <2>1
  <2>5. wk' \in [Workers -> WorkerState] /\ SlotsOK'
    BY <2>3, <2>4, SlotUpdate
  <2> QED
    BY <1>9, <2>5 DEF DecideMerge, db, history, CallsOK
<1>10. ASSUME Claim(w) PROVE TypeInv'
  <2>1. wk' \in [Workers -> WorkerState] /\ SlotsOK'
    BY <1>10, SlotUpdate DEF Claim, GoTo, WorkerState, WorkerPCs, SlotOK
  <2> QED
    BY <1>10, <2>1 DEF Claim, SetStatus, Statuses, CallsOK, history
<1>11. ASSUME MergeWrite(w) PROVE TypeInv'
  <2>1. PICK s \in wk[w].todo :
           /\ status' = [status EXCEPT ![<<wk[w].add[1], s>>] = "merged"]
           /\ mergedInto' = [mergedInto EXCEPT ![<<wk[w].add[1], s>>] = wk[w].hit]
           /\ IF wk[w].todo = {s} THEN Merged(w) ELSE wk' = [wk EXCEPT ![w].todo = @ \ {s}]
    BY <1>11 DEF MergeWrite
  <2>2. wk' \in [Workers -> WorkerState] /\ SlotsOK'
    <3>1. CASE wk[w].todo = {s}
      BY <2>1, <3>1, ReturnOK DEF Merged, Errors
    <3>2. CASE wk[w].todo # {s}
      BY <2>1, <3>2, SlotUpdate DEF WorkerState, SlotOK
    <3> QED
      BY <3>1, <3>2
  <2>3. mergedInto' \in [Jobs -> Jobs \cup {NoJob}]
    BY <2>1 DEF WorkerState
  <2> QED
    BY <1>11, <2>1, <2>2, <2>3 DEF MergeWrite, Statuses, CallsOK, history
<1>12. ASSUME Skip(w) PROVE TypeInv'
  <2>1. wk' \in [Workers -> WorkerState] /\ SlotsOK'
    <3>1. CASE HasChild(wk[w].add)
      <4> DEFINE r == [wk[w] EXCEPT !.pc = "add", !.add = Child(wk[w].add)]
      <4>1. r \in WorkerState /\ SlotOK(r)
        BY <1>12, <3>1, JobFacts DEF Skip, WorkerState, WorkerPCs, SlotOK
      <4>2. wk' = [wk EXCEPT ![w] = r]
        BY <1>12, <3>1 DEF Skip, Skipped
      <4> QED
        BY <4>1, <4>2, SlotUpdate
    <3>2. CASE ~HasChild(wk[w].add)
      BY <1>12, <3>2, ReturnOK DEF Skip, Skipped, Errors
    <3> QED
      BY <3>1, <3>2
  <2> QED
    BY <1>12, <2>1 DEF Skip, SetStatus, Statuses, CallsOK, history
<1>13. ASSUME Enqueue(w) PROVE TypeInv'
  <2>1. wk' \in [Workers -> WorkerState] /\ SlotsOK'
    BY <1>13, ReturnOK DEF Enqueue, Errors
  <2>2. waiting' \in [Jobs -> [0..MaxStarts -> Nat]]
    BY <1>13, PushOK DEF Enqueue
  <2> QED
    BY <1>13, <2>1, <2>2 DEF Enqueue, db, history, CallsOK
<1> QED
  BY <1>1, <1>2, <1>3, <1>4, <1>5, <1>6, <1>7, <1>8, <1>9, <1>10, <1>11, <1>12, <1>13
     DEF AddJobStep

-----------------------------------------------------------------------------
(* RunJob.                                                                  *)

LEMMA SentOK ==
    ASSUME delivered \in [Steps -> [Notifs -> Nat]], NEW s, NEW batch, Sent(s, batch)
    PROVE  delivered' \in [Steps -> [Notifs -> Nat]]
<1> DEFINE row(i) == [n \in Notifs |-> IF n \in batch THEN delivered[i][n] + 1 ELSE delivered[i][n]]
<1>1. \A i \in Steps : row(i) \in [Notifs -> Nat]
  OBVIOUS
<1>2. delivered' = [delivered EXCEPT ![s] = row(s)]
  BY DEF Sent
<1> QED
  BY <1>1, <1>2

LEMMA RunJobType ==
    ASSUME TypeInv, NEW w \in Workers, RunJobStep(w)
    PROVE  TypeInv'
<1> USE DEF TypeInv, TypeOK
<1> wk[w] \in WorkerState /\ SlotOK(wk[w])
  BY DEF SlotsOK
<1>1. ASSUME NEW j \in Jobs, NEW a \in 0..MaxStarts, Receive(w, j, a) PROVE TypeInv'
  <2>1. a + 1 \in 0..MaxStarts
    BY <1>1, MaxStartsNat DEF Receive
  <2>2. Carries(j) \subseteq Notifs
    BY JobFacts DEF Carries
  <2> DEFINE run == [Idle EXCEPT !.phase = "run", !.bull = j, !.made = a + 1]
  <2>3. run \in WorkerState /\ run.phase = "run" /\ run.bull = j /\ run.pc = "idle"
    <3>1. run \in WorkerState
      BY <2>1, IdleOK DEF WorkerState
    <3>2. Idle.pc = "idle"
      BY DEF Idle
    <3> QED
      BY <3>1, <3>2, IdleOK DEF WorkerState
  <2>4. wk' \in [Workers -> WorkerState] /\ SlotsOK'
    <3> DEFINE mark == [run EXCEPT !.pc = "mark", !.cur = j, !.batch = Carries(j)]
               follow == [run EXCEPT !.pc = "follow"]
    <3>1. CASE wk' = [wk EXCEPT ![w] = mark]
      <4>1. mark \in WorkerState /\ mark.phase = "run" /\ mark.bull = j /\ mark.pc = "mark" /\ mark.cur = j
        <5> HIDE DEF run
        <5> QED
          BY <2>2, <2>3 DEF WorkerState, WorkerPCs
      <4> QED
        BY <3>1, <4>1, SlotUpdate DEF SlotOK
    <3>2. CASE wk' = [wk EXCEPT ![w] = follow]
      <4>1. follow \in WorkerState /\ follow.phase = "run" /\ follow.bull = j /\ follow.pc = "follow"
        <5> HIDE DEF run
        <5> QED
          BY <2>3 DEF WorkerState, WorkerPCs
      <4> QED
        BY <3>2, <4>1, SlotUpdate DEF SlotOK
    <3>3. CASE UNCHANGED wk
      BY <3>3 DEF SlotsOK
    <3> QED
      BY <1>1, <3>1, <3>2, <3>3 DEF Receive
  <2>5. waiting' \in [Jobs -> [0..MaxStarts -> Nat]]
    BY <1>1, TakeOK DEF Receive, HasDelivery
  <2> QED
    BY <1>1, <2>4, <2>5 DEF Receive, db, history, CallsOK
<1>2. ASSUME FindFollower(w) PROVE TypeInv'
  <2>1. PICK f \in ActiveFollowers(wk[w].bull) :
           wk' = [wk EXCEPT ![w].pc = "mark", ![w].cur = f, ![w].batch = Carries(f)]
    BY <1>2 DEF FindFollower
  <2>2. f \in Jobs
    BY DEF ActiveFollowers, OpenDigests, WithStatus
  <2>3. Carries(f) \subseteq Notifs
    BY <2>2, JobFacts DEF Carries
  <2> DEFINE r == [wk[w] EXCEPT !.pc = "mark", !.cur = f, !.batch = Carries(f)]
  <2>4. r \in WorkerState
    BY <2>2, <2>3 DEF WorkerState, WorkerPCs
  <2>5. r.pc = "mark" /\ r.cur = f /\ r.bull = wk[w].bull /\ r.phase = wk[w].phase
    BY DEF WorkerState
  <2>6. SlotOK(r)
    BY <1>2, <2>2, <2>5 DEF FindFollower, At, SlotOK
  <2>7. wk' \in [Workers -> WorkerState] /\ SlotsOK'
    BY <2>1, <2>4, <2>6, SlotUpdate
  <2> QED
    BY <1>2, <2>7 DEF FindFollower, db, history, CallsOK
<1>3. ASSUME NoFollower(w) PROVE TypeInv'
  <2>1. wk' \in [Workers -> WorkerState] /\ SlotsOK'
    BY <1>3, IdleOK, SlotUpdate DEF NoFollower
  <2> QED
    BY <1>3, <2>1 DEF NoFollower, db, history, CallsOK
<1>4. ASSUME MarkRunning(w) PROVE TypeInv'
  <2>1. wk' \in [Workers -> WorkerState] /\ SlotsOK'
    BY <1>4, SlotUpdate DEF MarkRunning, At, WorkerState, WorkerPCs, SlotOK
  <2> QED
    BY <1>4, <2>1 DEF MarkRunning, Statuses, CallsOK, history
<1>5. ASSUME SendNothing(w) PROVE TypeInv'
  <2>1. wk' \in [Workers -> WorkerState] /\ SlotsOK'
    BY <1>5, SlotUpdate DEF SendNothing, At, WorkerState, WorkerPCs, SlotOK
  <2> QED
    BY <1>5, <2>1 DEF SendNothing, db, history, CallsOK
<1>6. ASSUME Deliver(w) PROVE TypeInv'
  <2>1. wk' \in [Workers -> WorkerState] /\ SlotsOK'
    BY <1>6, SlotUpdate DEF Deliver, At, WorkerState, WorkerPCs, SlotOK
  <2> QED
    BY <1>6, <2>1, SentOK DEF Deliver, db, CallsOK
<1>7. ASSUME ReadBatch(w) PROVE TypeInv'
  <2>1. DigestEvents(wk[w].cur) \subseteq Notifs
    BY <1>7, JobFacts DEF ReadBatch, At, SlotOK, DigestEvents, Followers, WithStatus
  <2> DEFINE r == [wk[w] EXCEPT !.pc = "digest", !.batch = DigestEvents(wk[w].cur)]
  <2>2. wk' \in [Workers -> WorkerState] /\ SlotsOK'
    <3>1. r \in WorkerState
      BY <2>1 DEF WorkerState, WorkerPCs
    <3>2. SlotOK(r)
      BY <1>7 DEF ReadBatch, At, SlotOK, WorkerState
    <3> QED
      BY <1>7, <3>1, <3>2, SlotUpdate DEF ReadBatch
  <2> QED
    BY <1>7, <2>2, InFlightOK DEF ReadBatch, db, history, CallsOK
<1>8. ASSUME WriteBatch(w) PROVE TypeInv'
  <2>1. wk' \in [Workers -> WorkerState] /\ SlotsOK'
    BY <1>8, SlotUpdate DEF WriteBatch, At, WorkerState, WorkerPCs, SlotOK
  <2>2. events' \in [Jobs -> SUBSET Notifs]
    BY <1>8 DEF WriteBatch, WorkerState
  <2> QED
    BY <1>8, <2>1, <2>2 DEF WriteBatch, history, CallsOK
<1>9. ASSUME FilterOut(w) PROVE TypeInv'
  <2>1. wk' \in [Workers -> WorkerState] /\ SlotsOK'
    BY <1>9, SlotUpdate DEF FilterOut, At, WorkerState, WorkerPCs, SlotOK
  <2> QED
    BY <1>9, <2>1 DEF FilterOut, Statuses, CallsOK, history
<1>10. ASSUME NEW e \in Errors, At(w, "send"), Caught(w, e)
       PROVE  wk' \in [Workers -> WorkerState] /\ SlotsOK'
  <2>1. CASE StopsChain(wk[w].cur[2], e)
    <3>1. wk' = [wk EXCEPT ![w] = [wk[w] EXCEPT !.err = e, !.pc = "reject"]]
      BY <1>10, <2>1 DEF Caught
    <3> QED
      BY <1>10, <2>1, <3>1, SlotUpdate DEF At, WorkerState, WorkerPCs, SlotOK
  <2>2. CASE ~StopsChain(wk[w].cur[2], e)
    <3>1. wk' = [wk EXCEPT ![w] = [wk[w] EXCEPT !.err = e, !.pc = "next"]]
      BY <1>10, <2>2 DEF Caught
    <3> QED
      BY <1>10, <2>2, <3>1, SlotUpdate DEF At, WorkerState, WorkerPCs, SlotOK
  <2> QED
    BY <2>1, <2>2
<1>11. ASSUME SendThrows(w) PROVE TypeInv'
  <2>1. wk' \in [Workers -> WorkerState] /\ SlotsOK'
    BY <1>10, <1>11 DEF SendThrows, Errors, ErrorsOf
  <2> QED
    BY <1>11, <2>1 DEF SendThrows, db, history, CallsOK
<1>12. ASSUME DeliverThrows(w) PROVE TypeInv'
  <2>1. wk' \in [Workers -> WorkerState] /\ SlotsOK'
    BY <1>10, <1>12 DEF DeliverThrows, Errors
  <2> QED
    BY <1>12, <2>1, SentOK DEF DeliverThrows, db, CallsOK
<1>13. ASSUME MarkCompleted(w) PROVE TypeInv'
  <2>1. wk' \in [Workers -> WorkerState] /\ SlotsOK'
    BY <1>13, SlotUpdate DEF MarkCompleted, At, WorkerState, WorkerPCs, SlotOK
  <2> QED
    BY <1>13, <2>1 DEF MarkCompleted, Statuses, CallsOK, history
<1>14. ASSUME QueueNext(w) PROVE TypeInv'
  <2>1. wk' \in [Workers -> WorkerState] /\ SlotsOK'
    <3>1. CASE HasChild(wk[w].cur)
      <4> DEFINE r == [wk[w] EXCEPT !.pc = "add", !.add = Child(wk[w].cur)]
      <4>1. r \in WorkerState /\ SlotOK(r)
        BY <1>14, <3>1, JobFacts DEF QueueNext, At, WorkerState, WorkerPCs, SlotOK
      <4>2. wk' = [wk EXCEPT ![w] = r]
        BY <1>14, <3>1 DEF QueueNext
      <4> QED
        BY <4>1, <4>2, SlotUpdate
    <3>2. CASE ~HasChild(wk[w].cur)
      BY <1>14, <3>2, ReturnOK DEF QueueNext, Errors
    <3> QED
      BY <3>1, <3>2
  <2> QED
    BY <1>14, <2>1 DEF QueueNext, db, history, CallsOK
<1>15. ASSUME Reject(w) PROVE TypeInv'
  <2>1. wk' \in [Workers -> WorkerState] /\ SlotsOK'
    BY <1>15, SlotUpdate DEF Reject, At, WorkerState, WorkerPCs, SlotOK
  <2>2. waiting' \in [Jobs -> [0..MaxStarts -> Nat]]
    BY <1>15, PushOK DEF Reject
  <2> QED
    BY <1>15, <2>1, <2>2 DEF Reject, db, history, CallsOK
<1>16. ASSUME HandleFailed(w) PROVE TypeInv'
  <2> DEFINE j == wk[w].bull
             last == IsLastFailure(wk[w].err, wk[w].made)
             r == [wk[w] EXCEPT !.pc = "next", !.phase = "last", !.cur = j, !.err = "none"]
  <2>1. r \in WorkerState /\ SlotOK(r)
    BY <1>16 DEF HandleFailed, At, WorkerState, WorkerPCs, Errors, SlotOK
  <2>2. wk' = [wk EXCEPT ![w] = r] \/ wk' = [wk EXCEPT ![w] = Idle]
    BY <1>16 DEF HandleFailed
  <2>3. wk' \in [Workers -> WorkerState] /\ SlotsOK'
    <3> HIDE DEF r
    <3> QED
      BY <2>1, <2>2, IdleOK, SlotUpdate
  <2>4. status' \in [Jobs -> Statuses]
    BY <1>16 DEF HandleFailed, Statuses
  <2> QED
    BY <1>16, <2>3, <2>4 DEF HandleFailed, CallsOK, history
<1> QED
  BY <1>1, <1>2, <1>3, <1>4, <1>5, <1>6, <1>7, <1>8, <1>9, <1>11, <1>12, <1>13, <1>14,
     <1>15, <1>16 DEF RunJobStep

-----------------------------------------------------------------------------
(* CancelDelayed.                                                           *)

LEMMA CancelType ==
    ASSUME TypeInv, NEW x \in Cancelled, CancelStep(x)
    PROVE  TypeInv'
<1> USE DEF TypeInv, TypeOK
<1> cc[x] \in CancelState /\ CallOK(cc[x])
  BY DEF CallsOK
<1>1. ASSUME CancelFind(x) PROVE TypeInv'
  <2> DEFINE found == JobsOf(x) \cap WithStatus({"delayed", "merged"})
             mains == {j \in found : IsDigest(j) /\ status[j] = "delayed"}
             pc == IF \E j \in found : IsAction(j) THEN "pending" ELSE "write"
  <2>1. PICK main \in IF mains = {} THEN {NoJob} ELSE mains :
           cc' = [cc EXCEPT ![x].pc = pc, ![x].ids = found, ![x].main = main]
    BY <1>1 DEF CancelFind
  <2>2. found \subseteq Jobs /\ main \in Jobs \cup {NoJob}
    BY DEF JobsOf
  <2> DEFINE r == [cc[x] EXCEPT !.pc = pc, !.ids = found, !.main = main]
  <2>3. pc \in {"pending", "write"}
    OBVIOUS
  <2>4. r \in CancelState /\ r.pc = pc
    <3> HIDE DEF found, mains, pc
    <3> QED
      BY <2>2, <2>3 DEF CancelState, CancelPCs
  <2>5. CallOK(r)
    <3> HIDE DEF r, pc
    <3> QED
      BY <2>3, <2>4 DEF CallOK
  <2>6. cc' \in [Cancelled -> CancelState] /\ CallsOK'
    BY <2>1, <2>4, <2>5, CallUpdate
  <2> QED
    BY <1>1, <2>6 DEF CancelFind, db, history, SlotsOK
<1>2. ASSUME CancelFindPending(x) PROVE TypeInv'
  <2>1. cc' \in [Cancelled -> CancelState] /\ CallsOK'
    <3> DEFINE ids == cc[x].ids \cup (JobsOf(x) \cap WithStatus({"pending"}))
               r == [cc[x] EXCEPT !.pc = "write", !.ids = ids]
    <3>1. ids \subseteq Jobs
      BY DEF JobsOf, CancelState
    <3>2. r \in CancelState /\ CallOK(r)
      <4> HIDE DEF ids
      <4> QED
        BY <3>1 DEF CancelState, CancelPCs, CallOK
    <3>3. cc' = [cc EXCEPT ![x] = r]
      BY <1>2 DEF CancelFindPending
    <3> QED
      BY <3>2, <3>3, CallUpdate
  <2> QED
    BY <1>2, <2>1 DEF CancelFindPending, db, history, SlotsOK
<1>3. ASSUME CancelWrite(x) PROVE TypeInv'
  <2> DEFINE r == [cc[x] EXCEPT !.pc = IF cc[x].main = NoJob THEN "done" ELSE "find"]
  <2>1. r \in CancelState /\ CallOK(r)
    BY DEF CancelState, CancelPCs, CallOK
  <2>2. cc' \in [Cancelled -> CancelState] /\ CallsOK'
    BY <1>3, <2>1, CallUpdate DEF CancelWrite
  <2>3. status' \in [Jobs -> Statuses] /\ silenced' \in SUBSET Notifs
    BY <1>3 DEF CancelWrite, Statuses
  <2> QED
    BY <1>3, <2>2, <2>3 DEF CancelWrite, SlotsOK
<1>4. ASSUME FindNextMain(x) PROVE TypeInv'
  <2>1. PICK f \in Oldest(Followers(cc[x].main)) :
           cc' = [cc EXCEPT ![x].pc = "promote", ![x].next = f]
    BY <1>4 DEF FindNextMain
  <2>2. f \in Jobs
    BY DEF Oldest, Followers, WithStatus
  <2> DEFINE r == [cc[x] EXCEPT !.pc = "promote", !.next = f]
  <2>3. r \in CancelState /\ CallOK(r)
    BY <2>2 DEF CancelState, CancelPCs, CallOK
  <2>4. cc' \in [Cancelled -> CancelState] /\ CallsOK'
    BY <2>1, <2>3, CallUpdate
  <2> QED
    BY <1>4, <2>4 DEF FindNextMain, db, history, SlotsOK
<1>5. ASSUME NoNextMain(x) PROVE TypeInv'
  <2>1. cc' \in [Cancelled -> CancelState] /\ CallsOK'
    BY <1>5, CallUpdate DEF NoNextMain, CancelState, CancelPCs, CallOK
  <2> QED
    BY <1>5, <2>1, InFlightOK DEF NoNextMain, db, history, SlotsOK
<1>6. ASSUME Promote(x) PROVE TypeInv'
  <2> DEFINE f == cc[x].next
             r == [cc[x] EXCEPT !.pc = IF HasChild(f) THEN "children" ELSE "repoint",
                                !.todo = f[2] + 1 .. NumSteps]
  <2>1. f \in Jobs
    BY <1>6 DEF Promote, CancelAt, CallOK
  <2>2. f[2] + 1 .. NumSteps \subseteq Steps
    BY <2>1, JobFacts
  <2>3. r \in CancelState /\ CallOK(r)
    BY <2>1, <2>2 DEF CancelState, CancelPCs, CallOK
  <2>4. cc' \in [Cancelled -> CancelState] /\ CallsOK'
    BY <1>6, <2>3, CallUpdate DEF Promote
  <2>5. status' \in [Jobs -> Statuses] /\ mergedInto' \in [Jobs -> Jobs \cup {NoJob}]
    BY <1>6 DEF Promote, Statuses
  <2> QED
    BY <1>6, <2>4, <2>5 DEF Promote, history, SlotsOK
<1>7. ASSUME PromoteChild(x) PROVE TypeInv'
  <2> DEFINE f == cc[x].next
  <2>1. PICK s \in cc[x].todo :
           /\ status' = [status EXCEPT ![<<f[1], s>>] = "pending"]
           /\ mergedInto' = [mergedInto EXCEPT ![<<f[1], s>>] = f]
           /\ cc' = [cc EXCEPT ![x].todo = @ \ {s},
                               ![x].pc = IF cc[x].todo = {s} THEN "repoint" ELSE "children"]
    BY <1>7 DEF PromoteChild
  <2> DEFINE r == [cc[x] EXCEPT !.todo = cc[x].todo \ {s},
                                !.pc = IF cc[x].todo = {s} THEN "repoint" ELSE "children"]
  <2>2. f \in Jobs
    BY <1>7 DEF PromoteChild, CancelAt, CallOK
  <2>3. r \in CancelState /\ CallOK(r)
    BY <2>2 DEF CancelState, CancelPCs, CallOK
  <2>4. cc' = [cc EXCEPT ![x] = r]
    BY <2>1
  <2>5. cc' \in [Cancelled -> CancelState] /\ CallsOK'
    BY <2>3, <2>4, CallUpdate
  <2>6. status' \in [Jobs -> Statuses] /\ mergedInto' \in [Jobs -> Jobs \cup {NoJob}]
    BY <2>1, <2>2 DEF Statuses
  <2> QED
    BY <1>7, <2>5, <2>6 DEF PromoteChild, history, SlotsOK
<1>8. ASSUME Repoint(x) PROVE TypeInv'
  <2>1. cc' \in [Cancelled -> CancelState] /\ CallsOK'
    BY <1>8, CallUpdate DEF Repoint, CancelState, CancelPCs, CallOK
  <2>2. mergedInto' \in [Jobs -> Jobs \cup {NoJob}]
    BY <1>8 DEF Repoint, CancelState
  <2> QED
    BY <1>8, <2>1, <2>2, InFlightOK DEF Repoint, history, SlotsOK
<1> QED
  BY <1>1, <1>2, <1>3, <1>4, <1>5, <1>6, <1>7, <1>8 DEF CancelStep

-----------------------------------------------------------------------------
(* The environment.                                                         *)

LEMMA EnvironmentType ==
    ASSUME TypeInv, Environment
    PROVE  TypeInv'
<1> USE DEF TypeInv, TypeOK
<1>1. ASSUME NEW w \in Workers, EnqueueLost(w) PROVE TypeInv'
  <2>1. wk' \in [Workers -> WorkerState] /\ SlotsOK'
    BY <1>1, ReturnOK DEF EnqueueLost, Errors
  <2> QED
    BY <1>1, <2>1 DEF EnqueueLost, db, history, CallsOK
<1>2. ASSUME NEW w \in Workers, Crash(w) PROVE TypeInv'
  <2>1. wk' \in [Workers -> WorkerState] /\ SlotsOK'
    BY <1>2, IdleOK, SlotUpdate DEF Crash
  <2>2. waiting' \in [Jobs -> [0..MaxStarts -> Nat]]
    BY <1>2, PushOK DEF Crash
  <2> QED
    BY <1>2, <2>1, <2>2 DEF Crash, db, history, CallsOK
<1>3. ASSUME NEW g \in Groups, LockExpires(g) PROVE TypeInv'
  BY <1>3 DEF LockExpires, db, history, SlotsOK, CallsOK
<1>4. ASSUME NEW g \in Groups, DeadLockExpires(g) PROVE TypeInv'
  BY <1>4 DEF DeadLockExpires, db, history, SlotsOK, CallsOK
<1> QED
  BY <1>1, <1>2, <1>3, <1>4 DEF Environment

-----------------------------------------------------------------------------
\* Every variable keeps its type, for every number of notifications, steps and worker
\* slots and under every fault: no slot or cancel call ever works on a job that is not
\* there.
THEOREM TypeCorrect == Spec => []TypeOK
<1>1. Init => TypeInv
  BY TypeInit
<1>2. TypeInv /\ [Next]_vars => TypeInv'
  <2> SUFFICES ASSUME TypeInv, [Next]_vars PROVE TypeInv'
    OBVIOUS
  <2>1. CASE Next
    BY <2>1, AddJobType, RunJobType, CancelType, EnvironmentType DEF Next
  <2>2. CASE UNCHANGED vars
    BY <2>2 DEF TypeInv, TypeOK, SlotsOK, CallsOK, vars
  <2> QED
    BY <2>1, <2>2
<1>3. TypeInv => TypeOK
  BY DEF TypeInv
<1> QED
  BY <1>1, <1>2, <1>3, PTL DEF Spec

-----------------------------------------------------------------------------
(***************************************************************************)
(* The lock of MergeOrCreateDigest keeps a group from having two open      *)
(* digests.  What makes the invariant inductive is the critical section: a *)
(* slot between the read and the write holds the lock of the group of the  *)
(* job, and what it has read is still true.                                *)
(***************************************************************************)
\* A slot about to write DELAYED has the lock, and the group has no open digest.
ClaimOK(r, w) ==
    r.pc = "claim" => /\ IsDigest(r.add)
                      /\ lock[GroupOf[r.add[1]]] = w
                      /\ OpenDigests(GroupOf[r.add[1]]) = {}

ClaimInv == \A w \in Workers : ClaimOK(wk[w], w)

DigestInv == TypeInv /\ ClaimInv /\ OneOpenDigest

\* A step of slot w that neither takes nor releases a lock and opens no digest.
Quiet(w) ==
    /\ \A v \in Workers : v # w => wk'[v] = wk[v]
    /\ wk'[w].pc # "claim"
    /\ lock' = lock
    /\ \A j \in Jobs : IsDigest(j) /\ status'[j] = "delayed" => status[j] = "delayed"

-----------------------------------------------------------------------------
\* Without a new DELAYED digest the set of the open digests of a group only shrinks.
LEMMA OpenShrinks ==
    ASSUME \A j \in Jobs : IsDigest(j) /\ status'[j] = "delayed" => status[j] = "delayed"
    PROVE  \A g \in Groups : OpenDigests(g)' \subseteq OpenDigests(g)
BY DEF OpenDigests, WithStatus, IsDigest, TypeOf

LEMMA QuietKeeps ==
    ASSUME DigestInv, NEW w \in Workers, Quiet(w), TypeInv'
    PROVE  DigestInv'
<1>1. \A g \in Groups : OpenDigests(g)' \subseteq OpenDigests(g)
  BY OpenShrinks DEF Quiet
<1>2. OneOpenDigest'
  BY <1>1 DEF DigestInv, OneOpenDigest
<1>3. ClaimInv'
  <2> SUFFICES ASSUME NEW v \in Workers, wk'[v].pc = "claim" PROVE ClaimOK(wk[v], v)'
    BY DEF ClaimInv, ClaimOK
  <2>1. wk'[v] = wk[v] /\ wk[v].pc = "claim"
    BY DEF Quiet
  <2>2. wk[v].add \in Jobs
    BY <2>1 DEF DigestInv, TypeInv, SlotsOK, SlotOK
  <2>3. GroupOf[wk[v].add[1]] \in Groups
    BY <2>2, JobFacts
  <2> QED
    BY <1>1, <2>1, <2>3 DEF DigestInv, ClaimInv, ClaimOK, Quiet, IsDigest, TypeOf
<1> QED
  BY <1>2, <1>3 DEF DigestInv

LEMMA ReturnIsQuiet ==
    ASSUME wk \in [Workers -> WorkerState], NEW w \in Workers, NEW e, Return(w, e)
    PROVE  /\ \A v \in Workers : v # w => wk'[v] = wk[v]
           /\ wk'[w].pc # "claim"
BY DEF Return, Idle, WorkerState

LEMMA GoToIsQuiet ==
    ASSUME wk \in [Workers -> WorkerState], NEW w \in Workers, NEW pc, pc # "claim", GoTo(w, pc)
    PROVE  /\ \A v \in Workers : v # w => wk'[v] = wk[v]
           /\ wk'[w].pc # "claim"
BY DEF GoTo, WorkerState

\* Only the two ends of the critical section are not quiet.
LEMMA AddJobQuiet ==
    ASSUME TypeInv, NEW w \in Workers, AddJobStep(w)
    PROVE  Quiet(w) \/ DecideCreate(w) \/ Claim(w)
<1> USE DEF TypeInv, TypeOK
<1> wk[w] \in WorkerState /\ SlotOK(wk[w])
  BY DEF SlotsOK
<1>1. ASSUME NEW n \in Notifs, StoreJobs(w, n) PROVE Quiet(w)
  BY <1>1, IdleOK DEF StoreJobs, Quiet, WorkerState
<1>2. ASSUME AddPlain(w) PROVE Quiet(w)
  BY <1>2, GoToIsQuiet DEF AddPlain, SetStatus, Quiet
<1>3. ASSUME AddDelay(w) PROVE Quiet(w)
  BY <1>3, GoToIsQuiet DEF AddDelay, Adding, SetStatus, Quiet, IsDigest
<1>4. ASSUME AddDelayMisconfigured(w) PROVE Quiet(w)
  BY <1>4, ReturnIsQuiet DEF AddDelayMisconfigured, SetStatus, Quiet
<1>5. ASSUME AddThrows(w) PROVE Quiet(w)
  BY <1>5, ReturnIsQuiet DEF AddThrows, db, Quiet
<1>6. ASSUME DigestFiltered(w) PROVE Quiet(w)
  BY <1>6, GoToIsQuiet DEF DigestFiltered, db, Quiet
<1>7. ASSUME DecideSkip(w) PROVE Quiet(w)
  BY <1>7, GoToIsQuiet DEF DecideSkip, db, Quiet
<1>8. ASSUME DecideMerge(w) PROVE Quiet(w)
  BY <1>8 DEF DecideMerge, db, Quiet, WorkerState
<1>9. ASSUME MergeWrite(w) PROVE Quiet(w)
  <2>1. /\ \A v \in Workers : v # w => wk'[v] = wk[v]
        /\ wk'[w].pc # "claim"
    <3>1. Merged(w) \/ \E s \in wk[w].todo : wk' = [wk EXCEPT ![w].todo = @ \ {s}]
      BY <1>9 DEF MergeWrite
    <3>2. CASE Merged(w)
      BY <3>2, ReturnIsQuiet DEF Merged
    <3>3. CASE \E s \in wk[w].todo : wk' = [wk EXCEPT ![w].todo = @ \ {s}]
      BY <1>9, <3>3 DEF MergeWrite, WorkerState
    <3> QED
      BY <3>1, <3>2, <3>3
  <2> QED
    BY <1>9, <2>1 DEF MergeWrite, Quiet
<1>10. ASSUME Skip(w) PROVE Quiet(w)
  <2>1. /\ \A v \in Workers : v # w => wk'[v] = wk[v]
        /\ wk'[w].pc # "claim"
    BY <1>10, ReturnIsQuiet DEF Skip, Skipped, WorkerState
  <2> QED
    BY <1>10, <2>1 DEF Skip, SetStatus, Quiet
<1>11. ASSUME Enqueue(w) PROVE Quiet(w)
  BY <1>11, ReturnIsQuiet DEF Enqueue, db, Quiet
<1> QED
  BY <1>1, <1>2, <1>3, <1>4, <1>5, <1>6, <1>7, <1>8, <1>9, <1>10, <1>11 DEF AddJobStep

LEMMA RunJobQuiet ==
    ASSUME TypeInv, NEW w \in Workers, RunJobStep(w)
    PROVE  Quiet(w)
<1> USE DEF TypeInv, TypeOK
<1> wk[w] \in WorkerState /\ SlotOK(wk[w])
  BY DEF SlotsOK
<1> DEFINE Away == /\ \A v \in Workers : v # w => wk'[v] = wk[v]
                   /\ wk'[w].pc # "claim"
<1>1. ASSUME NEW j \in Jobs, NEW a \in 0..MaxStarts, Receive(w, j, a) PROVE Quiet(w)
  <2>1. \/ UNCHANGED wk /\ wk[w] = Idle
        \/ \E r : r.pc \in {"mark", "follow"} /\ wk' = [wk EXCEPT ![w] = r]
    <3> DEFINE run == [Idle EXCEPT !.phase = "run", !.bull = j, !.made = a + 1]
               mark == [run EXCEPT !.pc = "mark", !.cur = j, !.batch = Carries(j)]
               follow == [run EXCEPT !.pc = "follow"]
    <3>1. mark.pc = "mark" /\ follow.pc = "follow"
      BY DEF Idle
    <3>2. wk' \in {[wk EXCEPT ![w] = mark], [wk EXCEPT ![w] = follow]} \/ UNCHANGED wk
      BY <1>1 DEF Receive
    <3> HIDE DEF mark, follow
    <3> QED
      BY <1>1, <3>1, <3>2 DEF Receive
  <2>2. Away
    BY <2>1 DEF Idle
  <2> QED
    BY <1>1, <2>2 DEF Receive, db, Quiet
<1>2. ASSUME FindFollower(w) PROVE Quiet(w)
  BY <1>2 DEF FindFollower, db, Quiet, WorkerState
<1>3. ASSUME NoFollower(w) PROVE Quiet(w)
  BY <1>3 DEF NoFollower, Idle, db, Quiet
<1>4. ASSUME MarkRunning(w) PROVE Quiet(w)
  BY <1>4 DEF MarkRunning, Quiet, WorkerState
<1>5. ASSUME SendNothing(w) \/ Deliver(w) \/ ReadBatch(w) \/ WriteBatch(w) PROVE Quiet(w)
  BY <1>5 DEF SendNothing, Deliver, ReadBatch, WriteBatch, db, Quiet, WorkerState
<1>6. ASSUME FilterOut(w) \/ MarkCompleted(w) PROVE Quiet(w)
  BY <1>6 DEF FilterOut, MarkCompleted, Quiet, WorkerState
<1>7. ASSUME SendThrows(w) \/ DeliverThrows(w) PROVE Quiet(w)
  BY <1>7 DEF SendThrows, DeliverThrows, Caught, db, Quiet, WorkerState
<1>8. ASSUME QueueNext(w) PROVE Quiet(w)
  <2>1. Away
    BY <1>8, ReturnIsQuiet DEF QueueNext, WorkerState
  <2> QED
    BY <1>8, <2>1 DEF QueueNext, db, Quiet
<1>9. ASSUME Reject(w) PROVE Quiet(w)
  BY <1>9 DEF Reject, db, Quiet, WorkerState
<1>10. ASSUME HandleFailed(w) PROVE Quiet(w)
  <2>1. Away
    BY <1>10 DEF HandleFailed, Idle, WorkerState
  <2> QED
    BY <1>10, <2>1 DEF HandleFailed, Quiet
<1> QED
  BY <1>1, <1>2, <1>3, <1>4, <1>5, <1>6, <1>7, <1>8, <1>9, <1>10 DEF RunJobStep

-----------------------------------------------------------------------------
\* The slot that enters the critical section has the lock to itself.
LEMMA CreateKeeps ==
    ASSUME DigestInv, NEW w \in Workers, DecideCreate(w), TypeInv'
    PROVE  DigestInv'
<1> DEFINE g == GroupOf[wk[w].add[1]]
<1> USE DEF TypeInv, TypeOK
<1>1. wk[w].add \in Jobs /\ g \in Groups
  BY JobFacts DEF DigestInv, DecideCreate, Adding, SlotsOK, SlotOK
<1>2. /\ lock[g] = NoWorker /\ OpenDigests(g) = {} /\ IsDigest(wk[w].add)
      /\ lock' = [lock EXCEPT ![g] = w] /\ status' = status
      /\ wk' = [wk EXCEPT ![w].pc = "claim"]
  BY DEF DecideCreate, Adding, LockFree, GoTo, db, IsDigest
<1>3. \A h \in Groups : OpenDigests(h)' = OpenDigests(h)
  BY <1>2 DEF OpenDigests, WithStatus, IsDigest, TypeOf
<1>4. OneOpenDigest'
  BY <1>3 DEF DigestInv, OneOpenDigest
<1>5. ClaimInv'
  <2> SUFFICES ASSUME NEW v \in Workers, wk'[v].pc = "claim" PROVE ClaimOK(wk[v], v)'
    BY DEF ClaimInv, ClaimOK
  <2>1. CASE v = w
    <3>1. wk'[w].add = wk[w].add
      BY <1>2 DEF DigestInv, WorkerState
    <3> QED
      BY <1>1, <1>2, <1>3, <2>1, <3>1 DEF DigestInv, ClaimOK, IsDigest, TypeOf
  <2>2. CASE v # w
    <3>1. wk'[v] = wk[v] /\ wk[v].pc = "claim"
      BY <1>2, <2>2 DEF DigestInv
    <3>2. wk[v].add \in Jobs /\ GroupOf[wk[v].add[1]] \in Groups
      BY <3>1, JobFacts DEF DigestInv, SlotsOK, SlotOK
    <3>3. GroupOf[wk[v].add[1]] # g
      BY <1>2, <3>1, EnvironmentAssumption DEF DigestInv, ClaimInv, ClaimOK
    <3> QED
      BY <1>1, <1>2, <1>3, <3>1, <3>2, <3>3
         DEF DigestInv, ClaimInv, ClaimOK, IsDigest, TypeOf
  <2> QED
    BY <2>1, <2>2
<1> QED
  BY <1>4, <1>5 DEF DigestInv

\* The slot that leaves it opens the only digest of the group.
LEMMA ClaimKeeps ==
    ASSUME DigestInv, NEW w \in Workers, Claim(w), TypeInv'
    PROVE  DigestInv'
<1> DEFINE i == wk[w].add
           g == GroupOf[i[1]]
<1> USE DEF TypeInv, TypeOK
<1>1. i \in Jobs /\ g \in Groups
  BY JobFacts DEF DigestInv, Claim, SlotsOK, SlotOK
<1>2. lock[g] = w /\ OpenDigests(g) = {} /\ IsDigest(i)
  BY DEF DigestInv, Claim, ClaimInv, ClaimOK
<1>3. /\ lock' = [lock EXCEPT ![g] = NoWorker]
      /\ status' = [status EXCEPT ![i] = "delayed"]
      /\ wk' = [wk EXCEPT ![w].pc = "enqueue"]
  BY <1>2 DEF Claim, SetStatus, GoTo
<1>4. \A h \in Groups : h # g => OpenDigests(h)' \subseteq OpenDigests(h)
  BY <1>3 DEF DigestInv, OpenDigests, WithStatus, IsDigest, TypeOf
<1>5. \A h \in Groups : h = g => OpenDigests(h)' \subseteq {i}
  BY <1>2, <1>3 DEF DigestInv, OpenDigests, WithStatus, IsDigest, TypeOf
<1>6. OneOpenDigest'
  <2> SUFFICES ASSUME NEW h \in Groups, NEW d \in OpenDigests(h)', NEW e \in OpenDigests(h)'
               PROVE  d = e
    BY DEF OneOpenDigest
  <2>1. CASE h = g
    BY <1>5, <2>1
  <2>2. CASE h # g
    <3>1. d \in OpenDigests(h) /\ e \in OpenDigests(h)
      BY <1>4, <2>2
    <3> QED
      BY <3>1 DEF DigestInv, OneOpenDigest
  <2> QED
    BY <2>1, <2>2
<1>7. ClaimInv'
  <2> SUFFICES ASSUME NEW v \in Workers, wk'[v].pc = "claim" PROVE ClaimOK(wk[v], v)'
    BY DEF ClaimInv, ClaimOK
  <2>1. v # w /\ wk'[v] = wk[v] /\ wk[v].pc = "claim"
    BY <1>3 DEF DigestInv, WorkerState
  <2>2. wk[v].add \in Jobs /\ GroupOf[wk[v].add[1]] \in Groups
    BY <2>1, JobFacts DEF DigestInv, SlotsOK, SlotOK
  <2>3. GroupOf[wk[v].add[1]] # g
    BY <1>2, <2>1 DEF DigestInv, ClaimInv, ClaimOK
  <2>4. OpenDigests(GroupOf[wk[v].add[1]])' = {}
    BY <1>4, <2>1, <2>2, <2>3 DEF DigestInv, ClaimInv, ClaimOK
  <2>5. lock'[GroupOf[wk[v].add[1]]] = v
    BY <1>3, <2>1, <2>2, <2>3 DEF DigestInv, ClaimInv, ClaimOK
  <2> QED
    BY <2>1, <2>4, <2>5 DEF DigestInv, ClaimInv, ClaimOK, IsDigest, TypeOf
<1> QED
  BY <1>6, <1>7 DEF DigestInv

\* A lock that expires because its holder is dead is not that of a critical section.
LEMMA DeadLockKeeps ==
    ASSUME DigestInv, NEW g \in Groups, DeadLockExpires(g), TypeInv'
    PROVE  DigestInv'
<1> USE DEF TypeInv, TypeOK
<1>1. PICK u \in Workers : lock[g] = u /\ wk[u].pc # "claim"
  BY DEF DeadLockExpires
<1>2. lock' = [lock EXCEPT ![g] = NoWorker] /\ status' = status /\ wk' = wk
  BY DEF DeadLockExpires, db
<1>3. \A h \in Groups : OpenDigests(h)' = OpenDigests(h)
  BY <1>2 DEF OpenDigests, WithStatus, IsDigest, TypeOf
<1>4. OneOpenDigest'
  BY <1>3 DEF DigestInv, OneOpenDigest
<1>5. ClaimInv'
  <2> SUFFICES ASSUME NEW v \in Workers, wk[v].pc = "claim" PROVE ClaimOK(wk[v], v)'
    BY <1>2 DEF ClaimInv, ClaimOK
  <2>1. wk[v].add \in Jobs /\ GroupOf[wk[v].add[1]] \in Groups
    BY JobFacts DEF DigestInv, SlotsOK, SlotOK
  <2>2. GroupOf[wk[v].add[1]] # g
    BY <1>1 DEF DigestInv, ClaimInv, ClaimOK
  <2> QED
    BY <1>2, <1>3, <2>1, <2>2 DEF DigestInv, ClaimInv, ClaimOK, IsDigest, TypeOf
<1> QED
  BY <1>4, <1>5 DEF DigestInv

-----------------------------------------------------------------------------
LEMMA DigestInit == Init => DigestInv
<1> SUFFICES ASSUME Init PROVE DigestInv
  OBVIOUS
<1>1. TypeInv
  BY TypeInit
<1>2. ClaimInv
  BY DEF Init, Idle, ClaimInv, ClaimOK
<1>3. OneOpenDigest
  BY DEF Init, OneOpenDigest, OpenDigests, WithStatus
<1> QED
  BY <1>1, <1>2, <1>3 DEF DigestInv

LEMMA DigestStep ==
    ASSUME Cancelled = {}, "lock_expiry" \notin Faults, DigestInv, [Next]_vars
    PROVE  DigestInv'
<1>1. TypeInv'
  <2>1. CASE Next
    BY <2>1, AddJobType, RunJobType, CancelType, EnvironmentType DEF Next, DigestInv
  <2>2. CASE UNCHANGED vars
    BY <2>2 DEF DigestInv, TypeInv, TypeOK, SlotsOK, CallsOK, vars
  <2> QED
    BY <2>1, <2>2
<1>2. ASSUME NEW w \in Workers, AddJobStep(w) \/ RunJobStep(w) PROVE DigestInv'
  <2>1. Quiet(w) \/ DecideCreate(w) \/ Claim(w)
    BY <1>2, AddJobQuiet, RunJobQuiet DEF DigestInv
  <2> QED
    BY <1>1, <2>1, QuietKeeps, CreateKeeps, ClaimKeeps
<1>3. ASSUME NEW w \in Workers, EnqueueLost(w) \/ Crash(w) PROVE DigestInv'
  <2>1. wk \in [Workers -> WorkerState]
    BY DEF DigestInv, TypeInv, TypeOK
  <2>2. CASE EnqueueLost(w)
    BY <1>1, <2>1, <2>2, ReturnIsQuiet, QuietKeeps DEF EnqueueLost, db, Quiet
  <2>3. CASE Crash(w)
    BY <1>1, <2>1, <2>3, QuietKeeps DEF Crash, Idle, db, Quiet
  <2> QED
    BY <1>3, <2>2, <2>3
<1>4. ASSUME NEW g \in Groups, LockExpires(g) \/ DeadLockExpires(g) PROVE DigestInv'
  BY <1>1, <1>4, DeadLockKeeps DEF LockExpires
<1>5. CASE UNCHANGED vars
  BY <1>1, <1>5
     DEF DigestInv, ClaimInv, ClaimOK, OneOpenDigest, OpenDigests, WithStatus, IsDigest,
         TypeOf, vars
<1> QED
  BY <1>2, <1>3, <1>4, <1>5 DEF Next, Environment

\* A group never has two open digests, for every number of notifications, groups and
\* worker slots, whatever slots crash and enqueues are lost: as long as no lock expires
\* under a live holder and no digest is cancelled.
THEOREM OpenDigestIsUnique ==
    ASSUME Cancelled = {}, "lock_expiry" \notin Faults
    PROVE  Spec => []OneOpenDigest
<1>1. DigestInv /\ [Next]_vars => DigestInv'
  BY DigestStep
<1>2. DigestInv => OneOpenDigest
  BY DEF DigestInv
<1> QED
  BY <1>1, <1>2, DigestInit, PTL DEF Spec

-----------------------------------------------------------------------------
(***************************************************************************)
(* With a back-off digest the oldest notification of a group goes at once. *)
(* What a slot has learned from the trigger steps it has read, that there  *)
(* is an older notification, stays true while the lock is released and the *)
(* writes of DELAYED and MERGED follow.                                    *)
(***************************************************************************)

\* The group of notification n has an older notification.
HasOlder(n) == \E m \in Notifs : GroupOf[m] = GroupOf[n] /\ CreatedAt[m] < CreatedAt[n]

Gathered == {"delayed", "merged"}

\* A slot that is about to write DELAYED or MERGED.
Committed == {"claim", "merge"}

CommitInv == \A w \in Workers : wk[w].pc \in Committed => HasOlder(wk[w].add[1])

BackoffInv == TypeInv /\ CommitInv /\ OldestGoesAtOnce

\* No digest is collected that was not.
CollectsNothing ==
    \A j \in Jobs : IsDigest(j) /\ status'[j] \in Gathered => status[j] \in Gathered

\* A step of slot w after which it is not going to collect a digest.
Leaves(w) ==
    /\ \A v \in Workers : v # w => wk'[v] = wk[v]
    /\ wk'[w].pc \notin Committed

-----------------------------------------------------------------------------
\* What a job needs: a digest that is delayed or merged has an older notification.
LEMMA CollectedHaveOlder ==
    OldestGoesAtOnce <=>
        \A d \in Jobs : IsDigest(d) /\ status[d] \in Gathered => HasOlder(d[1])
BY DEF OldestGoesAtOnce, WithStatus, Gathered, HasOlder

LEMMA CollectedHaveOlderNext ==
    OldestGoesAtOnce' <=>
        \A d \in Jobs : IsDigest(d) /\ status'[d] \in Gathered => HasOlder(d[1])
BY DEF OldestGoesAtOnce, WithStatus, Gathered, HasOlder, IsDigest, TypeOf

LEMMA NothingKeeps ==
    ASSUME OldestGoesAtOnce, CollectsNothing
    PROVE  OldestGoesAtOnce'
BY CollectedHaveOlder, CollectedHaveOlderNext DEF CollectsNothing

LEMMA LeavesKeeps ==
    ASSUME BackoffInv, NEW w \in Workers, Leaves(w), CollectsNothing, TypeInv'
    PROVE  BackoffInv'
<1>1. CommitInv'
  BY DEF BackoffInv, CommitInv, Leaves, HasOlder
<1> QED
  BY <1>1, NothingKeeps DEF BackoffInv

LEMMA ReturnLeaves ==
    ASSUME wk \in [Workers -> WorkerState], NEW w \in Workers, NEW e, Return(w, e)
    PROVE  Leaves(w)
BY DEF Return, Idle, WorkerState, Leaves, Committed

LEMMA GoToLeaves ==
    ASSUME wk \in [Workers -> WorkerState], NEW w \in Workers, NEW pc,
           pc \notin Committed, GoTo(w, pc)
    PROVE  Leaves(w)
BY DEF GoTo, WorkerState, Leaves

-----------------------------------------------------------------------------
\* Only the decisions to create or to merge commit a slot, and only the writes that
\* follow collect a digest.
LEMMA AddJobLeaves ==
    ASSUME TypeInv, NEW w \in Workers, AddJobStep(w)
    PROVE  \/ Leaves(w) /\ CollectsNothing
           \/ DecideCreate(w) \/ DecideMerge(w) \/ Claim(w) \/ MergeWrite(w)
<1> USE DEF TypeInv, TypeOK, CollectsNothing, Gathered
<1> DEFINE Calm == Leaves(w) /\ CollectsNothing
<1> wk[w] \in WorkerState /\ SlotOK(wk[w])
  BY DEF SlotsOK
<1>1. ASSUME NEW n \in Notifs, StoreJobs(w, n) PROVE Calm
  BY <1>1, IdleOK DEF StoreJobs, Leaves, Committed, WorkerState
<1>2. ASSUME AddPlain(w) PROVE Calm
  BY <1>2, GoToLeaves DEF AddPlain, SetStatus, Committed
<1>3. ASSUME AddDelay(w) PROVE Calm
  BY <1>3, GoToLeaves DEF AddDelay, Adding, SetStatus, IsDigest, Committed
<1>4. ASSUME AddDelayMisconfigured(w) PROVE Calm
  BY <1>4, ReturnLeaves DEF AddDelayMisconfigured, SetStatus
<1>5. ASSUME AddThrows(w) PROVE Calm
  BY <1>5, ReturnLeaves DEF AddThrows, db
<1>6. ASSUME DigestFiltered(w) PROVE Calm
  BY <1>6, GoToLeaves DEF DigestFiltered, db, Committed
<1>7. ASSUME DecideSkip(w) PROVE Calm
  BY <1>7, GoToLeaves DEF DecideSkip, db, Committed
<1>8. ASSUME Skip(w) PROVE Calm
  <2>1. Leaves(w)
    BY <1>8, ReturnLeaves DEF Skip, Skipped, WorkerState, Leaves, Committed
  <2> QED
    BY <1>8, <2>1 DEF Skip, SetStatus
<1>9. ASSUME Enqueue(w) PROVE Calm
  BY <1>9, ReturnLeaves DEF Enqueue, db
<1> QED
  BY <1>1, <1>2, <1>3, <1>4, <1>5, <1>6, <1>7, <1>8, <1>9 DEF AddJobStep

LEMMA RunJobLeaves ==
    ASSUME TypeInv, NEW w \in Workers, RunJobStep(w)
    PROVE  Leaves(w) /\ CollectsNothing
<1> USE DEF TypeInv, TypeOK, CollectsNothing, Gathered
<1> DEFINE Calm == Leaves(w) /\ CollectsNothing
<1> wk[w] \in WorkerState /\ SlotOK(wk[w])
  BY DEF SlotsOK
<1>1. ASSUME NEW j \in Jobs, NEW a \in 0..MaxStarts, Receive(w, j, a) PROVE Calm
  <2> DEFINE run == [Idle EXCEPT !.phase = "run", !.bull = j, !.made = a + 1]
             mark == [run EXCEPT !.pc = "mark", !.cur = j, !.batch = Carries(j)]
             follow == [run EXCEPT !.pc = "follow"]
  <2>1. mark.pc = "mark" /\ follow.pc = "follow"
    BY DEF Idle
  <2>2. wk' \in {[wk EXCEPT ![w] = mark], [wk EXCEPT ![w] = follow]} \/ UNCHANGED wk
    BY <1>1 DEF Receive
  <2> HIDE DEF mark, follow
  <2>3. Leaves(w)
    BY <1>1, <2>1, <2>2 DEF Receive, Idle, Leaves, Committed
  <2> QED
    BY <1>1, <2>3 DEF Receive, db
<1>2. ASSUME FindFollower(w) PROVE Calm
  BY <1>2 DEF FindFollower, db, Leaves, Committed, WorkerState
<1>3. ASSUME NoFollower(w) PROVE Calm
  BY <1>3 DEF NoFollower, Idle, db, Leaves, Committed
<1>4. ASSUME MarkRunning(w) PROVE Calm
  BY <1>4 DEF MarkRunning, Leaves, Committed, WorkerState
<1>5. ASSUME SendNothing(w) \/ Deliver(w) \/ ReadBatch(w) \/ WriteBatch(w) PROVE Calm
  BY <1>5 DEF SendNothing, Deliver, ReadBatch, WriteBatch, db, Leaves, Committed, WorkerState
<1>6. ASSUME FilterOut(w) \/ MarkCompleted(w) PROVE Calm
  BY <1>6 DEF FilterOut, MarkCompleted, Leaves, Committed, WorkerState
<1>7. ASSUME SendThrows(w) \/ DeliverThrows(w) PROVE Calm
  BY <1>7 DEF SendThrows, DeliverThrows, Caught, db, Leaves, Committed, WorkerState
<1>8. ASSUME QueueNext(w) PROVE Calm
  <2>1. Leaves(w)
    BY <1>8, ReturnLeaves DEF QueueNext, WorkerState, Leaves, Committed
  <2> QED
    BY <1>8, <2>1 DEF QueueNext, db
<1>9. ASSUME Reject(w) PROVE Calm
  BY <1>9 DEF Reject, db, Leaves, Committed, WorkerState
<1>10. ASSUME HandleFailed(w) PROVE Calm
  <2>1. Leaves(w)
    BY <1>10 DEF HandleFailed, Idle, Leaves, Committed, WorkerState
  <2> QED
    BY <1>10, <2>1 DEF HandleFailed
<1> QED
  BY <1>1, <1>2, <1>3, <1>4, <1>5, <1>6, <1>7, <1>8, <1>9, <1>10 DEF RunJobStep

\* A cancel call only makes a digest DELAYED that was merged.
LEMMA CancelCollectsNothing ==
    ASSUME TypeInv, NEW x \in Cancelled, CancelStep(x)
    PROVE  wk' = wk /\ CollectsNothing
<1> USE DEF TypeInv, TypeOK, CollectsNothing, Gathered
<1>1. CASE CancelFind(x) \/ CancelFindPending(x) \/ FindNextMain(x) \/ NoNextMain(x) \/ Repoint(x)
  BY <1>1 DEF CancelFind, CancelFindPending, FindNextMain, NoNextMain, Repoint, db
<1>2. CASE CancelWrite(x)
  BY <1>2 DEF CancelWrite
<1>3. CASE Promote(x)
  BY <1>3 DEF Promote
<1>4. CASE PromoteChild(x)
  BY <1>4 DEF PromoteChild
<1> QED
  BY <1>1, <1>2, <1>3, <1>4 DEF CancelStep

-----------------------------------------------------------------------------
\* A notification that passes the check of the back-off has an older one, if no two
\* notifications of a group are created at the same time.
LEMMA PassedHasOlder ==
    ASSUME Backoff = TRUE,
           \A m, n \in Notifs : GroupOf[m] = GroupOf[n] /\ CreatedAt[m] = CreatedAt[n] => m = n,
           NEW j \in Jobs, PassesBackoff(j)
    PROVE  HasOlder(j[1])
<1>1. PICK u \in OtherTriggers(j) : CreatedAt[j[1]] >= CreatedAt[u[1]]
  BY DEF PassesBackoff
<1>2. /\ u[1] \in Notifs /\ u[1] # j[1] /\ GroupOf[u[1]] = GroupOf[j[1]] /\ j[1] \in Notifs
  BY <1>1, JobFacts DEF OtherTriggers, WithStatus
<1>3. CreatedAt[u[1]] \in Nat /\ CreatedAt[j[1]] \in Nat
  BY <1>2, NotifAssumption
<1>4. CreatedAt[u[1]] < CreatedAt[j[1]]
  BY <1>1, <1>2, <1>3
<1> QED
  BY <1>2, <1>4 DEF HasOlder

\* The two decisions commit a slot to a job that has passed.
LEMMA DecideKeeps ==
    ASSUME Backoff = TRUE,
           \A m, n \in Notifs : GroupOf[m] = GroupOf[n] /\ CreatedAt[m] = CreatedAt[n] => m = n,
           BackoffInv, NEW w \in Workers, DecideCreate(w) \/ DecideMerge(w), TypeInv'
    PROVE  BackoffInv'
<1>1. wk[w].add \in Jobs /\ PassesBackoff(wk[w].add) /\ status' = status
  BY DEF DecideCreate, DecideMerge, Adding, BackoffInv, TypeInv, SlotsOK, SlotOK, db
<1>2. HasOlder(wk[w].add[1])
  BY <1>1, PassedHasOlder
<1>3. wk'[w].add = wk[w].add /\ \A v \in Workers : v # w => wk'[v] = wk[v]
  <2> wk \in [Workers -> WorkerState]
    BY DEF BackoffInv, TypeInv, TypeOK
  <2>1. CASE DecideCreate(w)
    BY <2>1 DEF DecideCreate, GoTo, WorkerState
  <2>2. CASE DecideMerge(w)
    <3> DEFINE i == wk[w].add
    <3>1. PICK d : wk' = [wk EXCEPT ![w].pc = "merge", ![w].hit = d, ![w].todo = i[2]..NumSteps]
      BY <2>2 DEF DecideMerge
    <3> QED
      BY <3>1 DEF WorkerState
  <2> QED
    BY <2>1, <2>2
<1>4. CommitInv'
  BY <1>2, <1>3 DEF BackoffInv, CommitInv, HasOlder
<1>5. CollectsNothing
  BY <1>1 DEF CollectsNothing
<1> QED
  BY <1>4, <1>5, NothingKeeps DEF BackoffInv

\* The writes collect jobs of the notification the slot is committed to.
LEMMA WriteKeeps ==
    ASSUME BackoffInv, NEW w \in Workers, Claim(w) \/ MergeWrite(w), TypeInv'
    PROVE  BackoffInv'
<1> USE DEF TypeInv, TypeOK
<1>1. wk[w].add \in Jobs /\ HasOlder(wk[w].add[1])
  BY DEF Claim, MergeWrite, BackoffInv, CommitInv, Committed, SlotsOK, SlotOK
<1>2. \A j \in Jobs : status'[j] = status[j] \/ j[1] = wk[w].add[1]
  <2>1. CASE Claim(w)
    BY <2>1 DEF Claim, SetStatus, BackoffInv
  <2>2. CASE MergeWrite(w)
    BY <2>2 DEF MergeWrite, BackoffInv
  <2> QED
    BY <2>1, <2>2
<1>3. OldestGoesAtOnce'
  BY <1>1, <1>2, CollectedHaveOlder, CollectedHaveOlderNext DEF BackoffInv
<1>4. Leaves(w) \/ (wk'[w].add = wk[w].add /\ \A v \in Workers : v # w => wk'[v] = wk[v])
  <2>1. CASE Claim(w)
    BY <2>1, GoToLeaves DEF Claim, BackoffInv, Committed
  <2>2. CASE MergeWrite(w)
    <3>1. Merged(w) \/ \E s \in wk[w].todo : wk' = [wk EXCEPT ![w].todo = @ \ {s}]
      BY <2>2 DEF MergeWrite
    <3> QED
      BY <3>1, ReturnLeaves DEF Merged, BackoffInv, WorkerState
  <2> QED
    BY <2>1, <2>2
<1>5. CommitInv'
  BY <1>1, <1>4 DEF BackoffInv, CommitInv, Leaves, HasOlder
<1> QED
  BY <1>3, <1>5 DEF BackoffInv

-----------------------------------------------------------------------------
\* With a back-off digest the oldest notification of a group is never delayed or merged,
\* for every number of notifications and slots and every workflow, under every fault and
\* whatever is cancelled, as long as a group never has two notifications of one instant.
THEOREM OldestIsNotDigested ==
    ASSUME Backoff = TRUE,
           \A m, n \in Notifs : GroupOf[m] = GroupOf[n] /\ CreatedAt[m] = CreatedAt[n] => m = n
    PROVE  Spec => []OldestGoesAtOnce
<1>1. Init => BackoffInv
  <2> SUFFICES ASSUME Init PROVE BackoffInv
    OBVIOUS
  <2>1. CommitInv
    BY DEF Init, Idle, CommitInv, Committed
  <2>2. OldestGoesAtOnce
    BY DEF Init, OldestGoesAtOnce, WithStatus
  <2> QED
    BY <2>1, <2>2, TypeInit DEF BackoffInv
<1>2. BackoffInv /\ [Next]_vars => BackoffInv'
  <2> SUFFICES ASSUME BackoffInv, [Next]_vars PROVE BackoffInv'
    OBVIOUS
  <2>1. TypeInv'
    <3>1. CASE Next
      BY <3>1, AddJobType, RunJobType, CancelType, EnvironmentType DEF Next, BackoffInv
    <3>2. CASE UNCHANGED vars
      BY <3>2 DEF BackoffInv, TypeInv, TypeOK, SlotsOK, CallsOK, vars
    <3> QED
      BY <3>1, <3>2
  <2>2. ASSUME NEW w \in Workers, AddJobStep(w) PROVE BackoffInv'
    <3>1. \/ Leaves(w) /\ CollectsNothing
          \/ DecideCreate(w) \/ DecideMerge(w) \/ Claim(w) \/ MergeWrite(w)
      BY <2>2, AddJobLeaves DEF BackoffInv
    <3> QED
      BY <2>1, <3>1, LeavesKeeps, DecideKeeps, WriteKeeps
  <2>3. ASSUME NEW w \in Workers, RunJobStep(w) PROVE BackoffInv'
    BY <2>1, <2>3, RunJobLeaves, LeavesKeeps DEF BackoffInv
  <2>4. ASSUME wk' = wk, CollectsNothing PROVE BackoffInv'
    BY <2>1, <2>4, NothingKeeps DEF BackoffInv, CommitInv, HasOlder
  <2>5. ASSUME NEW x \in Cancelled, CancelStep(x) PROVE BackoffInv'
    BY <2>4, <2>5, CancelCollectsNothing DEF BackoffInv
  <2>6. ASSUME NEW w \in Workers, EnqueueLost(w) \/ Crash(w) PROVE BackoffInv'
    <3>1. Leaves(w)
      BY <2>6, ReturnLeaves
         DEF EnqueueLost, Crash, Idle, Leaves, Committed, BackoffInv, TypeInv, TypeOK
    <3>2. CollectsNothing
      BY <2>6 DEF EnqueueLost, Crash, db, CollectsNothing
    <3> QED
      BY <2>1, <3>1, <3>2, LeavesKeeps
  <2>7. ASSUME NEW g \in Groups, LockExpires(g) \/ DeadLockExpires(g) PROVE BackoffInv'
    BY <2>4, <2>7 DEF LockExpires, DeadLockExpires, db, CollectsNothing
  <2>8. CASE UNCHANGED vars
    BY <2>4, <2>8 DEF vars, CollectsNothing
  <2> QED
    BY <2>2, <2>3, <2>5, <2>6, <2>7, <2>8 DEF Next, Environment
<1>3. BackoffInv => OldestGoesAtOnce
  BY DEF BackoffInv
<1> QED
  BY <1>1, <1>2, <1>3, PTL DEF Spec
-----------------------------------------------------------------------------
(***************************************************************************)
(* A notification that is cancelled in time stays silent.  What its jobs   *)
(* leave behind is a delivery of a cancelled digest or delay, which RunJob *)
(* drops or gives to another digest; the slot that runs the other digest   *)
(* under it never comes back to the cancelled job as long as that digest   *)
(* cannot throw.                                                           *)
(***************************************************************************)
\* The workflows it is proved for: a digest throws nothing, and neither a digest nor a
\* delay comes after it.
DigestsDoNotThrow ==
    \A s \in Steps : StepType[s] = "digest" => s \notin Fallible \cup WebhookSteps

NoActionAfterDigest ==
    \A s, t \in Steps : s < t /\ StepType[s] = "digest" => StepType[t] \notin {"digest", "delay"}

\* A job that RunJob would not run.
IsDropped(j) == IsAction(j) /\ status[j] = "canceled"

\* A slot with nothing of notification n, but perhaps the delivery of a cancelled digest
\* of n: it looks for a digest to give it to, runs that one, or adds the step after it.
SlotIsSilent(r, n) ==
    /\ n \notin r.batch
    /\ r.cur \in Jobs => r.cur[1] # n
    /\ r.add \in Jobs => r.add[1] # n
    /\ r.bull \in Jobs /\ r.bull[1] = n =>
          /\ IsDropped(r.bull)
          /\ r.err = "none" /\ r.pc \notin {"skip", "reject", "failed"}
          /\ r.add \in Jobs => ~IsAction(r.add)
          /\ r.pc = "follow" \/ (r.cur \in Jobs /\ IsDigest(r.cur))

\* A job of a silenced notification is not open, and waits in the queue only to be dropped.
JobIsSilent(j) ==
    /\ status[j] \notin {"absent", "delayed", "merged"}
    /\ \A a \in 0..MaxStarts : waiting[j][a] > 0 => IsDropped(j)

Silence(n) ==
    /\ \A w \in Workers : SlotIsSilent(wk[w], n)
    /\ \A j \in Jobs : n \notin events[j]
    /\ \A j \in Jobs : j[1] = n => JobIsSilent(j)

\* A cancel call hands the group over to a digest, and touches the steps after it.
HandsOver(r) ==
    /\ r.pc \in {"promote", "children", "repoint"} => IsDigest(r.next)
    /\ r.pc = "children" => r.todo \subseteq r.next[2] + 1 .. NumSteps

SilenceInv ==
    /\ TypeInv
    /\ \A n \in silenced : Silence(n)
    /\ \A x \in Cancelled : HandsOver(cc[x])

\* A step of slot w that writes nothing of notification n and leaves the slot silent.
Hushed(w, n) ==
    /\ \A v \in Workers : v # w => wk'[v] = wk[v]
    /\ SlotIsSilent(wk'[w], n)
    /\ \A j \in Jobs : j[1] = n =>
          /\ status'[j] = status[j]
          /\ \A a \in 0..MaxStarts : waiting'[j][a] > 0 => waiting[j][a] > 0 \/ IsDropped(j)
    /\ \A j \in Jobs : n \notin events'[j]
    /\ \A s \in Steps : delivered'[s][n] = delivered[s][n]

-----------------------------------------------------------------------------
LEMMA IdleIsSilent ==
    ASSUME NEW n
    PROVE  SlotIsSilent(Idle, n)
BY EnvironmentAssumption DEF SlotIsSilent, Idle

LEMMA HushedKeeps ==
    ASSUME NEW n, Silence(n), NEW w \in Workers, Hushed(w, n)
    PROVE  Silence(n)'
<1>1. ASSUME NEW v \in Workers PROVE SlotIsSilent(wk[v], n)'
  <2>1. SlotIsSilent(wk'[v], n)
    BY DEF Hushed, Silence
  <2> QED
    BY <2>1 DEF SlotIsSilent, Hushed, IsDropped, IsAction, TypeOf
<1>2. ASSUME NEW j \in Jobs, j[1] = n PROVE JobIsSilent(j)'
  BY <1>2 DEF Hushed, Silence, JobIsSilent, IsDropped, IsAction, TypeOf
<1> QED
  BY <1>1, <1>2 DEF Hushed, Silence

\* The silence of a notification hangs on nothing but these variables.
LEMMA NothingIsHeard ==
    ASSUME NEW n, Silence(n), UNCHANGED <<status, events, waiting, wk>>
    PROVE  Silence(n)'
BY DEF Silence, SlotIsSilent, JobIsSilent, IsDropped, IsAction, TypeOf

LEMMA ReturnIsSilent ==
    ASSUME wk \in [Workers -> WorkerState], NEW w \in Workers, NEW n, SlotIsSilent(wk[w], n),
           NEW e, Return(w, e), e = "none" \/ ~(wk[w].bull \in Jobs /\ wk[w].bull[1] = n)
    PROVE  /\ \A v \in Workers : v # w => wk'[v] = wk[v]
           /\ SlotIsSilent(wk'[w], n)
<1> DEFINE thrown == IF e = "none" THEN wk[w].err ELSE e
           rej == [wk[w] EXCEPT !.pc = "reject", !.err = thrown]
<1>1. CASE wk[w].phase = "run" /\ thrown # "none"
  <2>1. wk' = [wk EXCEPT ![w] = rej]
    BY <1>1 DEF Return
  <2>2. /\ rej.batch = wk[w].batch /\ rej.cur = wk[w].cur /\ rej.add = wk[w].add
        /\ rej.bull = wk[w].bull
    BY DEF WorkerState
  <2>3. SlotIsSilent(rej, n)
    <3> HIDE DEF rej
    <3> QED
      BY <1>1, <2>2 DEF SlotIsSilent
  <2> QED
    BY <2>1, <2>3
<1>2. CASE ~(wk[w].phase = "run" /\ thrown # "none")
  <2>1. wk' = [wk EXCEPT ![w] = Idle]
    BY <1>2 DEF Return
  <2> QED
    BY <2>1, IdleIsSilent
<1> QED
  BY <1>1, <1>2

\* A slot goes on to another point of the code with the same jobs.
LEMMA GoToIsSilent ==
    ASSUME wk \in [Workers -> WorkerState], NEW w \in Workers, NEW n, SlotIsSilent(wk[w], n),
           wk[w].pc # "follow", NEW pc, GoTo(w, pc),
           pc \in {"skip", "reject", "failed"} => ~(wk[w].bull \in Jobs /\ wk[w].bull[1] = n)
    PROVE  /\ \A v \in Workers : v # w => wk'[v] = wk[v]
           /\ SlotIsSilent(wk'[w], n)
<1> DEFINE r == [wk[w] EXCEPT !.pc = pc]
<1>1. /\ r.batch = wk[w].batch /\ r.cur = wk[w].cur /\ r.add = wk[w].add
      /\ r.bull = wk[w].bull /\ r.err = wk[w].err /\ r.pc = pc
  BY DEF WorkerState
<1>2. SlotIsSilent(r, n)
  <2> HIDE DEF r
  <2> QED
    BY <1>1 DEF SlotIsSilent
<1> QED
  BY <1>2 DEF GoTo

LEMMA PushIsSilent ==
    ASSUME waiting \in [Jobs -> [0..MaxStarts -> Nat]], NEW i \in Jobs, NEW made, Push(i, made),
           NEW n, i[1] = n => IsDropped(i)
    PROVE  \A j \in Jobs : j[1] = n =>
              \A a \in 0..MaxStarts : waiting'[j][a] > 0 => waiting[j][a] > 0 \/ IsDropped(j)
<1> SUFFICES ASSUME NEW j \in Jobs, j[1] = n, NEW a \in 0..MaxStarts
             PROVE  waiting'[j][a] > 0 => waiting[j][a] > 0 \/ IsDropped(j)
  OBVIOUS
<1>1. CASE i = j
  BY <1>1
<1>2. CASE i # j
  BY <1>2 DEF Push
<1> QED
  BY <1>1, <1>2

-----------------------------------------------------------------------------
\* No step of AddJob speaks of a silenced notification.
LEMMA AddJobIsSilent ==
    ASSUME TypeInv, NEW n \in Notifs, Silence(n), NEW w \in Workers, AddJobStep(w)
    PROVE  Hushed(w, n)
<1> USE DEF TypeInv, TypeOK
<1> wk[w] \in WorkerState /\ SlotOK(wk[w])
  BY DEF SlotsOK
<1> SlotIsSilent(wk[w], n)
  BY DEF Silence
<1> \A j \in Jobs : n \notin events[j]
  BY DEF Silence
<1>a. ASSUME UNCHANGED <<events, delivered, waiting>>,
             \A v \in Workers : v # w => wk'[v] = wk[v],
             SlotIsSilent(wk'[w], n),
             \A j \in Jobs : j[1] = n => status'[j] = status[j]
      PROVE  Hushed(w, n)
  BY <1>a DEF Hushed
<1>b. ASSUME wk[w].pc = "add", IsAction(wk[w].add)
      PROVE  ~(wk[w].bull \in Jobs /\ wk[w].bull[1] = n)
  BY <1>b DEF SlotOK, SlotIsSilent
<1>1. ASSUME NEW m \in Notifs, StoreJobs(w, m) PROVE Hushed(w, n)
  <2> DEFINE r == [Idle EXCEPT !.pc = "add", !.add = <<m, 1>>]
  <2>1. <<m, 1>> \in Jobs
    BY StepAssumption DEF Jobs, Steps
  <2>2. m # n
    BY <1>1, <2>1 DEF StoreJobs, Silence, JobIsSilent
  <2>3. SlotIsSilent(r, n)
    BY <2>2, EnvironmentAssumption DEF SlotIsSilent, Idle
  <2>4. wk'[w] = r /\ \A v \in Workers : v # w => wk'[v] = wk[v]
    BY <1>1 DEF StoreJobs
  <2> QED
    BY <1>1, <1>a, <2>2, <2>3, <2>4 DEF StoreJobs, history
<1>2. ASSUME AddPlain(w) PROVE Hushed(w, n)
  <2>1. wk[w].add \in Jobs /\ wk[w].add[1] # n
    BY <1>2 DEF AddPlain, SlotOK, SlotIsSilent
  <2> QED
    BY <1>2, <1>a, <2>1, GoToIsSilent DEF AddPlain, SetStatus, history
<1>3. ASSUME AddDelay(w) PROVE Hushed(w, n)
  <2>1. wk[w].add \in Jobs /\ wk[w].add[1] # n
    BY <1>3 DEF AddDelay, Adding, SlotOK, SlotIsSilent
  <2> QED
    BY <1>3, <1>a, <2>1, GoToIsSilent DEF AddDelay, Adding, SetStatus, history
<1>4. ASSUME AddDelayMisconfigured(w) PROVE Hushed(w, n)
  <2>1. wk[w].add \in Jobs /\ wk[w].add[1] # n
    BY <1>4 DEF AddDelayMisconfigured, Adding, SlotOK, SlotIsSilent
  <2>2. ~(wk[w].bull \in Jobs /\ wk[w].bull[1] = n)
    BY <1>4, <1>b DEF AddDelayMisconfigured, Adding, IsAction
  <2> QED
    BY <1>4, <1>a, <2>1, <2>2, ReturnIsSilent DEF AddDelayMisconfigured, SetStatus, history
<1>5. ASSUME AddThrows(w) PROVE Hushed(w, n)
  <2>1. ~(wk[w].bull \in Jobs /\ wk[w].bull[1] = n)
    BY <1>5, <1>b DEF AddThrows
  <2>2. PICK e \in ErrorsOf(wk[w].add[2]) : Return(w, e)
    BY <1>5 DEF AddThrows
  <2>3. /\ \A v \in Workers : v # w => wk'[v] = wk[v]
        /\ SlotIsSilent(wk'[w], n)
    BY <2>1, <2>2, ReturnIsSilent
  <2> QED
    BY <1>5, <1>a, <2>3 DEF AddThrows, db, history
<1>6. ASSUME DigestFiltered(w) PROVE Hushed(w, n)
  BY <1>6, <1>a, <1>b, GoToIsSilent DEF DigestFiltered, Adding, IsAction, db, history
<1>7. ASSUME DecideSkip(w) PROVE Hushed(w, n)
  BY <1>7, <1>a, <1>b, GoToIsSilent DEF DecideSkip, Adding, IsAction, db, history
<1>8. ASSUME DecideCreate(w) PROVE Hushed(w, n)
  BY <1>8, <1>a, GoToIsSilent DEF DecideCreate, Adding, db, history
<1>9. ASSUME DecideMerge(w) PROVE Hushed(w, n)
  <2>1. PICK d \in OpenDigests(GroupOf[wk[w].add[1]]) :
           wk' = [wk EXCEPT ![w].pc = "merge", ![w].hit = d, ![w].todo = wk[w].add[2]..NumSteps]
    BY <1>9 DEF DecideMerge
  <2> DEFINE r == [wk[w] EXCEPT !.pc = "merge", !.hit = d, !.todo = wk[w].add[2]..NumSteps]
  <2>2. /\ r.batch = wk[w].batch /\ r.cur = wk[w].cur /\ r.add = wk[w].add
        /\ r.bull = wk[w].bull /\ r.err = wk[w].err /\ r.pc = "merge"
    BY DEF WorkerState
  <2>3. SlotIsSilent(r, n)
    <3> HIDE DEF r
    <3> QED
      BY <1>9, <2>2 DEF SlotIsSilent, DecideMerge, Adding
  <2>4. wk'[w] = r /\ \A v \in Workers : v # w => wk'[v] = wk[v]
    BY <2>1
  <2> QED
    BY <1>9, <1>a, <2>3, <2>4 DEF DecideMerge, db, history
<1>10. ASSUME Claim(w) PROVE Hushed(w, n)
  <2>1. wk[w].add \in Jobs /\ wk[w].add[1] # n
    BY <1>10 DEF Claim, SlotOK, SlotIsSilent
  <2> QED
    BY <1>10, <1>a, <2>1, GoToIsSilent DEF Claim, SetStatus, history
<1>11. ASSUME MergeWrite(w) PROVE Hushed(w, n)
  <2>1. PICK s \in wk[w].todo :
           /\ status' = [status EXCEPT ![<<wk[w].add[1], s>>] = "merged"]
           /\ IF wk[w].todo = {s} THEN Merged(w) ELSE wk' = [wk EXCEPT ![w].todo = @ \ {s}]
    BY <1>11 DEF MergeWrite
  <2>2. wk[w].add \in Jobs /\ wk[w].add[1] # n
    BY <1>11 DEF MergeWrite, SlotOK, SlotIsSilent
  <2>3. \A j \in Jobs : j[1] = n => status'[j] = status[j]
    BY <2>1, <2>2
  <2>4. /\ \A v \in Workers : v # w => wk'[v] = wk[v]
        /\ SlotIsSilent(wk'[w], n)
    <3>1. CASE wk[w].todo = {s}
      BY <2>1, <3>1, ReturnIsSilent DEF Merged
    <3>2. CASE wk[w].todo # {s}
      <4> DEFINE r == [wk[w] EXCEPT !.todo = @ \ {s}]
      <4>1. /\ r.batch = wk[w].batch /\ r.cur = wk[w].cur /\ r.add = wk[w].add
            /\ r.bull = wk[w].bull /\ r.err = wk[w].err /\ r.pc = wk[w].pc
        BY DEF WorkerState
      <4>2. SlotIsSilent(r, n)
        <5> HIDE DEF r
        <5> QED
          BY <4>1 DEF SlotIsSilent
      <4> QED
        BY <2>1, <3>2, <4>2
    <3> QED
      BY <3>1, <3>2
  <2> QED
    BY <1>11, <1>a, <2>3, <2>4 DEF MergeWrite, history
<1>12. ASSUME Skip(w) PROVE Hushed(w, n)
  <2>1. wk[w].add \in Jobs /\ wk[w].add[1] # n
    BY <1>12 DEF Skip, SlotOK, SlotIsSilent
  <2>2. /\ \A v \in Workers : v # w => wk'[v] = wk[v]
        /\ SlotIsSilent(wk'[w], n)
    <3>1. CASE HasChild(wk[w].add)
      <4> DEFINE r == [wk[w] EXCEPT !.pc = "add", !.add = Child(wk[w].add)]
      <4>1. /\ r.batch = wk[w].batch /\ r.cur = wk[w].cur /\ r.add = Child(wk[w].add)
            /\ r.bull = wk[w].bull /\ r.err = wk[w].err /\ r.pc = "add"
        BY DEF WorkerState
      <4>2. Child(wk[w].add)[1] # n
        BY <2>1 DEF Child
      <4>3. SlotIsSilent(r, n)
        <5> HIDE DEF r
        <5> QED
          BY <1>12, <4>1, <4>2 DEF SlotIsSilent, Skip
      <4> QED
        BY <1>12, <3>1, <4>3 DEF Skip, Skipped
    <3>2. CASE ~HasChild(wk[w].add)
      BY <1>12, <3>2, ReturnIsSilent DEF Skip, Skipped
    <3> QED
      BY <3>1, <3>2
  <2> QED
    BY <1>12, <1>a, <2>1, <2>2 DEF Skip, SetStatus, history
<1>13. ASSUME Enqueue(w) PROVE Hushed(w, n)
  <2>1. wk[w].add \in Jobs /\ wk[w].add[1] # n
    BY <1>13 DEF Enqueue, SlotOK, SlotIsSilent
  <2>2. \A j \in Jobs : j[1] = n =>
           \A a \in 0..MaxStarts : waiting'[j][a] > 0 => waiting[j][a] > 0 \/ IsDropped(j)
    BY <1>13, <2>1, PushIsSilent DEF Enqueue
  <2> QED
    BY <1>13, <2>2, ReturnIsSilent DEF Enqueue, db, history, Hushed
<1> QED
  BY <1>1, <1>2, <1>3, <1>4, <1>5, <1>6, <1>7, <1>8, <1>9, <1>10, <1>11, <1>12, <1>13
     DEF AddJobStep

-----------------------------------------------------------------------------
\* Only the open digests and the merged ones find their way into a message, and a
\* silenced notification has none.
LEMMA CarriesIsSilent ==
    ASSUME NEW n, Silence(n), NEW j \in Jobs, j[1] # n
    PROVE  n \notin Carries(j) /\ n \notin DigestEvents(j)
<1>1. n \notin Carries(j)
  BY DEF Silence, Carries
<1>2. \A f \in Followers(j) : f[1] # n
  BY DEF Silence, JobIsSilent, Followers, WithStatus
<1> QED
  BY <1>1, <1>2 DEF DigestEvents

\* The slot that holds the delivery of a cancelled digest runs another digest.
LEMMA CurIsDigest ==
    ASSUME NEW w \in Workers, NEW n, SlotIsSilent(wk[w], n), wk[w].bull \in Jobs, wk[w].bull[1] = n
    PROVE  /\ IsDropped(wk[w].bull) /\ wk[w].err = "none"
           /\ wk[w].pc # "follow" => wk[w].cur \in Jobs /\ IsDigest(wk[w].cur)
BY DEF SlotIsSilent

LEMMA ChildIsNoAction ==
    ASSUME NoActionAfterDigest, NEW j \in Jobs, IsDigest(j), HasChild(j)
    PROVE  ~IsAction(Child(j))
<1>1. j[2] \in Steps /\ j[2] + 1 \in Steps /\ j[2] < j[2] + 1
  BY JobFacts, StepAssumption DEF HasChild, Steps, Jobs
<1>2. Child(j)[2] = j[2] + 1
  BY DEF Child
<1> QED
  BY <1>1, <1>2 DEF NoActionAfterDigest, IsDigest, IsAction, TypeOf

LEMMA SentIsSilent ==
    ASSUME delivered \in [Steps -> [Notifs -> Nat]], NEW s \in Steps, NEW batch, Sent(s, batch),
           NEW n \in Notifs, n \notin batch
    PROVE  \A i \in Steps : delivered'[i][n] = delivered[i][n]
BY DEF Sent

\* No step of RunJob speaks of a silenced notification.
LEMMA RunJobIsSilent ==
    ASSUME DigestsDoNotThrow, NoActionAfterDigest, TypeInv, NEW n \in Notifs, Silence(n),
           NEW w \in Workers, RunJobStep(w)
    PROVE  Hushed(w, n)
<1> USE DEF TypeInv, TypeOK
<1> wk[w] \in WorkerState /\ SlotOK(wk[w])
  BY DEF SlotsOK
<1> SlotIsSilent(wk[w], n)
  BY DEF Silence
<1> \A j \in Jobs : n \notin events[j]
  BY DEF Silence
<1>a. ASSUME UNCHANGED <<events, delivered, waiting>>,
             \A v \in Workers : v # w => wk'[v] = wk[v],
             SlotIsSilent(wk'[w], n),
             \A j \in Jobs : j[1] = n => status'[j] = status[j]
      PROVE  Hushed(w, n)
  BY <1>a DEF Hushed
<1>b. wk[w].pc \in {"mark", "send", "digest", "complete", "next"} => wk[w].cur \in Jobs /\ wk[w].cur[1] # n
  BY DEF SlotOK, SlotIsSilent
<1>1. ASSUME NEW j \in Jobs, NEW a \in 0..MaxStarts, Receive(w, j, a) PROVE Hushed(w, n)
  <2> DEFINE run == [Idle EXCEPT !.phase = "run", !.bull = j, !.made = a + 1]
             mark == [run EXCEPT !.pc = "mark", !.cur = j, !.batch = Carries(j)]
             follow == [run EXCEPT !.pc = "follow"]
  <2>1. j[1] = n => IsDropped(j)
    BY <1>1 DEF Receive, HasDelivery, Silence, JobIsSilent
  <2>2. \A i \in Jobs, b \in 0..MaxStarts : waiting'[i][b] > 0 => waiting[i][b] > 0
    <3> SUFFICES ASSUME NEW i \in Jobs, NEW b \in 0..MaxStarts
                 PROVE  waiting'[i][b] > 0 => waiting[i][b] > 0
      OBVIOUS
    <3>1. waiting' = [waiting EXCEPT ![j][a] = @ - 1] /\ waiting[j][a] > 0
      BY <1>1 DEF Receive, HasDelivery
    <3>2. waiting[i] \in [0..MaxStarts -> Nat] /\ waiting[j] \in [0..MaxStarts -> Nat]
      OBVIOUS
    <3>3. CASE i = j /\ b = a
      BY <3>1, <3>3
    <3>4. CASE ~(i = j /\ b = a)
      BY <3>1, <3>2, <3>4
    <3> QED
      BY <3>3, <3>4
  <2>3. /\ \A v \in Workers : v # w => wk'[v] = wk[v]
        /\ SlotIsSilent(wk'[w], n)
    <3>1. CASE wk' = [wk EXCEPT ![w] = mark] /\ ~DelayedEventIsCanceled(j)
      <4>1. j[1] # n
        BY <2>1, <3>1 DEF IsDropped, DelayedEventIsCanceled
      <4>2. n \notin Carries(j)
        BY <4>1, CarriesIsSilent
      <4>3. mark.batch = Carries(j) /\ mark.cur = j /\ mark.add = NoJob /\ mark.bull = j
        BY DEF Idle
      <4>4. SlotIsSilent(mark, n)
        <5> HIDE DEF mark
        <5> QED
          BY <4>1, <4>2, <4>3, EnvironmentAssumption DEF SlotIsSilent
      <4> QED
        BY <3>1, <4>4
    <3>2. CASE wk' = [wk EXCEPT ![w] = follow] /\ DelayedEventIsCanceled(j)
      <4>1. /\ follow.batch = {} /\ follow.cur = NoJob /\ follow.add = NoJob /\ follow.bull = j
            /\ follow.err = "none" /\ follow.pc = "follow"
        BY DEF Idle
      <4>2. SlotIsSilent(follow, n)
        <5> HIDE DEF follow
        <5> QED
          BY <3>2, <4>1, EnvironmentAssumption
             DEF SlotIsSilent, IsDropped, DelayedEventIsCanceled
      <4> QED
        BY <3>2, <4>2
    <3>3. CASE UNCHANGED wk
      BY <3>3
    <3> QED
      BY <1>1, <3>1, <3>2, <3>3 DEF Receive
  <2> QED
    BY <1>1, <2>2, <2>3 DEF Receive, db, history, Hushed
<1>2. ASSUME FindFollower(w) PROVE Hushed(w, n)
  <2>1. PICK f \in ActiveFollowers(wk[w].bull) :
           wk' = [wk EXCEPT ![w].pc = "mark", ![w].cur = f, ![w].batch = Carries(f)]
    BY <1>2 DEF FindFollower
  <2>2. f \in Jobs /\ IsDigest(f) /\ status[f] = "delayed"
    BY DEF ActiveFollowers, OpenDigests, WithStatus
  <2>3. f[1] # n
    BY <2>2 DEF Silence, JobIsSilent
  <2>4. n \notin Carries(f)
    BY <2>2, <2>3, CarriesIsSilent
  <2> DEFINE r == [wk[w] EXCEPT !.pc = "mark", !.cur = f, !.batch = Carries(f)]
  <2>5. /\ r.pc = "mark" /\ r.cur = f /\ r.batch = Carries(f) /\ r.bull = wk[w].bull
        /\ r.add = wk[w].add /\ r.err = wk[w].err
    BY DEF WorkerState
  <2>6. SlotIsSilent(r, n)
    <3> HIDE DEF r
    <3> QED
      BY <2>2, <2>3, <2>4, <2>5 DEF SlotIsSilent
  <2>7. wk'[w] = r /\ \A v \in Workers : v # w => wk'[v] = wk[v]
    BY <2>1
  <2> QED
    BY <1>2, <1>a, <2>6, <2>7 DEF FindFollower, db, history
<1>3. ASSUME NoFollower(w) PROVE Hushed(w, n)
  BY <1>3, <1>a, IdleIsSilent DEF NoFollower, db, history
<1>4. ASSUME MarkRunning(w) PROVE Hushed(w, n)
  <2>1. wk[w].cur[1] # n
    BY <1>4, <1>b DEF MarkRunning, At
  <2>2. \A j \in Jobs : j[1] = n => status'[j] = status[j]
    BY <1>4, <2>1 DEF MarkRunning
  <2> QED
    BY <1>4, <1>a, <2>2, GoToIsSilent DEF MarkRunning, At, GoTo, history
<1>5. ASSUME SendNothing(w) PROVE Hushed(w, n)
  BY <1>5, <1>a, GoToIsSilent DEF SendNothing, At, db, history, GoTo
<1>6. ASSUME Deliver(w) PROVE Hushed(w, n)
  <2>1. wk[w].cur[2] \in Steps
    BY <1>6, <1>b, JobFacts DEF Deliver, At
  <2>2. \A s \in Steps : delivered'[s][n] = delivered[s][n]
    BY <1>6, <2>1, SentIsSilent DEF Deliver, SlotIsSilent
  <2>3. /\ \A v \in Workers : v # w => wk'[v] = wk[v]
        /\ SlotIsSilent(wk'[w], n)
    BY <1>6, GoToIsSilent DEF Deliver, At, GoTo
  <2> QED
    BY <1>6, <2>2, <2>3 DEF Deliver, db, Hushed
<1>7. ASSUME ReadBatch(w) PROVE Hushed(w, n)
  <2>1. n \notin DigestEvents(wk[w].cur)
    BY <1>7, <1>b, CarriesIsSilent DEF ReadBatch, At
  <2> DEFINE r == [wk[w] EXCEPT !.pc = "digest", !.batch = DigestEvents(wk[w].cur)]
  <2>2. /\ r.pc = "digest" /\ r.batch = DigestEvents(wk[w].cur) /\ r.cur = wk[w].cur
        /\ r.bull = wk[w].bull /\ r.add = wk[w].add /\ r.err = wk[w].err
    BY DEF WorkerState
  <2>3. SlotIsSilent(r, n)
    <3> HIDE DEF r
    <3> QED
      BY <1>7, <2>1, <2>2 DEF SlotIsSilent, ReadBatch, At
  <2>4. wk'[w] = r /\ \A v \in Workers : v # w => wk'[v] = wk[v]
    BY <1>7 DEF ReadBatch
  <2> QED
    BY <1>7, <1>a, <2>3, <2>4 DEF ReadBatch, db, history
<1>8. ASSUME WriteBatch(w) PROVE Hushed(w, n)
  <2>1. \A j \in Jobs : n \notin events'[j]
    BY <1>8 DEF WriteBatch, SlotIsSilent
  <2>2. /\ \A v \in Workers : v # w => wk'[v] = wk[v]
        /\ SlotIsSilent(wk'[w], n)
    BY <1>8, GoToIsSilent DEF WriteBatch, At, GoTo
  <2> QED
    BY <1>8, <2>1, <2>2 DEF WriteBatch, history, Hushed
<1>9. ASSUME FilterOut(w) PROVE Hushed(w, n)
  <2>1. \A j \in Jobs : j[1] = n => status'[j] = status[j]
    BY <1>9, <1>b DEF FilterOut, At
  <2> QED
    BY <1>9, <1>a, <2>1, GoToIsSilent DEF FilterOut, At, GoTo, history
<1>10. ASSUME NEW e, At(w, "send"), ~IsDigest(wk[w].cur), Caught(w, e)
       PROVE  /\ \A v \in Workers : v # w => wk'[v] = wk[v]
              /\ SlotIsSilent(wk'[w], n)
  <2> DEFINE r == [wk[w] EXCEPT !.err = e,
                                !.pc = IF StopsChain(wk[w].cur[2], e) THEN "reject" ELSE "next"]
  <2>1. ~(wk[w].bull \in Jobs /\ wk[w].bull[1] = n)
    BY <1>10, CurIsDigest DEF At
  <2>2. r.batch = wk[w].batch /\ r.cur = wk[w].cur /\ r.add = wk[w].add /\ r.bull = wk[w].bull
    BY DEF WorkerState
  <2>3. SlotIsSilent(r, n)
    <3> HIDE DEF r
    <3> QED
      BY <2>1, <2>2 DEF SlotIsSilent
  <2> QED
    BY <1>10, <2>3 DEF Caught
<1>11. ASSUME SendThrows(w) PROVE Hushed(w, n)
  <2>1. wk[w].cur \in Jobs /\ wk[w].cur[2] \in Steps
    BY <1>11, <1>b, JobFacts DEF SendThrows, At
  <2>2. PICK e \in ErrorsOf(wk[w].cur[2]) : Caught(w, e)
    BY <1>11 DEF SendThrows
  <2>3. ~IsDigest(wk[w].cur)
    BY <2>1, <2>2 DEF ErrorsOf, DigestsDoNotThrow, IsDigest, TypeOf
  <2>4. /\ \A v \in Workers : v # w => wk'[v] = wk[v]
        /\ SlotIsSilent(wk'[w], n)
    BY <1>10, <1>11, <2>2, <2>3 DEF SendThrows
  <2> QED
    BY <1>11, <1>a, <2>4 DEF SendThrows, db, history
<1>12. ASSUME DeliverThrows(w) PROVE Hushed(w, n)
  <2>1. wk[w].cur[2] \in Steps
    BY <1>12, <1>b, JobFacts DEF DeliverThrows, At
  <2>2. \A s \in Steps : delivered'[s][n] = delivered[s][n]
    BY <1>12, <2>1, SentIsSilent DEF DeliverThrows, SlotIsSilent
  <2>3. ~IsDigest(wk[w].cur)
    BY <1>12 DEF DeliverThrows, IsDigest
  <2>4. /\ \A v \in Workers : v # w => wk'[v] = wk[v]
        /\ SlotIsSilent(wk'[w], n)
    BY <1>10, <1>12, <2>3 DEF DeliverThrows
  <2> QED
    BY <1>12, <2>2, <2>4 DEF DeliverThrows, db, Hushed
<1>13. ASSUME MarkCompleted(w) PROVE Hushed(w, n)
  <2>1. \A j \in Jobs : j[1] = n => status'[j] = status[j]
    BY <1>13, <1>b DEF MarkCompleted, At
  <2> QED
    BY <1>13, <1>a, <2>1, GoToIsSilent DEF MarkCompleted, At, GoTo, history
<1>14. ASSUME QueueNext(w) PROVE Hushed(w, n)
  <2>1. wk[w].cur \in Jobs /\ wk[w].cur[1] # n
    BY <1>14, <1>b DEF QueueNext, At
  <2>2. /\ \A v \in Workers : v # w => wk'[v] = wk[v]
        /\ SlotIsSilent(wk'[w], n)
    <3>1. CASE HasChild(wk[w].cur)
      <4> DEFINE r == [wk[w] EXCEPT !.pc = "add", !.add = Child(wk[w].cur)]
      <4>1. /\ r.batch = wk[w].batch /\ r.cur = wk[w].cur /\ r.add = Child(wk[w].cur)
            /\ r.bull = wk[w].bull /\ r.err = wk[w].err /\ r.pc = "add"
        BY DEF WorkerState
      <4>2. Child(wk[w].cur)[1] # n
        BY <2>1 DEF Child
      <4>3. IsDigest(wk[w].cur) => ~IsAction(Child(wk[w].cur))
        BY <2>1, <3>1, ChildIsNoAction
      <4>4. SlotIsSilent(r, n)
        <5> HIDE DEF r
        <5> QED
          BY <1>14, <4>1, <4>2, <4>3 DEF SlotIsSilent, QueueNext, At
      <4> QED
        BY <1>14, <3>1, <4>4 DEF QueueNext
    <3>2. CASE ~HasChild(wk[w].cur)
      BY <1>14, <3>2, ReturnIsSilent DEF QueueNext
    <3> QED
      BY <3>1, <3>2
  <2> QED
    BY <1>14, <1>a, <2>2 DEF QueueNext, db, history
<1>d. wk[w].pc \in {"reject", "failed"} => wk[w].bull \in Jobs /\ wk[w].bull[1] # n
  BY DEF SlotOK, SlotIsSilent
<1>15. ASSUME Reject(w) PROVE Hushed(w, n)
  <2> DEFINE r == [wk[w] EXCEPT !.pc = "failed"]
  <2>1. wk[w].bull \in Jobs /\ wk[w].bull[1] # n
    BY <1>15, <1>d DEF Reject, At
  <2>2. r.batch = wk[w].batch /\ r.cur = wk[w].cur /\ r.add = wk[w].add /\ r.bull = wk[w].bull
    BY DEF WorkerState
  <2>3. SlotIsSilent(r, n)
    <3> HIDE DEF r
    <3> QED
      BY <2>1, <2>2 DEF SlotIsSilent
  <2>4. \A j \in Jobs : j[1] = n =>
           \A a \in 0..MaxStarts : waiting'[j][a] > 0 => waiting[j][a] > 0 \/ IsDropped(j)
    BY <1>15, <2>1, PushIsSilent DEF Reject
  <2>5. wk'[w] = r /\ \A v \in Workers : v # w => wk'[v] = wk[v]
    BY <1>15 DEF Reject
  <2> QED
    BY <1>15, <2>3, <2>4, <2>5 DEF Reject, db, history, Hushed
<1>16. ASSUME HandleFailed(w) PROVE Hushed(w, n)
  <2> DEFINE j == wk[w].bull
             r == [wk[w] EXCEPT !.pc = "next", !.phase = "last", !.cur = j, !.err = "none"]
  <2>1. j \in Jobs /\ j[1] # n
    BY <1>16, <1>d DEF HandleFailed, At
  <2>2. /\ r.batch = wk[w].batch /\ r.cur = j /\ r.add = wk[w].add /\ r.bull = j
    BY DEF WorkerState
  <2>3. SlotIsSilent(r, n)
    <3> HIDE DEF r
    <3> QED
      BY <2>1, <2>2 DEF SlotIsSilent
  <2>4. wk' = [wk EXCEPT ![w] = r] \/ wk' = [wk EXCEPT ![w] = Idle]
    BY <1>16 DEF HandleFailed
  <2>5. /\ \A v \in Workers : v # w => wk'[v] = wk[v]
        /\ SlotIsSilent(wk'[w], n)
    <3> HIDE DEF r
    <3> QED
      BY <2>3, <2>4, IdleIsSilent
  <2>6. \A i \in Jobs : i[1] = n => status'[i] = status[i]
    BY <1>16, <2>1 DEF HandleFailed
  <2> QED
    BY <1>16, <1>a, <2>5, <2>6 DEF HandleFailed, history
<1> QED
  BY <1>1, <1>2, <1>3, <1>4, <1>5, <1>6, <1>7, <1>8, <1>9, <1>11, <1>12, <1>13, <1>14,
     <1>15, <1>16 DEF RunJobStep

-----------------------------------------------------------------------------
\* A cancel call leaves a silenced notification silent: what RunJob drops stays cancelled.
LEMMA CallKeeps ==
    ASSUME NEW n, Silence(n), UNCHANGED <<events, waiting, wk>>,
           \A j \in Jobs : j[1] = n => /\ status'[j] \notin {"absent", "delayed", "merged"}
                                       /\ IsDropped(j) => status'[j] = "canceled"
    PROVE  Silence(n)'
<1>1. ASSUME NEW w \in Workers PROVE SlotIsSilent(wk[w], n)'
  BY DEF Silence, SlotIsSilent, IsDropped, IsAction, TypeOf
<1>2. ASSUME NEW j \in Jobs, j[1] = n PROVE JobIsSilent(j)'
  BY <1>2 DEF Silence, JobIsSilent, IsDropped, IsAction, TypeOf
<1> QED
  BY <1>1, <1>2 DEF Silence

\* A notification that is cancelled in time is silent from then on.
LEMMA InTimeIsSilent ==
    ASSUME TypeInv, NEW x \in Cancelled, CancelWrite(x), NEW n \in Notifs, InTime(n, cc[x].ids)
    PROVE  Silence(n)'
<1> USE DEF TypeInv, TypeOK
<1>1. /\ status' = [j \in Jobs |-> IF j \in cc[x].ids THEN "canceled" ELSE status[j]]
      /\ UNCHANGED <<events, waiting, wk>>
  BY DEF CancelWrite
<1>2. ASSUME NEW w \in Workers PROVE SlotIsSilent(wk[w], n)'
  <2>1. /\ n \notin wk[w].batch
        /\ wk[w]["bull"] # NoJob => wk[w]["bull"][1] # n
        /\ wk[w]["cur"] # NoJob => wk[w]["cur"][1] # n
        /\ wk[w]["add"] # NoJob => wk[w]["add"][1] # n
    BY DEF InTime
  <2> QED
    BY <1>1, <2>1, EnvironmentAssumption DEF SlotIsSilent
<1>3. ASSUME NEW j \in Jobs, j[1] = n PROVE JobIsSilent(j)'
  <2>1. status'[j] \notin {"absent", "delayed", "merged"}
    BY <1>1, <1>3 DEF InTime
  <2>2. ASSUME NEW a \in 0..MaxStarts, waiting[j][a] > 0 PROVE IsDropped(j)'
    BY <1>1, <1>3, <2>2 DEF InTime, IsDropped, IsAction, TypeOf
  <2> QED
    BY <1>1, <2>1, <2>2 DEF JobIsSilent
<1>4. \A j \in Jobs : n \notin events'[j]
  BY <1>1 DEF InTime
<1> QED
  BY <1>2, <1>3, <1>4 DEF Silence

\* What a cancel call makes of its own record is what it may hand over.
LEMMA CallHandsOver ==
    ASSUME TypeInv, NEW x \in Cancelled, CancelStep(x), \A y \in Cancelled : HandsOver(cc[y])
    PROVE  \A y \in Cancelled : HandsOver(cc[y])'
<1> USE DEF TypeInv, TypeOK
<1> cc[x] \in CancelState /\ CallOK(cc[x]) /\ HandsOver(cc[x])
  BY DEF CallsOK
<1>a. ASSUME NEW r, HandsOver(r), cc' = [cc EXCEPT ![x] = r]
      PROVE  \A y \in Cancelled : HandsOver(cc[y])'
  BY <1>a DEF HandsOver, IsDigest, TypeOf
<1>1. ASSUME NEW r \in CancelState, r.pc \notin {"promote", "children", "repoint"},
             cc' = [cc EXCEPT ![x] = r]
      PROVE  \A y \in Cancelled : HandsOver(cc[y])'
  BY <1>1, <1>a DEF HandsOver
<1>2. CASE CancelFind(x)
  <2> DEFINE found == JobsOf(x) \cap WithStatus({"delayed", "merged"})
             mains == {j \in found : IsDigest(j) /\ status[j] = "delayed"}
             pc == IF \E j \in found : IsAction(j) THEN "pending" ELSE "write"
  <2>1. PICK main \in IF mains = {} THEN {NoJob} ELSE mains :
           cc' = [cc EXCEPT ![x].pc = pc, ![x].ids = found, ![x].main = main]
    BY <1>2 DEF CancelFind
  <2>2. pc \in {"pending", "write"}
    OBVIOUS
  <2> HIDE DEF found, mains, pc
  <2> DEFINE r == [cc[x] EXCEPT !.pc = pc, !.ids = found, !.main = main]
  <2>3. r.pc = pc
    BY DEF CancelState
  <2>4. cc' = [cc EXCEPT ![x] = r]
    BY <2>1
  <2> HIDE DEF r
  <2>5. HandsOver(r)
    BY <2>2, <2>3 DEF HandsOver
  <2> QED
    BY <1>a, <2>4, <2>5
<1>3. CASE CancelFindPending(x)
  <2> DEFINE r == [cc[x] EXCEPT !.pc = "write",
                                !.ids = @ \cup (JobsOf(x) \cap WithStatus({"pending"}))]
  <2>1. r.pc = "write"
    BY DEF CancelState
  <2>2. cc' = [cc EXCEPT ![x] = r]
    BY <1>3 DEF CancelFindPending
  <2> HIDE DEF r
  <2>3. HandsOver(r)
    BY <2>1 DEF HandsOver
  <2> QED
    BY <1>a, <2>2, <2>3
<1>4. CASE CancelWrite(x)
  <2> DEFINE r == [cc[x] EXCEPT !.pc = IF cc[x].main = NoJob THEN "done" ELSE "find"]
  <2>1. r.pc \in {"done", "find"}
    BY DEF CancelState
  <2>2. cc' = [cc EXCEPT ![x] = r]
    BY <1>4 DEF CancelWrite
  <2> HIDE DEF r
  <2>3. HandsOver(r)
    BY <2>1 DEF HandsOver
  <2> QED
    BY <1>a, <2>2, <2>3
<1>5. CASE FindNextMain(x)
  <2>1. PICK f \in Oldest(Followers(cc[x].main)) :
           cc' = [cc EXCEPT ![x].pc = "promote", ![x].next = f]
    BY <1>5 DEF FindNextMain
  <2>2. IsDigest(f)
    BY DEF Oldest, Followers
  <2> DEFINE r == [cc[x] EXCEPT !.pc = "promote", !.next = f]
  <2>3. r.pc = "promote" /\ r.next = f
    BY DEF CancelState
  <2>4. cc' = [cc EXCEPT ![x] = r]
    BY <2>1
  <2> HIDE DEF r
  <2>5. HandsOver(r)
    BY <2>2, <2>3 DEF HandsOver
  <2> QED
    BY <1>a, <2>4, <2>5
<1>6. CASE NoNextMain(x)
  <2> DEFINE r == [cc[x] EXCEPT !.pc = "done"]
  <2>1. r.pc = "done"
    BY DEF CancelState
  <2>2. cc' = [cc EXCEPT ![x] = r]
    BY <1>6 DEF NoNextMain
  <2> HIDE DEF r
  <2>3. HandsOver(r)
    BY <2>1 DEF HandsOver
  <2> QED
    BY <1>a, <2>2, <2>3
<1>7. CASE Promote(x)
  <2> DEFINE r == [cc[x] EXCEPT !.pc = IF HasChild(cc[x].next) THEN "children" ELSE "repoint",
                                !.todo = cc[x].next[2] + 1 .. NumSteps]
  <2>1. /\ r.pc \in {"children", "repoint"} /\ r.next = cc[x].next
        /\ r.todo = cc[x].next[2] + 1 .. NumSteps
    BY DEF CancelState
  <2>2. cc' = [cc EXCEPT ![x] = r]
    BY <1>7 DEF Promote
  <2>3. IsDigest(cc[x].next)
    BY <1>7 DEF Promote, CancelAt, HandsOver
  <2> HIDE DEF r
  <2>4. HandsOver(r)
    BY <2>1, <2>3 DEF HandsOver
  <2> QED
    BY <1>a, <2>2, <2>4
<1>8. CASE PromoteChild(x)
  <2>1. PICK s \in cc[x].todo :
           cc' = [cc EXCEPT ![x].todo = @ \ {s},
                            ![x].pc = IF cc[x].todo = {s} THEN "repoint" ELSE "children"]
    BY <1>8 DEF PromoteChild
  <2> DEFINE r == [cc[x] EXCEPT !.todo = cc[x].todo \ {s},
                                !.pc = IF cc[x].todo = {s} THEN "repoint" ELSE "children"]
  <2>2. r.next = cc[x].next /\ r.todo = cc[x].todo \ {s}
    BY DEF CancelState
  <2>3. cc' = [cc EXCEPT ![x] = r]
    BY <2>1
  <2>4. IsDigest(cc[x].next) /\ cc[x].todo \subseteq cc[x].next[2] + 1 .. NumSteps
    BY <1>8 DEF PromoteChild, CancelAt, HandsOver
  <2> HIDE DEF r
  <2>5. HandsOver(r)
    BY <2>2, <2>4 DEF HandsOver
  <2> QED
    BY <1>a, <2>3, <2>5
<1>9. CASE Repoint(x)
  <2> DEFINE r == [cc[x] EXCEPT !.pc = "done"]
  <2>1. r.pc = "done"
    BY DEF CancelState
  <2>2. cc' = [cc EXCEPT ![x] = r]
    BY <1>9 DEF Repoint
  <2> HIDE DEF r
  <2>3. HandsOver(r)
    BY <2>1 DEF HandsOver
  <2> QED
    BY <1>a, <2>2, <2>3
<1> QED
  BY <1>2, <1>3, <1>4, <1>5, <1>6, <1>7, <1>8, <1>9 DEF CancelStep

\* Neither a cancel call of another transaction, nor a second one of its own, wakes it.
LEMMA CancelIsSilent ==
    ASSUME NoActionAfterDigest, TypeInv, NEW n \in Notifs, Silence(n), NEW x \in Cancelled,
           HandsOver(cc[x]), CancelStep(x)
    PROVE  Silence(n)'
<1> USE DEF TypeInv, TypeOK
<1> \A j \in Jobs : j[1] = n => status[j] \notin {"absent", "delayed", "merged"}
  BY DEF Silence, JobIsSilent
<1>1. CASE UNCHANGED <<status, events, waiting, wk>>
  BY <1>1, NothingIsHeard
<1>2. CASE CancelWrite(x)
  <2>1. /\ status' = [j \in Jobs |-> IF j \in cc[x].ids THEN "canceled" ELSE status[j]]
        /\ UNCHANGED <<events, waiting, wk>>
    BY <1>2 DEF CancelWrite
  <2>2. ASSUME NEW j \in Jobs, j[1] = n
        PROVE  /\ status'[j] \notin {"absent", "delayed", "merged"}
               /\ IsDropped(j) => status'[j] = "canceled"
    BY <2>1, <2>2 DEF IsDropped
  <2> QED
    BY <2>1, <2>2, CallKeeps
<1>3. CASE Promote(x)
  <2>1. UNCHANGED <<events, waiting, wk>>
    BY <1>3 DEF Promote
  <2>2. ASSUME NEW j \in Jobs, j[1] = n PROVE status'[j] = status[j]
    BY <1>3, <2>2 DEF Promote
  <2>3. ASSUME NEW j \in Jobs, j[1] = n
        PROVE  /\ status'[j] \notin {"absent", "delayed", "merged"}
               /\ IsDropped(j) => status'[j] = "canceled"
    BY <2>2, <2>3 DEF IsDropped
  <2> QED
    BY <2>1, <2>3, CallKeeps
<1>4. CASE PromoteChild(x)
  <2> DEFINE f == cc[x].next
  <2>1. PICK s \in cc[x].todo : status' = [status EXCEPT ![<<f[1], s>>] = "pending"]
    BY <1>4 DEF PromoteChild
  <2>2. f \in Jobs /\ IsDigest(f) /\ s \in f[2] + 1 .. NumSteps
    BY <1>4 DEF PromoteChild, CancelAt, HandsOver, CallsOK, CallOK
  <2>3. f[2] \in Steps /\ f[2] \in Nat /\ s \in Steps /\ f[2] < s
    BY <2>2, JobFacts, StepAssumption
  <2>4. StepType[s] \notin {"digest", "delay"}
    BY <2>2, <2>3 DEF NoActionAfterDigest, IsDigest, TypeOf
  <2>5. ~IsAction(<<f[1], s>>)
    BY <2>4 DEF IsAction, TypeOf
  <2>6. ASSUME NEW j \in Jobs, j[1] = n
        PROVE  /\ status'[j] \notin {"absent", "delayed", "merged"}
               /\ IsDropped(j) => status'[j] = "canceled"
    <3>1. CASE j = <<f[1], s>>
      BY <2>1, <2>5, <2>6, <3>1 DEF IsDropped
    <3>2. CASE j # <<f[1], s>>
      BY <2>1, <2>6, <3>2 DEF IsDropped
    <3> QED
      BY <3>1, <3>2
  <2>7. UNCHANGED <<events, waiting, wk>>
    BY <1>4 DEF PromoteChild
  <2> QED
    BY <2>6, <2>7, CallKeeps
<1> QED
  BY <1>1, <1>2, <1>3, <1>4
     DEF CancelStep, CancelFind, CancelFindPending, FindNextMain, NoNextMain, Repoint, db

\* A crash gives back the delivery of a cancelled digest; a lost enqueue is not of a job of
\* the notification.
LEMMA FaultIsSilent ==
    ASSUME TypeInv, NEW n \in Notifs, Silence(n), NEW w \in Workers, EnqueueLost(w) \/ Crash(w)
    PROVE  Hushed(w, n)
<1> USE DEF TypeInv, TypeOK
<1> wk[w] \in WorkerState /\ SlotOK(wk[w]) /\ SlotIsSilent(wk[w], n)
  BY DEF SlotsOK, Silence
<1> \A j \in Jobs : n \notin events[j]
  BY DEF Silence
<1>1. CASE EnqueueLost(w)
  BY <1>1, ReturnIsSilent DEF EnqueueLost, db, history, Hushed
<1>2. CASE Crash(w)
  <2>1. \A j \in Jobs : j[1] = n =>
           \A a \in 0..MaxStarts : waiting'[j][a] > 0 => waiting[j][a] > 0 \/ IsDropped(j)
    <3>1. CASE wk[w].phase = "run" /\ ~At(w, "failed")
      <4>1. wk[w].bull \in Jobs /\ Push(wk[w].bull, wk[w].made)
        BY <1>2, <3>1 DEF Crash, SlotOK
      <4>2. wk[w].bull[1] = n => IsDropped(wk[w].bull)
        BY <4>1 DEF SlotIsSilent
      <4> QED
        BY <4>1, <4>2, PushIsSilent
    <3>2. CASE ~(wk[w].phase = "run" /\ ~At(w, "failed"))
      BY <1>2, <3>2 DEF Crash
    <3> QED
      BY <3>1, <3>2
  <2>2. wk'[w] = Idle /\ \A v \in Workers : v # w => wk'[v] = wk[v]
    BY <1>2 DEF Crash
  <2> QED
    BY <1>2, <2>1, <2>2, IdleIsSilent DEF Crash, db, history, Hushed
<1> QED
  BY <1>1, <1>2

-----------------------------------------------------------------------------
\* Every step keeps the silence, and sends nothing of a silenced notification.
LEMMA SilenceStep ==
    ASSUME DigestsDoNotThrow, NoActionAfterDigest, SilenceInv, [Next]_vars
    PROVE  /\ SilenceInv'
           /\ \A n \in silenced, s \in Steps : delivered'[s][n] = delivered[s][n]
<1> DEFINE Goal == /\ SilenceInv'
                   /\ \A n \in silenced, s \in Steps : delivered'[s][n] = delivered[s][n]
<1> TypeInv /\ silenced \subseteq Notifs
  BY DEF SilenceInv, TypeInv, TypeOK
<1>1. TypeInv'
  <2>1. CASE Next
    BY <2>1, AddJobType, RunJobType, CancelType, EnvironmentType DEF Next
  <2>2. CASE UNCHANGED vars
    BY <2>2 DEF TypeInv, TypeOK, SlotsOK, CallsOK, vars
  <2> QED
    BY <2>1, <2>2
<1>2. ASSUME NEW w \in Workers, \A n \in silenced : Hushed(w, n), UNCHANGED <<cc, silenced>>
      PROVE  Goal
  <2>1. \A n \in silenced : Silence(n)'
    BY <1>2, HushedKeeps DEF SilenceInv
  <2>2. \A x \in Cancelled : HandsOver(cc[x])'
    BY <1>2 DEF SilenceInv, HandsOver, IsDigest, TypeOf
  <2> QED
    BY <1>1, <1>2, <2>1, <2>2 DEF SilenceInv, Hushed
<1>3. ASSUME NEW w \in Workers, AddJobStep(w) PROVE Goal
  <2>1. \A n \in silenced : Hushed(w, n)
    BY <1>3, AddJobIsSilent DEF SilenceInv
  <2>2. UNCHANGED <<cc, silenced>>
    BY <1>3 DEF AddJobStep, StoreJobs, AddPlain, AddDelay, AddDelayMisconfigured, AddThrows,
                DigestFiltered, DecideSkip, DecideCreate, DecideMerge, Claim, MergeWrite, Skip,
                Enqueue, history
  <2> QED
    BY <1>2, <2>1, <2>2
<1>4. ASSUME NEW w \in Workers, RunJobStep(w) PROVE Goal
  <2>1. \A n \in silenced : Hushed(w, n)
    BY <1>4, RunJobIsSilent DEF SilenceInv
  <2>2. UNCHANGED <<cc, silenced>>
    BY <1>4 DEF RunJobStep, Receive, FindFollower, NoFollower, MarkRunning, SendNothing, Deliver,
                ReadBatch, WriteBatch, FilterOut, SendThrows, DeliverThrows, MarkCompleted,
                QueueNext, Reject, HandleFailed, history
  <2> QED
    BY <1>2, <2>1, <2>2
<1>5. ASSUME NEW w \in Workers, EnqueueLost(w) \/ Crash(w) PROVE Goal
  <2>1. \A n \in silenced : Hushed(w, n)
    BY <1>5, FaultIsSilent DEF SilenceInv
  <2>2. UNCHANGED <<cc, silenced>>
    BY <1>5 DEF EnqueueLost, Crash, history
  <2> QED
    BY <1>2, <2>1, <2>2
<1>6. ASSUME NEW x \in Cancelled, CancelStep(x) PROVE Goal
  <2>1. \A n \in silenced : Silence(n)'
    BY <1>6, CancelIsSilent DEF SilenceInv
  <2>2. \A y \in Cancelled : HandsOver(cc[y])'
    BY <1>6, CallHandsOver DEF SilenceInv
  <2>3. \A n \in silenced' : Silence(n)'
    <3>1. CASE CancelWrite(x)
      <4>1. ASSUME NEW n \in silenced', n \notin silenced
            PROVE  n \in Notifs /\ InTime(n, cc[x].ids)
        BY <3>1, <4>1 DEF CancelWrite
      <4> QED
        BY <2>1, <3>1, <4>1, InTimeIsSilent
    <3>2. CASE silenced' = silenced
      BY <2>1, <3>2
    <3> QED
      BY <1>6, <3>1, <3>2
         DEF CancelStep, CancelFind, CancelFindPending, FindNextMain, NoNextMain, Promote,
             PromoteChild, Repoint, history
  <2>4. delivered' = delivered
    BY <1>6 DEF CancelStep, CancelFind, CancelFindPending, CancelWrite, FindNextMain, NoNextMain,
                Promote, PromoteChild, Repoint, history
  <2> QED
    BY <1>1, <2>2, <2>3, <2>4 DEF SilenceInv
<1>7. ASSUME UNCHANGED <<status, events, waiting, wk, cc, delivered, silenced>> PROVE Goal
  <2>1. \A n \in silenced : Silence(n)'
    BY <1>7, NothingIsHeard DEF SilenceInv
  <2>2. \A x \in Cancelled : HandsOver(cc[x])'
    BY <1>7 DEF SilenceInv, HandsOver, IsDigest, TypeOf
  <2> QED
    BY <1>1, <1>7, <2>1, <2>2 DEF SilenceInv
<1>8. ASSUME NEW g \in Groups, LockExpires(g) \/ DeadLockExpires(g) PROVE Goal
  BY <1>7, <1>8 DEF LockExpires, DeadLockExpires, db, history
<1>9. CASE UNCHANGED vars
  BY <1>7, <1>9 DEF vars
<1> QED
  BY <1>3, <1>4, <1>5, <1>6, <1>8, <1>9 DEF Next, Environment

\* A notification that is cancelled before any slot has started on it is never heard of
\* again, for every number of notifications, slots and cancel calls, also several of one
\* group, with crashes, lost enqueues and locks that expire, and when channel steps or delays
\* fail and are retried.  The assumptions keep out two ways to be heard again: the error of a
\* webhook filter under the delivery of a cancelled digest is booked on the cancelled job, and
\* a promotion sets back to PENDING every step after the follower, a delay that was queued and
\* cancelled meanwhile included.
THEOREM CancelledAreNotHeard ==
    ASSUME DigestsDoNotThrow, NoActionAfterDigest
    PROVE  Spec => CancelledStaysSilent
<1>1. Init => SilenceInv
  <2> SUFFICES ASSUME Init PROVE SilenceInv
    OBVIOUS
  <2>1. silenced = {}
    BY DEF Init
  <2>2. \A x \in Cancelled : HandsOver(cc[x])
    BY DEF Init, NoCancel, HandsOver
  <2> QED
    BY <2>1, <2>2, TypeInit DEF SilenceInv
<1>2. SilenceInv /\ [Next]_vars => SilenceInv'
  BY SilenceStep
<1>3. SilenceInv /\ [Next]_vars
         => [\A n \in silenced, s \in Steps : delivered'[s][n] = delivered[s][n]]_vars
  BY SilenceStep
<1> QED
  BY <1>1, <1>2, <1>3, PTL DEF Spec, CancelledStaysSilent
=============================================================================
