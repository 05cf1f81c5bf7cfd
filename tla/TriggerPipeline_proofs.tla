----------------------- MODULE TriggerPipeline_proofs -----------------------
(***************************************************************************)
(* Proofs about the trigger pipeline.  What a worker may still send is     *)
(* bound by where it stands; what is in the subscriber queue or stored is  *)
(* bound for ever, since commands and topics do not change.                *)
(***************************************************************************)
EXTENDS TriggerPipeline, TLAPS

AddressedTo(t, s) ==
    \/ cmd[t].broadcast
    \/ s \in cmd[t].singles
    \/ s \in MembersOf(t) /\ s \notin cmd[t].actor

\* A subscriber can get a trigger in one way only.
SourceFor(t, s) ==
    IF cmd[t].broadcast THEN "broadcast" ELSE IF s \in cmd[t].singles THEN "single" ELSE "topic"

Due(j) == AddressedTo(j.trigger, j.to) /\ j.source = SourceFor(j.trigger, j.to)

JobsAreDue == (\A d \in sq : Due(d.job)) /\ (\A d \in stored : Due(d.job))

\* What a worker knows of the trigger it works on.
WorkerIsRight ==
    \A t \in Triggers :
        /\ At(t, "cursor") => cmd[t].broadcast
        /\ At(t, "singles") \/ At(t, "topics") =>
              ~cmd[t].broadcast /\ trig[t].actor = cmd[t].actor
        /\ At(t, "sending") /\ ~cmd[t].broadcast =>
              \A s \in trig[t].todo : AddressedTo(t, s) /\ s \notin cmd[t].singles

\* Nothing was sent of a trigger that waits for its first delivery.
WaitingHasNone ==
    \A t \in Triggers : (At(t, "new") \/ At(t, "queued")) /\ t \notin tripped =>
        /\ \A d \in sq : d.job.trigger # t
        /\ \A d \in stored : d.job.trigger # t

-----------------------------------------------------------------------------
\* What is put in the subscriber queue.
LEMMA JobsType ==
    ASSUME NEW t \in Triggers, NEW subs \in SUBSET Subscribers, NEW source \in Sources,
           trig[t].pass \in Nat
    PROVE  Jobs(t, subs, source) \subseteq SubscriberJobs
BY DEF Jobs, SubscriberJobs

LEMMA QueueType ==
    ASSUME NEW jobs \in SUBSET SubscriberJobs, Queue(jobs),
           sq \subseteq QueueEntry
    PROVE  sq' \subseteq QueueEntry
BY DEF Queue, QueueEntry

\* The jobs that a worker puts in the subscriber queue in a step, if any.
LEMMA Sending ==
    ASSUME TypeOK, NEW t \in Triggers,
           SendSingles(t) \/ SendBatch(t) \/ Throw(t)
    PROVE  \/ sq' = sq
           \/ At(t, "singles") /\ \E subs \in SUBSET cmd[t].singles : Queue(Jobs(t, subs, "single"))
           \/ At(t, "sending") /\ \E subs \in SUBSET trig[t].todo : Queue(Jobs(t, subs, SourceOf(t)))
<1>1. CASE SendSingles(t)
  BY <1>1 DEF SendSingles
<1>2. CASE SendBatch(t)
  <2>1. PICK b \in Batches(t) : Queue(Jobs(t, Found(t, b), SourceOf(t)))
    BY <1>2 DEF SendBatch
  <2>2. Found(t, b) \subseteq trig[t].todo
    BY <2>1 DEF Found, Batches
  <2> QED
    BY <1>2, <2>1, <2>2 DEF SendBatch
<1>3. CASE Throw(t)
  <2>1. CASE At(t, "sending") /\ \E b \in Batches(t) : \E c \in SUBSET Found(t, b) :
                                     Queue(Jobs(t, c, SourceOf(t)))
    BY <2>1 DEF Found, Batches
  <2> QED
    BY <1>3, <2>1 DEF Throw
<1> QED
  BY <1>1, <1>2, <1>3

LEMMA GoesType ==
    ASSUME trig \in [Triggers -> TriggerState], NEW t \in Triggers,
           NEW pc \in Active \cup {"new", "declined", "queued", "rejected", "failed", "done"},
           NEW todo \in SUBSET Subscribers, Goes(t, pc, todo)
    PROVE  trig' \in [Triggers -> TriggerState]
BY DEF Goes, TriggerState

LEMMA Typing == Spec => []TypeOK
<1>1. Init => TypeOK
  BY TriggerAssumption DEF Init, TypeOK, TriggerState
<1>2. TypeOK /\ [Next]_vars => TypeOK'
  <2> SUFFICES ASSUME TypeOK, [Next]_vars PROVE TypeOK'
    OBVIOUS
  <2> USE CommandAssumption, TriggerAssumption DEF TypeOK
  <2> DEFINE Typed == trig' \in [Triggers -> TriggerState]
  <2>1. ASSUME NEW t \in Triggers, SendSingles(t) \/ SendBatch(t) \/ Throw(t) PROVE TypeOK'
    <3>1. sq' \subseteq QueueEntry
      <4>1. \A subs \in SUBSET Subscribers, source \in Sources :
                Queue(Jobs(t, subs, source)) => sq' \subseteq QueueEntry
        BY JobsType, QueueType DEF TriggerState
      <4>2. SourceOf(t) \in Sources /\ "single" \in Sources
        BY DEF SourceOf, Sources
      <4>3. cmd[t].singles \subseteq Subscribers /\ trig[t].todo \subseteq Subscribers
        BY DEF TriggerState
      <4> QED
        BY <2>1, <4>1, <4>2, <4>3, Sending
    <3>2. Typed
      <4>1. trig[t].todo \subseteq Subscribers
        BY DEF TriggerState
      <4>2. \E pc \in {"topics", "sending", "failed"}, todo \in SUBSET Subscribers : Goes(t, pc, todo)
        BY <2>1, <4>1 DEF SendSingles, SendBatch, Throw
      <4> QED
        BY <4>2, GoesType DEF Active
    <3> QED
      BY <2>1, <3>1, <3>2 DEF SendSingles, SendBatch, Throw, Fault
  <2>2. ASSUME NEW t \in Triggers, Accept(t) \/ AcceptLost(t) \/ Reject(t) \/ Admit(t) PROVE TypeOK'
    <3>1. \E pc \in {"queued", "declined", "failed", "rejected", "admitted"} : Goes(t, pc, {})
      BY <2>2 DEF Accept, AcceptLost, Reject, Admit
    <3>2. Typed
      BY <3>1, GoesType DEF Active
    <3> QED
      BY <2>2, <3>2 DEF Accept, AcceptLost, Reject, Admit, Fault
  <2>3. ASSUME NEW t \in Triggers, ProcessActor(t) PROVE TypeOK'
    <3>1. Typed
      <4>1. PICK actor \in SUBSET Subscribers : AfterActor(t, actor)
        BY <2>3 DEF ProcessActor
      <4>2. [trig[t] EXCEPT !.pc = IF cmd[t].broadcast THEN "cursor" ELSE "singles", !.actor = actor]
                \in TriggerState
        BY DEF TriggerState, Active
      <4> QED
        BY <4>1, <4>2 DEF AfterActor
    <3> QED
      BY <2>3, <3>1 DEF ProcessActor, Fault
  <2>4. ASSUME NEW t \in Triggers, TopicMissing(t) \/ ResolveTopics(t) \/ Finish(t) PROVE TypeOK'
    <3>1. TopicMembers(t) \subseteq Subscribers
      BY DEF TopicMembers, MembersOf
    <3>2. Typed
      BY <2>4, <3>1, GoesType DEF TopicMissing, ResolveTopics, Finish, Active
    <3> QED
      BY <2>4, <3>2 DEF TopicMissing, ResolveTopics, Finish
  <2>5. ASSUME NEW t \in Triggers, OpenCursor(t) PROVE TypeOK'
    <3>1. PICK late \in SUBSET (Subscribers \ known) : Goes(t, "sending", known \cup late)
      BY <2>5 DEF OpenCursor
    <3>2. known \cup late \subseteq Subscribers
      OBVIOUS
    <3>3. Typed
      BY <3>1, <3>2, GoesType DEF Active
    <3> QED
      BY <2>5, <3>3 DEF OpenCursor
  <2>6. ASSUME NEW t \in Triggers, CrashTrigger(t) PROVE TypeOK'
    <3>1. [pc |-> IF trig[t].pass < MaxStalls THEN "queued" ELSE "failed",
           pass |-> trig[t].pass + 1, actor |-> {}, todo |-> {}] \in TriggerState
      BY DEF TriggerState
    <3>2. Typed
      BY <2>6, <3>1 DEF CrashTrigger
    <3> QED
      BY <2>6, <3>2 DEF CrashTrigger, Fault
  <2>7. ASSUME NEW d \in sq, SubscriberStep(d) \/ GiveUp(d) PROVE TypeOK'
    <3>1. d.job \in SubscriberJobs /\ d.try \in Nat /\ d.job.to \in Subscribers
      BY DEF SubscriberJobs, QueueEntry
    <3>2. [d EXCEPT !.pc = "stored"] \in QueueEntry
      BY DEF QueueEntry
    <3>3. CASE StoreNotification(d)
      BY <3>1, <3>2, <3>3 DEF StoreNotification, Becomes
    <3>4. CASE Acknowledge(d) \/ GiveUp(d)
      BY <3>1, <3>4 DEF Acknowledge, GiveUp, Becomes, Fault
    <3> QED
      BY <2>7, <3>3, <3>4 DEF SubscriberStep
  <2>8. ASSUME NEW d \in sq, CrashSubscriberJob(d) PROVE TypeOK'
    <3>1. d.job \in SubscriberJobs /\ d.try + 1 \in Nat
      BY DEF QueueEntry
    <3>2. [d EXCEPT !.pc = "waiting", !.try = @ + 1] \in QueueEntry
      BY <3>1 DEF QueueEntry
    <3> QED
      BY <2>8, <3>1, <3>2 DEF CrashSubscriberJob, Becomes, Stalled, Fault
  <2>9. CASE UNCHANGED vars
    BY <2>9 DEF vars
  <2> QED
    BY <2>1, <2>2, <2>3, <2>4, <2>5, <2>6, <2>7, <2>8, <2>9 DEF Next, TriggerStep
<1> QED
  BY <1>1, <1>2, PTL DEF Spec

\* The types hold for every number of triggers, subscribers and topics, for any commands,
\* and however many workers die.
THEOREM TypeCorrect == Spec => []TypeOK
BY Typing

-----------------------------------------------------------------------------
\* Commands never change, and what interrupted a trigger is not forgotten.
LEMMA Steady == ASSUME [Next]_vars PROVE cmd' = cmd /\ tripped \subseteq tripped'
<1>1. ASSUME NEW t \in Triggers,
             Accept(t) \/ AcceptLost(t) \/ TriggerStep(t) \/ Throw(t) \/ CrashTrigger(t)
      PROVE  cmd' = cmd /\ tripped \subseteq tripped'
  BY <1>1 DEF Accept, AcceptLost, TriggerStep, Reject, Admit, ProcessActor, SendSingles, TopicMissing,
              ResolveTopics, OpenCursor, SendBatch, Finish, Throw, CrashTrigger
<1>2. ASSUME NEW d \in sq, SubscriberStep(d) \/ GiveUp(d) \/ CrashSubscriberJob(d)
      PROVE  cmd' = cmd /\ tripped \subseteq tripped'
  BY <1>2 DEF SubscriberStep, StoreNotification, Acknowledge, GiveUp, CrashSubscriberJob
<1>3. CASE UNCHANGED vars
  BY <1>3 DEF vars
<1> QED
  BY <1>1, <1>2, <1>3 DEF Next

LEMMA AddressedStays ==
    ASSUME [Next]_vars, NEW t \in Triggers, NEW s, AddressedTo(t, s)
    PROVE  AddressedTo(t, s)'
BY Steady DEF AddressedTo, MembersOf

LEMMA DueStays ==
    ASSUME [Next]_vars, NEW j, j.trigger \in Triggers, Due(j)
    PROVE  Due(j)'
<1>1. AddressedTo(j.trigger, j.to)'
  BY AddressedStays DEF Due
<1> QED
  BY <1>1, Steady DEF Due, SourceFor

\* Where the jobs in the subscriber queue and the stored ones of a step come from: they were
\* there before, or one worker sends them.
Source(t) == IF At(t, "singles") THEN "single" ELSE SourceOf(t)

Sendable(t) == IF At(t, "singles") THEN cmd[t].singles ELSE trig[t].todo

LEMMA Origin ==
    ASSUME TypeOK, [Next]_vars
    PROVE  \/ /\ \A d \in sq' : \E e \in sq : d.job = e.job
              /\ \A d \in stored' : d \in stored \/ \E e \in sq : d.job = e.job
           \/ \E t \in Triggers :
                 /\ At(t, "singles") \/ At(t, "sending")
                 /\ stored' = stored
                 /\ trig'[t].pc \notin {"new", "queued"}
                 /\ \A d \in sq' : \/ d \in sq
                                   \/ /\ d.job.trigger = t /\ d.job.to \in Sendable(t)
                                      /\ d.job.source = Source(t)
<1> DEFINE Kept == /\ \A d \in sq' : \E e \in sq : d.job = e.job
                   /\ \A d \in stored' : d \in stored \/ \E e \in sq : d.job = e.job
<1>1. ASSUME NEW t \in Triggers, SendSingles(t) \/ SendBatch(t) \/ Throw(t), sq' # sq
      PROVE  /\ At(t, "singles") \/ At(t, "sending")
             /\ stored' = stored
             /\ trig'[t].pc \notin {"new", "queued"}
             /\ \A d \in sq' : \/ d \in sq
                               \/ /\ d.job.trigger = t /\ d.job.to \in Sendable(t)
                                  /\ d.job.source = Source(t)
  <2>1. stored' = stored /\ trig'[t].pc \notin {"new", "queued"}
    BY <1>1 DEF TypeOK, TriggerState, SendSingles, SendBatch, Throw, Goes
  <2>2. CASE At(t, "singles") /\ \E subs \in SUBSET cmd[t].singles : Queue(Jobs(t, subs, "single"))
    BY <2>1, <2>2 DEF Queue, Jobs, Sendable, Source
  <2>3. CASE At(t, "sending") /\ \E subs \in SUBSET trig[t].todo : Queue(Jobs(t, subs, SourceOf(t)))
    <3>1. ~At(t, "singles")
      BY <2>3 DEF At
    <3> QED
      BY <2>1, <2>3, <3>1 DEF Queue, Jobs, Sendable, Source
  <2> QED
    BY <1>1, <2>2, <2>3, Sending
<1>2. ASSUME NEW t \in Triggers, SendSingles(t) \/ SendBatch(t) \/ Throw(t), sq' = sq PROVE Kept
  BY <1>2 DEF SendSingles, SendBatch, Throw
<1>3. ASSUME NEW t \in Triggers,
             \/ Accept(t) \/ AcceptLost(t) \/ Reject(t) \/ Admit(t) \/ ProcessActor(t) \/ TopicMissing(t)
             \/ ResolveTopics(t) \/ OpenCursor(t) \/ Finish(t) \/ CrashTrigger(t)
      PROVE  Kept
  BY <1>3 DEF Accept, AcceptLost, Reject, Admit, ProcessActor, TopicMissing, ResolveTopics,
              OpenCursor, Finish, CrashTrigger
<1>4. ASSUME NEW d \in sq, SubscriberStep(d) \/ GiveUp(d) \/ CrashSubscriberJob(d) PROVE Kept
  <2> USE DEF QueueEntry
  <2>1. CASE StoreNotification(d)
    <3>1. [d EXCEPT !.pc = "stored"].job = d.job
      BY DEF TypeOK
    <3>2. \A e \in sq' : e \in sq \/ e = [d EXCEPT !.pc = "stored"]
      BY <2>1 DEF StoreNotification, Becomes
    <3>3. ASSUME NEW e \in stored' PROVE e \in stored \/ e.job = d.job
      BY <2>1, <3>3 DEF StoreNotification
    <3> QED
      BY <3>1, <3>2, <3>3
  <2>2. CASE CrashSubscriberJob(d)
    <3>1. [d EXCEPT !.pc = "waiting", !.try = @ + 1].job = d.job
      BY DEF TypeOK
    <3>2. stored' = stored /\ \A e \in sq' : e \in sq \/ e = [d EXCEPT !.pc = "waiting", !.try = @ + 1]
      BY <2>2 DEF CrashSubscriberJob, Becomes, Stalled
    <3> QED
      BY <3>1, <3>2
  <2>3. CASE Acknowledge(d) \/ GiveUp(d)
    BY <2>3 DEF Acknowledge, GiveUp, Becomes
  <2> QED
    BY <1>4, <2>1, <2>2, <2>3 DEF SubscriberStep
<1>5. CASE UNCHANGED vars
  BY <1>5 DEF vars
<1> QED
  BY <1>1, <1>2, <1>3, <1>4, <1>5 DEF Next, TriggerStep

-----------------------------------------------------------------------------
LEMMA WorkerStays ==
    ASSUME TypeOK, WorkerIsRight, [Next]_vars
    PROVE  WorkerIsRight'
<1> DEFINE Right(t) ==
        /\ At(t, "cursor") => cmd[t].broadcast
        /\ At(t, "singles") \/ At(t, "topics") =>
              ~cmd[t].broadcast /\ trig[t].actor = cmd[t].actor
        /\ At(t, "sending") /\ ~cmd[t].broadcast =>
              \A s \in trig[t].todo : AddressedTo(t, s) /\ s \notin cmd[t].singles
<1>1. cmd' = cmd /\ tripped \subseteq tripped'
  BY Steady
<1>2. ASSUME NEW t \in Triggers, trig'[t] = trig[t] PROVE Right(t)'
  <2>1. Right(t)
    BY DEF WorkerIsRight
  <2>2. \A s : AddressedTo(t, s) => AddressedTo(t, s)'
    BY AddressedStays
  <2> QED
    BY <1>1, <1>2, <2>1, <2>2 DEF At
<1>3. ASSUME NEW t \in Triggers, trig'[t].pc \notin {"cursor", "singles", "topics", "sending"}
      PROVE  Right(t)'
  BY <1>3 DEF At
<1>4. ASSUME NEW t \in Triggers, NEW st, trig' = [trig EXCEPT ![t] = st], Right(t)'
      PROVE  WorkerIsRight'
  <2>1. \A u \in Triggers \ {t} : trig'[u] = trig[u]
    BY <1>4 DEF TypeOK
  <2>2. \A u \in Triggers : Right(u)'
    BY <1>2, <1>4, <2>1
  <2> QED
    BY <2>2 DEF WorkerIsRight
<1>5. ASSUME NEW t \in Triggers, NEW pc, NEW todo, Goes(t, pc, todo)
      PROVE  /\ trig' = [trig EXCEPT ![t] = [trig[t] EXCEPT !.pc = pc, !.todo = todo]]
             /\ trig'[t].pc = pc /\ trig'[t].todo = todo /\ trig'[t].actor = trig[t].actor
  BY <1>5 DEF Goes, TypeOK, TriggerState
<1>6. ASSUME NEW t \in Triggers,
             \/ Accept(t) \/ AcceptLost(t) \/ Reject(t) \/ Admit(t)
             \/ TopicMissing(t) \/ Finish(t) \/ Throw(t)
      PROVE  WorkerIsRight'
  <2>1. PICK pc \in {"queued", "declined", "failed", "rejected", "admitted", "done"} : Goes(t, pc, {})
    BY <1>6 DEF Accept, AcceptLost, Reject, Admit, TopicMissing, Finish, Throw
  <2> QED
    BY <1>3, <1>4, <1>5, <2>1
<1>7. ASSUME NEW t \in Triggers, ProcessActor(t) PROVE WorkerIsRight'
  <2>1. PICK actor : AfterActor(t, actor) /\ actor = cmd[t].actor
    BY <1>7 DEF ProcessActor
  <2> DEFINE st == [trig[t] EXCEPT !.pc = IF cmd[t].broadcast THEN "cursor" ELSE "singles",
                                   !.actor = actor]
  <2>2. trig' = [trig EXCEPT ![t] = st]
    BY <2>1 DEF AfterActor
  <2>3. /\ trig'[t].pc = IF cmd[t].broadcast THEN "cursor" ELSE "singles"
        /\ trig'[t].actor = actor
    BY <2>1 DEF AfterActor, TypeOK, TriggerState
  <2>4. Right(t)'
    BY <1>1, <2>1, <2>3 DEF At
  <2> QED
    BY <1>4, <2>2, <2>4
<1>8. ASSUME NEW t \in Triggers, SendSingles(t) PROVE WorkerIsRight'
  <2>1. At(t, "singles") /\ Goes(t, "topics", {})
    BY <1>8 DEF SendSingles
  <2>2. ~cmd[t].broadcast /\ trig[t].actor = cmd[t].actor
    BY <2>1 DEF WorkerIsRight
  <2>3. Right(t)'
    <3>1. trig'[t].pc = "topics" /\ trig'[t].actor = trig[t].actor
      BY <1>5, <2>1
    <3> QED
      BY <1>1, <2>2, <3>1 DEF At
  <2> QED
    BY <1>4, <1>5, <2>1, <2>3
<1>9. ASSUME NEW t \in Triggers, ResolveTopics(t) PROVE WorkerIsRight'
  <2>1. At(t, "topics") /\ Goes(t, "sending", TopicMembers(t))
    BY <1>9 DEF ResolveTopics
  <2>2. trig[t].actor = cmd[t].actor
    BY <2>1 DEF WorkerIsRight
  <2>3. \A s \in TopicMembers(t) : AddressedTo(t, s)' /\ s \notin cmd[t].singles
    BY <2>2, AddressedStays DEF TopicMembers, AddressedTo
  <2>4. Right(t)'
    <3>1. trig'[t].pc = "sending" /\ trig'[t].todo = TopicMembers(t)
      BY <1>5, <2>1
    <3> QED
      BY <1>1, <2>3, <3>1 DEF At
  <2> QED
    BY <1>4, <1>5, <2>1, <2>4
<1>10. ASSUME NEW t \in Triggers, OpenCursor(t) PROVE WorkerIsRight'
  <2>1. At(t, "cursor")
    BY <1>10 DEF OpenCursor
  <2>2. PICK todo : Goes(t, "sending", todo)
    BY <1>10 DEF OpenCursor
  <2>3. cmd[t].broadcast
    BY <2>1 DEF WorkerIsRight
  <2>4. Right(t)'
    <3>1. trig'[t].pc = "sending" /\ trig'[t].todo = todo
      BY <1>5, <2>2
    <3> QED
      BY <1>1, <2>3, <3>1 DEF At
  <2> QED
    BY <1>4, <1>5, <2>2, <2>4
<1>11. ASSUME NEW t \in Triggers, SendBatch(t) PROVE WorkerIsRight'
  <2>1. At(t, "sending")
    BY <1>11 DEF SendBatch
  <2>2. PICK todo \in SUBSET trig[t].todo : Goes(t, "sending", todo)
    BY <1>11 DEF SendBatch
  <2>3. ~cmd[t].broadcast => \A s \in todo : AddressedTo(t, s)' /\ s \notin cmd[t].singles
    BY <2>1, AddressedStays DEF WorkerIsRight
  <2>4. Right(t)'
    <3>1. trig'[t].pc = "sending" /\ trig'[t].todo = todo
      BY <1>5, <2>2
    <3> QED
      BY <1>1, <2>3, <3>1 DEF At
  <2> QED
    BY <1>4, <1>5, <2>2, <2>4
<1>12. ASSUME NEW t \in Triggers, CrashTrigger(t) PROVE WorkerIsRight'
  <2> DEFINE st == [pc |-> IF trig[t].pass < MaxStalls THEN "queued" ELSE "failed",
                    pass |-> trig[t].pass + 1, actor |-> {}, todo |-> {}]
  <2>1. trig' = [trig EXCEPT ![t] = st]
    BY <1>12 DEF CrashTrigger
  <2>2. trig'[t].pc \in {"queued", "failed"}
    BY <2>1 DEF TypeOK
  <2> QED
    BY <1>3, <1>4, <2>1, <2>2
<1>13. CASE trig' = trig
  BY <1>2, <1>13 DEF WorkerIsRight
<1>14. ASSUME NEW d \in sq, SubscriberStep(d) \/ GiveUp(d) \/ CrashSubscriberJob(d) PROVE trig' = trig
  BY <1>14 DEF SubscriberStep, StoreNotification, Acknowledge, GiveUp, CrashSubscriberJob
<1>15. CASE UNCHANGED vars
  BY <1>13, <1>15 DEF vars
<1> QED
  BY <1>6, <1>7, <1>8, <1>9, <1>10, <1>11, <1>12, <1>13, <1>14, <1>15 DEF Next, TriggerStep

LEMMA JobsStayDue ==
    ASSUME TypeOK, WorkerIsRight, JobsAreDue, [Next]_vars
    PROVE  JobsAreDue'
<1>1. \A d \in sq : Due(d.job)'
  BY DueStays DEF JobsAreDue, TypeOK, QueueEntry, SubscriberJobs
<1>2. \A d \in stored : Due(d.job)'
  BY DueStays DEF JobsAreDue, TypeOK, SubscriberJobs
<1>3. ASSUME NEW t \in Triggers, At(t, "singles") \/ At(t, "sending"), NEW j,
             j.trigger = t, j.to \in Sendable(t), j.source = Source(t)
      PROVE  Due(j)'
  <2>1. CASE At(t, "singles")
    <3>1. ~cmd[t].broadcast
      BY <2>1 DEF WorkerIsRight
    <3>2. Due(j)
      BY <1>3, <2>1, <3>1 DEF Due, AddressedTo, SourceFor, Source, Sendable
    <3> QED
      BY <1>3, <3>2, DueStays
  <2>2. CASE At(t, "sending")
    <3>1. ~At(t, "singles")
      BY <2>2 DEF At
    <3>2. Due(j)
      BY <1>3, <2>2, <3>1 DEF Due, AddressedTo, SourceFor, Source, SourceOf, Sendable, WorkerIsRight
    <3> QED
      BY <1>3, <3>2, DueStays
  <2> QED
    BY <1>3, <2>1, <2>2
<1> QED
  BY <1>1, <1>2, <1>3, Origin DEF JobsAreDue

LEMMA WaitingStays ==
    ASSUME TypeOK, WaitingHasNone, [Next]_vars
    PROVE  WaitingHasNone'
<1> SUFFICES ASSUME NEW t \in Triggers, trig'[t].pc \in {"new", "queued"}, t \notin tripped'
             PROVE  /\ \A d \in sq' : d.job.trigger # t
                    /\ \A d \in stored' : d.job.trigger # t
  BY DEF WaitingHasNone, At
<1>1. t \notin tripped
  BY Steady
<1>2. trig[t].pc \in {"new", "queued"}
  <2> USE DEF TypeOK, TriggerState
  <2>1. ASSUME NEW u \in Triggers,
               \/ Accept(u) \/ AcceptLost(u) \/ Reject(u) \/ Admit(u) \/ TopicMissing(u) \/ Finish(u)
               \/ Throw(u) \/ SendSingles(u) \/ ResolveTopics(u) \/ OpenCursor(u) \/ SendBatch(u)
        PROVE  trig[t].pc \in {"new", "queued"}
    <3>1. \/ At(u, "new")
          \/ \E pc \in {"failed", "rejected", "admitted", "done", "topics", "sending"} : \E todo :
                Goes(u, pc, todo)
      BY <2>1 DEF Accept, AcceptLost, Reject, Admit, TopicMissing, Finish, Throw, SendSingles,
                  ResolveTopics, OpenCursor, SendBatch
    <3>2. u # t => trig'[t] = trig[t]
      BY <2>1 DEF Accept, AcceptLost, Reject, Admit, TopicMissing, Finish, Throw, SendSingles,
                  ResolveTopics, OpenCursor, SendBatch, Goes
    <3>3. ASSUME NEW pc \in {"failed", "rejected", "admitted", "done", "topics", "sending"}, NEW todo,
                 Goes(u, pc, todo)
          PROVE  u # t
      BY <3>3 DEF Goes
    <3> QED
      BY <3>1, <3>2, <3>3 DEF At
  <2>2. ASSUME NEW u \in Triggers, ProcessActor(u)
        PROVE  trig[t].pc \in {"new", "queued"}
    BY <2>2 DEF ProcessActor, AfterActor
  <2>3. ASSUME NEW u \in Triggers, CrashTrigger(u) PROVE trig[t].pc \in {"new", "queued"}
    <3>1. u # t
      BY <2>3 DEF CrashTrigger
    <3> QED
      BY <2>3, <3>1 DEF CrashTrigger
  <2>4. ASSUME NEW d \in sq, SubscriberStep(d) \/ GiveUp(d) \/ CrashSubscriberJob(d) PROVE trig' = trig
    BY <2>4 DEF SubscriberStep, StoreNotification, Acknowledge, GiveUp, CrashSubscriberJob
  <2>5. CASE UNCHANGED vars
    BY <2>5 DEF vars
  <2> QED
    BY <2>1, <2>2, <2>3, <2>4, <2>5 DEF Next, TriggerStep
<1>3. /\ \A d \in sq : d.job.trigger # t
      /\ \A d \in stored : d.job.trigger # t
  BY <1>1, <1>2 DEF WaitingHasNone, At
<1> QED
  BY <1>3, Origin

LEMMA StoredStays == ASSUME [Next]_vars PROVE stored \subseteq stored'
<1>1. ASSUME NEW t \in Triggers,
             Accept(t) \/ AcceptLost(t) \/ TriggerStep(t) \/ Throw(t) \/ CrashTrigger(t)
      PROVE  stored' = stored
  BY <1>1 DEF Accept, AcceptLost, TriggerStep, Reject, Admit, ProcessActor, SendSingles, TopicMissing,
              ResolveTopics, OpenCursor, SendBatch, Finish, Throw, CrashTrigger
<1>2. ASSUME NEW d \in sq, SubscriberStep(d) \/ GiveUp(d) \/ CrashSubscriberJob(d)
      PROVE  stored \subseteq stored'
  BY <1>2 DEF SubscriberStep, StoreNotification, Acknowledge, GiveUp, CrashSubscriberJob
<1>3. CASE UNCHANGED vars
  BY <1>3 DEF vars
<1> QED
  BY <1>1, <1>2, <1>3 DEF Next

\* Only Reject turns a trigger down.
LEMMA RejectedBy ==
    ASSUME TypeOK, [Next]_vars, NEW t \in Triggers, trig'[t].pc = "rejected"
    PROVE  trig[t].pc = "rejected" \/ Reject(t)
<1> USE DEF TypeOK, TriggerState
<1>1. ASSUME NEW u \in Triggers,
             \/ Accept(u) \/ AcceptLost(u) \/ Admit(u) \/ TopicMissing(u) \/ Finish(u)
             \/ Throw(u) \/ SendSingles(u) \/ ResolveTopics(u) \/ OpenCursor(u) \/ SendBatch(u)
      PROVE  trig[t].pc = "rejected"
  <2>1. \E pc \in {"queued", "declined", "failed", "admitted", "done", "topics", "sending"} : \E todo :
           Goes(u, pc, todo)
    BY <1>1 DEF Accept, AcceptLost, Admit, TopicMissing, Finish, Throw, SendSingles, ResolveTopics,
                OpenCursor, SendBatch
  <2> QED
    BY <2>1 DEF Goes
<1>2. ASSUME NEW u \in Triggers, Reject(u) PROVE trig[t].pc = "rejected" \/ Reject(t)
  BY <1>2 DEF Reject, Goes
<1>3. ASSUME NEW u \in Triggers, ProcessActor(u) PROVE trig[t].pc = "rejected"
  BY <1>3 DEF ProcessActor, AfterActor
<1>4. ASSUME NEW u \in Triggers, CrashTrigger(u) PROVE trig[t].pc = "rejected"
  BY <1>4 DEF CrashTrigger
<1>5. ASSUME NEW d \in sq, SubscriberStep(d) \/ GiveUp(d) \/ CrashSubscriberJob(d) PROVE trig' = trig
  BY <1>5 DEF SubscriberStep, StoreNotification, Acknowledge, GiveUp, CrashSubscriberJob
<1>6. CASE UNCHANGED vars
  BY <1>6 DEF vars
<1> QED
  BY <1>1, <1>2, <1>3, <1>4, <1>5, <1>6 DEF Next, TriggerStep

-----------------------------------------------------------------------------
DueInv == TypeOK /\ WorkerIsRight /\ JobsAreDue

LEMMA DueTyping == Spec => []DueInv
<1>1. Init => WorkerIsRight /\ JobsAreDue
  BY DEF Init, WorkerIsRight, JobsAreDue, At
<1>2. TypeOK /\ DueInv /\ [Next]_vars => WorkerIsRight' /\ JobsAreDue'
  BY WorkerStays, JobsStayDue DEF DueInv
<1> QED
  BY <1>1, <1>2, Typing, PTL DEF Spec, DueInv

\* No worker, however often it died, sends a trigger to somebody it is not addressed to, or to
\* its actor.
THEOREM SentToTheAddressed == Spec => []OnlyTheAddressed
<1>1. DueInv => OnlyTheAddressed
  BY DEF DueInv, JobsAreDue, Due, AddressedTo, OnlyTheAddressed
<1> QED
  BY <1>1, DueTyping, PTL

\* A trigger that was never interrupted is turned down only on account of another one.
THEOREM TurnedDownForCause == Spec => []RejectionHasCause
<1>1. Init => WaitingHasNone /\ RejectionHasCause
  BY DEF Init, WaitingHasNone, RejectionHasCause, At
<1>2. ASSUME TypeOK, WaitingHasNone, RejectionHasCause, [Next]_vars,
             NEW t \in Triggers, trig'[t].pc = "rejected"
      PROVE  \E d \in stored' : /\ cmd'[d.job.trigger].tx = cmd'[t].tx
                                /\ d.job.trigger # t \/ t \in tripped'
  <2>1. cmd' = cmd /\ tripped \subseteq tripped' /\ stored \subseteq stored'
    BY <1>2, Steady, StoredStays
  <2>2. trig[t].pc = "rejected" \/ Reject(t)
    BY <1>2, RejectedBy
  <2>3. CASE trig[t].pc = "rejected"
    BY <1>2, <2>1, <2>3 DEF RejectionHasCause, At
  <2>4. CASE Reject(t)
    <3>1. PICK d \in stored : cmd[d.job.trigger].tx = cmd[t].tx
      BY <2>4 DEF Reject, Used
    <3>2. d.job.trigger # t \/ t \in tripped
      BY <1>2, <2>4 DEF Reject, WaitingHasNone
    <3> QED
      BY <2>1, <3>1, <3>2
  <2> QED
    BY <2>2, <2>3, <2>4
<1>3. TypeOK /\ WaitingHasNone /\ RejectionHasCause /\ [Next]_vars => RejectionHasCause'
  BY <1>2 DEF RejectionHasCause, At
<1>4. TypeOK /\ WaitingHasNone /\ [Next]_vars => WaitingHasNone'
  BY WaitingStays
<1> QED
  BY <1>1, <1>3, <1>4, Typing, PTL DEF Spec

\* Nobody gets one delivery of a trigger in two ways.
THEOREM StoredOncePerDelivery == Spec => []OncePerDelivery
<1>1. DueInv => OncePerDelivery
  BY DEF DueInv, JobsAreDue, Due, OncePerDelivery, TypeOK, SubscriberJobs
<1> QED
  BY <1>1, DueTyping, PTL

=============================================================================
