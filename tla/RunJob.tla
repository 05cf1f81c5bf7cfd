------------------------------- MODULE RunJob -------------------------------
(***************************************************************************)
(* The standard worker (apps/worker): RunJob, SendMessage, the digest      *)
(* step, QueueNextJob, and the handler of the "failed" event with          *)
(* HandleLastFailedJob.  One action per await of the code.                 *)
(***************************************************************************)
EXTENDS JobStore

At(w, pc) == wk[w].pc = pc

\* Mutant: RunJob does not look at the status of a delay or a digest.
NeverCanceled(j) == FALSE

\* delayedEventIsCanceled: only a digest or a delay is looked at.
DelayedEventIsCanceled(j) == IsAction(j) /\ status[j] = "canceled"

\* BullMQ hands a waiting delivery to a slot (BullMQ 3 counts the start as an
\* attempt), and RunJob reads the job.  A cancelled digest looks for a follower, a
\* cancelled delay is dropped.
Receive(w, j, a) ==
    /\ wk[w] = Idle
    /\ HasDelivery(j, a)
    /\ a < MaxStarts
    /\ waiting' = [waiting EXCEPT ![j][a] = @ - 1]
    /\ LET run == [Idle EXCEPT !.phase = "run", !.bull = j, !.made = a + 1]
       IN  \/ /\ ~ DelayedEventIsCanceled(j)
              /\ wk' = [wk EXCEPT ![w] = [run EXCEPT !.pc = "mark", !.cur = j,
                                                     !.batch = Carries(j)]]
           \/ /\ DelayedEventIsCanceled(j)
              /\ IsDigest(j)
              /\ wk' = [wk EXCEPT ![w] = [run EXCEPT !.pc = "follow"]]
           \/ /\ DelayedEventIsCanceled(j)
              /\ ~ IsDigest(j)
              /\ UNCHANGED wk
    /\ UNCHANGED <<db, lock, cc, history, faults>>

\* activeDigestMainFollowerExist: any DELAYED digest job of the same group that is
\* not merged into another one.
ActiveFollowers(j) == {f \in OpenDigests(GroupOf[j[1]]) : mergedInto[f] = NoJob}

FindFollower(w) ==
    /\ At(w, "follow")
    /\ \E f \in ActiveFollowers(wk[w].bull) :
          wk' = [wk EXCEPT ![w].pc = "mark", ![w].cur = f, ![w].batch = Carries(f)]
    /\ UNCHANGED <<db, waiting, lock, cc, history, faults>>

\* Without a follower the delivery of a cancelled digest is dropped.
NoFollower(w) ==
    /\ At(w, "follow")
    /\ ActiveFollowers(wk[w].bull) = {}
    /\ wk' = [wk EXCEPT ![w] = Idle]
    /\ UNCHANGED <<db, waiting, lock, cc, history, faults>>

\* updateStatus(RUNNING): whatever the status has become since the read.
MarkRunning(w) ==
    /\ At(w, "mark")
    /\ status' = [status EXCEPT ![wk[w].cur] = "running"]
    /\ wk' = [wk EXCEPT ![w].pc = "send"]
    /\ UNCHANGED <<mergedInto, events, waiting, lock, cc, history, faults>>

\* The trigger and delay steps have nothing to send.
SendNothing(w) ==
    /\ At(w, "send")
    /\ TypeOf(wk[w].cur) \in {"trigger", "delay"}
    /\ wk' = [wk EXCEPT ![w].pc = "complete"]
    /\ UNCHANGED <<db, waiting, lock, cc, history, faults>>

Sent(s, batch) ==
    delivered' = [delivered EXCEPT ![s] =
        [n \in Notifs |-> IF n \in batch THEN @[n] + 1 ELSE @[n]]]

\* The message of a channel step leaves, with the events read with the job.
Deliver(w) ==
    /\ At(w, "send")
    /\ TypeOf(wk[w].cur) = "channel"
    /\ Sent(wk[w].cur[2], wk[w].batch)
    /\ wk' = [wk EXCEPT ![w].pc = "complete"]
    /\ UNCHANGED <<db, waiting, lock, cc, silenced, missed, faults>>

\* Mutant: the events of the merged jobs are looked for with status DELAYED.
EventsOfDelayed(d) ==
    {d[1]} \cup {f[1] : f \in {j \in WithStatus({"delayed"}) : mergedInto[j] = d}}

\* getEvents: the payload of the digest job and those of the jobs merged into it.
DigestEvents(d) == {d[1]} \cup {f[1] : f \in Followers(d)}

\* Nothing waits for a merge into the digest that is still being written: it is missed.
ReadBatch(w) ==
    /\ At(w, "send")
    /\ IsDigest(wk[w].cur)
    /\ wk' = [wk EXCEPT ![w].pc = "digest",
                        ![w].batch = DigestEvents(wk[w].cur)]
    /\ missed' = missed \cup InFlight(wk[w].cur)
    /\ UNCHANGED <<db, waiting, lock, cc, delivered, silenced, faults>>

\* Mutant: the events are written to the digest job only.
ToUpdateItself(j) == {j}

\* getJobsToUpdate: the jobs of the notification that are not over yet, and the in-app
\* messages that are completed.
ToUpdate(j) ==
    {j} \cup {k \in Jobs : /\ k[1] = j[1]
                          /\ \/ status[k] \notin {"completed", "failed"}
                             \/ k[2] \in InAppSteps /\ status[k] = "completed"}

\* The events are written to the digest job and to the other jobs of its notification.
WriteBatch(w) ==
    /\ At(w, "digest")
    /\ events' = [j \in Jobs |-> IF j \in ToUpdate(wk[w].cur) THEN wk[w].batch ELSE events[j]]
    /\ wk' = [wk EXCEPT ![w].pc = "complete"]
    /\ UNCHANGED <<status, mergedInto, waiting, lock, cc, history, faults>>

\* SendMessage: the filters or the preferences of the subscriber say no.
FilterOut(w) ==
    /\ At(w, "send")
    /\ wk[w].cur[2] \in Filterable
    /\ status' = [status EXCEPT ![wk[w].cur] = "canceled"]
    /\ wk' = [wk EXCEPT ![w].pc = "complete"]
    /\ UNCHANGED <<mergedInto, events, waiting, lock, cc, history, faults>>

\* Mutant: RunJob queues the next job although the webhook will be retried.
StopsOnlyOnFail(s, e) == s \in StopOnFail

\* Mutant: shouldStopOnFail is not looked at.
StopsOnlyOnWebhook(s, e) == e = "webhook"

\* A failure after which RunJob does not queue the next job.
StopsChain(s, e) == s \in StopOnFail \/ e = "webhook"

Caught(w, e) ==
    wk' = [wk EXCEPT ![w].err = e,
                     ![w].pc = IF StopsChain(wk[w].cur[2], e) THEN "reject" ELSE "next"]

\* sendMessage throws before anything is sent.
SendThrows(w) ==
    /\ At(w, "send")
    /\ \E e \in ErrorsOf(wk[w].cur[2]) : Caught(w, e)
    /\ UNCHANGED <<db, waiting, lock, cc, history, faults>>

\* sendMessage throws after the provider has taken the message.
DeliverThrows(w) ==
    /\ At(w, "send")
    /\ TypeOf(wk[w].cur) = "channel"
    /\ wk[w].cur[2] \in Fallible
    /\ Sent(wk[w].cur[2], wk[w].batch)
    /\ Caught(w, "plain")
    /\ UNCHANGED <<db, waiting, lock, cc, silenced, missed, faults>>

\* updateStatus(COMPLETED): whatever sendMessage has made of the status.
MarkCompleted(w) ==
    /\ At(w, "complete")
    /\ status' = [status EXCEPT ![wk[w].cur] = "completed"]
    /\ wk' = [wk EXCEPT ![w].pc = "next"]
    /\ UNCHANGED <<mergedInto, events, waiting, lock, cc, history, faults>>

\* QueueNextJob: AddJob for the job whose _parentId is the current one, whatever its
\* status is.
QueueNext(w) ==
    /\ At(w, "next")
    /\ IF HasChild(wk[w].cur)
       THEN wk' = [wk EXCEPT ![w].pc = "add", ![w].add = Child(wk[w].cur)]
       ELSE Return(w, "none")
    /\ UNCHANGED <<db, waiting, lock, cc, history, faults>>

\* BullMQ moves the failed delivery back to the queue while attempts are left; then
\* it emits "failed".
Reject(w) ==
    /\ At(w, "reject")
    /\ IF wk[w].made < Attempts(wk[w].bull)
       THEN Push(wk[w].bull, wk[w].made)
       ELSE UNCHANGED waiting
    /\ wk' = [wk EXCEPT ![w].pc = "failed"]
    /\ UNCHANGED <<db, lock, cc, history, faults>>

\* Mutant: the last attempt is counted one too late.
IsFailureAfterLast(e, made) == e = "webhook" /\ made > DefaultAttempts

\* shouldHandleLastFailedJob: a webhook error in the last attempt.
IsLastFailure(e, made) == e = "webhook" /\ made >= DefaultAttempts

\* jobHasFailed: the job of the delivery becomes FAILED, unless it backs off; after
\* the last attempt of a back-off HandleLastFailedJob queues the next job.
HandleFailed(w) ==
    LET j == wk[w].bull
        last == IsLastFailure(wk[w].err, wk[w].made)
    IN  /\ At(w, "failed")
        /\ status' = IF wk[w].err = "webhook" /\ ~last
                     THEN status ELSE [status EXCEPT ![j] = "failed"]
        /\ wk' = [wk EXCEPT ![w] = IF last /\ j[2] \notin StopOnFail
                                   THEN [wk[w] EXCEPT !.pc = "next", !.phase = "last",
                                                      !.cur = j, !.err = "none"]
                                   ELSE Idle]
        /\ UNCHANGED <<mergedInto, events, waiting, lock, cc, history, faults>>

\* The process of a slot dies.  The delivery it was working on is found stalled and
\* goes back to the queue; a lock it holds stays taken.
Crash(w) ==
    /\ "crash" \in Faults
    /\ faults < MaxFaults
    /\ ~At(w, "idle")
    /\ IF wk[w].phase = "run" /\ ~At(w, "failed")
       THEN Push(wk[w].bull, wk[w].made)
       ELSE UNCHANGED waiting
    /\ wk' = [wk EXCEPT ![w] = Idle]
    /\ faults' = faults + 1
    /\ UNCHANGED <<db, lock, cc, history>>

RunJobStep(w) ==
    \/ \E j \in Jobs, a \in 0..MaxStarts : Receive(w, j, a)
    \/ FindFollower(w)
    \/ NoFollower(w)
    \/ MarkRunning(w)
    \/ SendNothing(w)
    \/ Deliver(w)
    \/ ReadBatch(w)
    \/ WriteBatch(w)
    \/ FilterOut(w)
    \/ SendThrows(w)
    \/ DeliverThrows(w)
    \/ MarkCompleted(w)
    \/ QueueNext(w)
    \/ Reject(w)
    \/ HandleFailed(w)
=============================================================================
