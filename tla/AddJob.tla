------------------------------- MODULE AddJob -------------------------------
(***************************************************************************)
(* AddJob and MergeOrCreateDigest (apps/worker): how a job of a chain gets *)
(* into the queue.  A worker slot w that is at pc "add" executes           *)
(* AddJob.execute for the job wk[w].add; one action per await.             *)
(***************************************************************************)
EXTENDS JobStore

Adding(w, type) == wk[w].pc = "add" /\ TypeOf(wk[w].add) = type

GoTo(w, pc) == wk' = [wk EXCEPT ![w].pc = pc]

SetStatus(j, s) == status' = [status EXCEPT ![j] = s]

\* StoreSubscriberJobs: insertMany of the whole chain of the next notification,
\* then AddJob for its first job.  The creation time is taken before the insert is
\* awaited, so chains need not be stored in the order of their creation.
StoreJobs(w, n) ==
    /\ wk[w] = Idle
    /\ status[<<n, 1>>] = "absent"
    /\ status' = [j \in Jobs |-> IF j[1] = n THEN "pending" ELSE status[j]]
    /\ wk' = [wk EXCEPT ![w] = [Idle EXCEPT !.pc = "add", !.add = <<n, 1>>]]
    /\ UNCHANGED <<mergedInto, events, waiting, lock, cc, history, faults>>

\* A step that is neither a digest nor a delay: status QUEUED, then queueJob.
AddPlain(w) ==
    /\ wk[w].pc = "add"
    /\ ~ IsAction(wk[w].add)
    /\ SetStatus(wk[w].add, "queued")
    /\ GoTo(w, "enqueue")
    /\ UNCHANGED <<mergedInto, events, waiting, lock, cc, history, faults>>

\* AddDelayJob: status DELAYED; filtered or not, the job is queued (a filtered
\* one with delay 0).
AddDelay(w) ==
    /\ Adding(w, "delay")
    /\ SetStatus(wk[w].add, "delayed")
    /\ GoTo(w, "enqueue")
    /\ UNCHANGED <<mergedInto, events, waiting, lock, cc, history, faults>>

\* AddDelayJob cannot compute the delay: status CANCELED, and the error goes up.
AddDelayMisconfigured(w) ==
    /\ Adding(w, "delay")
    /\ wk[w].add[2] \in Fallible
    /\ SetStatus(wk[w].add, "canceled")
    /\ Return(w, "plain")
    /\ UNCHANGED <<mergedInto, events, waiting, lock, cc, history, faults>>

\* The filter of a digest or delay step throws, or the digest is not valid,
\* before anything is written.
AddThrows(w) ==
    /\ wk[w].pc = "add"
    /\ IsAction(wk[w].add)
    /\ \E e \in ErrorsOf(wk[w].add[2]) : Return(w, e)
    /\ UNCHANGED <<db, waiting, lock, cc, history, faults>>

\* A digest step whose filter says no is skipped without taking the lock.
DigestFiltered(w) ==
    /\ Adding(w, "digest")
    /\ wk[w].add[2] \in Filterable
    /\ GoTo(w, "skip")
    /\ UNCHANGED <<db, waiting, lock, cc, history, faults>>

\* getTrigger: the completed triggers of other notifications in the back-off window.
OtherTriggers(j) ==
    {u \in WithStatus({"completed"}) : /\ TypeOf(u) = "trigger"
                                       /\ u[1] # j[1]
                                       /\ GroupOf[u[1]] = GroupOf[j[1]]}

\* A back-off digest is skipped when no other trigger is in the window, or when
\* the one that findOne returns (any of them) is younger than this job.
SkippedByBackoff(j) ==
    /\ Backoff
    /\ \/ OtherTriggers(j) = {}
       \/ \E u \in OtherTriggers(j) : CreatedAt[j[1]] < CreatedAt[u[1]]

\* Mutant: the creation times are not compared.
PassesWithoutPriority(j) == Backoff => OtherTriggers(j) # {}

PassesBackoff(j) ==
    Backoff => \E u \in OtherTriggers(j) : CreatedAt[j[1]] >= CreatedAt[u[1]]

\* Mutant: the decision is taken without the lock.
LockFreeAlways(j) == TRUE

LockFree(j) == lock[GroupOf[j[1]]] = NoWorker

\* shouldDelayDigestJobOrMerge under the lock of the group.  The lock is taken
\* together with the reads that follow it; it is kept only by a slot that found no
\* open digest and is going to write its own.
DecideSkip(w) ==
    /\ Adding(w, "digest")
    /\ LockFree(wk[w].add)
    /\ SkippedByBackoff(wk[w].add)
    /\ GoTo(w, "skip")
    /\ UNCHANGED <<db, waiting, lock, cc, history, faults>>

DecideCreate(w) ==
    /\ Adding(w, "digest")
    /\ LockFree(wk[w].add)
    /\ PassesBackoff(wk[w].add)
    /\ OpenDigests(GroupOf[wk[w].add[1]]) = {}
    /\ lock' = [lock EXCEPT ![GroupOf[wk[w].add[1]]] = w]
    /\ GoTo(w, "claim")
    /\ UNCHANGED <<db, waiting, cc, history, faults>>

DecideMerge(w) ==
    LET j == wk[w].add
    IN  /\ Adding(w, "digest")
        /\ LockFree(j)
        /\ PassesBackoff(j)
        /\ \E d \in OpenDigests(GroupOf[j[1]]) :
              wk' = [wk EXCEPT ![w].pc = "merge", ![w].hit = d, ![w].todo = j[2]..NumSteps]
        /\ UNCHANGED <<db, waiting, lock, cc, history, faults>>

\* The write of DELAYED that ends the critical section, and the release of the lock
\* (which does nothing when the lock has expired meanwhile).
Claim(w) ==
    LET j == wk[w].add
        g == GroupOf[j[1]]
    IN  /\ wk[w].pc = "claim"
        /\ SetStatus(j, "delayed")
        /\ lock' = [lock EXCEPT ![g] = IF @ = w THEN NoWorker ELSE @]
        /\ GoTo(w, "enqueue")
        /\ UNCHANGED <<mergedInto, events, waiting, cc, history, faults>>

\* Mutant: AddJob does not return after a merge, it queues the merged job.
MergedIsQueued(w) == GoTo(w, "enqueue")

\* After a merge AddJob returns: nothing is queued.
Merged(w) == Return(w, "none")

\* processMergedDigest, after the lock is released: the job itself and, in the order
\* of the chain, its descendants become MERGED.  The two parts run concurrently.
MergeWrite(w) ==
    LET j == wk[w].add
        first == j[2]
        children == wk[w].todo \ {first}
    IN  /\ wk[w].pc = "merge"
        /\ \E s \in wk[w].todo :
              /\ s # first => \A r \in children : s <= r
              /\ status' = [status EXCEPT ![<<j[1], s>>] = "merged"]
              /\ mergedInto' = [mergedInto EXCEPT ![<<j[1], s>>] = wk[w].hit]
              /\ IF wk[w].todo = {s}
                 THEN Merged(w)
                 ELSE wk' = [wk EXCEPT ![w].todo = @ \ {s}]
        /\ UNCHANGED <<events, waiting, lock, cc, history, faults>>

\* After a skipped digest AddJob goes on with the next step of the chain.
Skipped(w) ==
    IF HasChild(wk[w].add)
    THEN wk' = [wk EXCEPT ![w].pc = "add", ![w].add = Child(wk[w].add)]
    ELSE Return(w, "none")

\* processSkippedDigest.
Skip(w) ==
    /\ wk[w].pc = "skip"
    /\ SetStatus(wk[w].add, "skipped")
    /\ Skipped(w)
    /\ UNCHANGED <<mergedInto, events, waiting, lock, cc, history, faults>>

\* queueJob: one more delivery of the job waits in the queue.
Enqueue(w) ==
    /\ wk[w].pc = "enqueue"
    /\ Push(wk[w].add, 0)
    /\ Return(w, "none")
    /\ UNCHANGED <<db, lock, cc, history, faults>>

\* BullMqService.add does not await the queue: an enqueue that fails is not noticed.
EnqueueLost(w) ==
    /\ "lost_enqueue" \in Faults
    /\ faults < MaxFaults
    /\ wk[w].pc = "enqueue"
    /\ Return(w, "none")
    /\ faults' = faults + 1
    /\ UNCHANGED <<db, waiting, lock, cc, history>>

\* The lock of a live holder expires: its TTL is 1500 ms and it is never extended.
LockExpires(g) ==
    /\ "lock_expiry" \in Faults
    /\ faults < MaxFaults
    /\ lock[g] # NoWorker
    /\ lock' = [lock EXCEPT ![g] = NoWorker]
    /\ faults' = faults + 1
    /\ UNCHANGED <<db, waiting, wk, cc, history>>

\* Mutant: the lock is taken without a TTL.
NeverExpires(g) == FALSE /\ UNCHANGED vars

\* The lock of a holder that died in the critical section expires.
DeadLockExpires(g) ==
    /\ \E w \in Workers : lock[g] = w /\ wk[w].pc # "claim"
    /\ lock' = [lock EXCEPT ![g] = NoWorker]
    /\ UNCHANGED <<db, waiting, wk, cc, history, faults>>

AddJobStep(w) ==
    \/ \E n \in Notifs : StoreJobs(w, n)
    \/ AddPlain(w)
    \/ AddDelay(w)
    \/ AddDelayMisconfigured(w)
    \/ AddThrows(w)
    \/ DigestFiltered(w)
    \/ DecideSkip(w)
    \/ DecideCreate(w)
    \/ DecideMerge(w)
    \/ Claim(w)
    \/ MergeWrite(w)
    \/ Skip(w)
    \/ Enqueue(w)
=============================================================================
