------------------------------ MODULE JobEngine ------------------------------
(***************************************************************************)
(* The workflow engine of Novu: worker slots that run and schedule the     *)
(* jobs of notifications, cancel calls of the API and, when asked for, the *)
(* faults of the environment.                                              *)
(***************************************************************************)
EXTENDS AddJob, RunJob, CancelDelayed

Environment ==
    \/ \E w \in Workers : EnqueueLost(w) \/ Crash(w)
    \/ \E g \in Groups : LockExpires(g) \/ DeadLockExpires(g)

Next ==
    \/ \E w \in Workers : AddJobStep(w) \/ RunJobStep(w)
    \/ \E x \in Cancelled : CancelStep(x)
    \/ Environment

Spec == Init /\ [][Next]_vars

\* A worker slot goes on with what it has begun and takes what waits, and a cancel
\* call that was accepted goes on; nobody has to make one.
Fairness ==
    /\ \A w \in Workers : WF_vars(AddJobStep(w) \/ RunJobStep(w))
    /\ \A x \in Cancelled : WF_vars(CancelStep(x) /\ ~CancelAt(x, "off"))
    /\ \A g \in Groups : WF_vars(DeadLockExpires(g))

FairSpec == Spec /\ Fairness

-----------------------------------------------------------------------------
WorkerState ==
    [pc : WorkerPCs, phase : {"store", "run", "last"}, bull : Jobs \cup {NoJob},
     made : 0..MaxStarts, cur : Jobs \cup {NoJob}, add : Jobs \cup {NoJob},
     err : Errors, hit : Jobs \cup {NoJob}, todo : SUBSET Steps, batch : SUBSET Notifs]

CancelState ==
    [pc : CancelPCs, ids : SUBSET Jobs, main : Jobs \cup {NoJob},
     next : Jobs \cup {NoJob}, todo : SUBSET Steps]

\* Every variable has its type.
TypeOK ==
    /\ status \in [Jobs -> Statuses]
    /\ mergedInto \in [Jobs -> Jobs \cup {NoJob}]
    /\ events \in [Jobs -> SUBSET Notifs]
    /\ waiting \in [Jobs -> [0..MaxStarts -> Nat]]
    /\ lock \in [Groups -> Workers \cup {NoWorker}]
    /\ wk \in [Workers -> WorkerState]
    /\ cc \in [Cancelled -> CancelState]
    /\ delivered \in [Steps -> [Notifs -> Nat]]
    /\ silenced \in SUBSET Notifs
    /\ missed \in SUBSET Jobs
    /\ faults \in Nat

-----------------------------------------------------------------------------
(* Digests.                                                                 *)

\* A group never has two open digests: two triggers that reach the digest step at the
\* same time are told apart by the lock of MergeOrCreateDigest, across the read and
\* the write of shouldDelayDigestJobOrMerge.  (Without cancel calls and as long as the
\* lock outlives the critical section.)
OneOpenDigest == \A g \in Groups : \A d, e \in OpenDigests(g) : d = e

\* The event of a trigger is in at most one message of every step: in the message of its
\* own notification or in that of the digest it was merged into, never in both.
EventOncePerStep == \A s \in Steps, n \in Notifs : delivered[s][n] <= 1

\* A digest that is over has collected the event of every digest job merged into it, now
\* or later, but for those whose MERGED was being written when the Digest step read its
\* events: processMergedDigest writes after the lock is gone and the Digest step waits for
\* nobody.  In no other way is an event lost.
BatchComplete ==
    \A d \in WithStatus({"completed"}) :
       IsDigest(d) => \A f \in Followers(d) \ missed : f[1] \in events[d]

\* What the test of concurrent triggers expects of processMergedDigest: when a digest is
\* over, the jobs merged into it have been written before.
MergesPrecedeCompletion ==
    [][\A d \in WithStatus({"completed"}) :
          IsDigest(d) => Followers(d)' \subseteq Followers(d)]_vars

\* A digest that others are merged into is not merged itself: getEvents looks one level
\* deep, so an event merged into a merged digest would be lost.
FlatMerge == \A d \in Jobs : Followers(d) # {} => status[d] # "merged"

\* With a back-off digest the oldest notification of a group does not wait: a digest
\* that is delayed or merged has an older notification in its group.
OldestGoesAtOnce ==
    \A d \in WithStatus({"delayed", "merged"}) :
       IsDigest(d) => \E n \in Notifs : GroupOf[n] = GroupOf[d[1]] /\ CreatedAt[n] < CreatedAt[d[1]]

Stored(n) == status[<<n, 1>>] # "absent"

\* A digest job of notification n was missed by the digest it was merged into.
Missed(n) == \E j \in missed : j[1] = n

\* The event of every trigger gets out, unless its merge was missed: the last step sends a
\* message that carries it.
EveryEventSent == \A n \in Notifs : Stored(n) ~> delivered[NumSteps][n] > 0 \/ Missed(n)

\* The lock of a group is not held for ever, even if its holder dies.
LockIsReleased == \A g \in Groups : lock[g] # NoWorker ~> lock[g] = NoWorker

-----------------------------------------------------------------------------
(* Cancellation.                                                            *)

\* A notification cancelled before any slot started on it is never heard of again: no
\* message that carries its event leaves, whatever happens to the digest it belonged to.
CancelledStaysSilent ==
    [][\A n \in silenced, s \in Steps : delivered'[s][n] = delivered[s][n]]_vars

\* Once a cancel call has ended nobody is left behind, then or later, in the main digest
\* it has cancelled: assignNextDigestJob hands the followers over to a new one, and only
\* a merge that was being written at the end of the call comes too late for it.  (For one
\* call at a time; a second main digest of the transaction is not handed over.)
FollowersAreHandedOver ==
    \A x \in Cancelled :
       CancelAt(x, "done") /\ cc[x].main # NoJob => Followers(cc[x].main) \subseteq missed

-----------------------------------------------------------------------------
(* Failures.                                                                *)

\* Nothing follows a step with shouldStopOnFail that has failed: the next job is never
\* scheduled, neither by RunJob nor by the handler of the last failure.
StopIsRespected ==
    \A j \in WithStatus({"failed"}) :
        j[2] \in StopOnFail /\ HasChild(j) => status[Child(j)] \in {"pending", "canceled"}

\* A step has failed that asks for it, or because the delay after it cannot be scheduled.
ChainStopped(n) ==
    \E j \in WithStatus({"failed"}) :
        j[1] = n /\ (j[2] \in StopOnFail \/ (HasChild(j) /\ IsAction(Child(j))))

\* The chain of every notification that is not cancelled comes to its end, or to a step
\* where it has to stop: an attempt that fails is retried or followed by the next step.
ChainEnds ==
    \A n \in {m \in Notifs : TransactionOf[m] \notin Cancelled} :
       Stored(n) ~> status[<<n, NumSteps>>] \in {"completed", "failed"} \/ ChainStopped(n)

=============================================================================
