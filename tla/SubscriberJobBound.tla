------------------------- MODULE SubscriberJobBound -------------------------
(***************************************************************************)
(* The second stage of a trigger: a worker of the subscriber queue makes   *)
(* sure that the subscriber exists, creates its notification and stores    *)
(* the jobs of the workflow (where JobEngine begins).                      *)
(*                                                                         *)
(* The jobs of this queue are tried once as well, and delivered again when *)
(* their worker dies.  A notification document without jobs, left behind   *)
(* by a death between the two writes, is not modelled.                     *)
(***************************************************************************)
EXTENDS TriggerEvent

\* The delivery d goes on as e, or is over.
Becomes(d, e) == sq' = (sq \ {d}) \cup e

\* ProcessSubscriber, CreateNotificationJobs and StoreSubscriberJobs.
StoreNotification(d) ==
    /\ d \in sq /\ d.pc = "waiting"
    /\ known' = known \cup {d.job.to}
    /\ stored' = stored \cup {[job |-> d.job, try |-> d.try]}
    /\ Becomes(d, {[d EXCEPT !.pc = "stored"]})
    /\ UNCHANGED <<cmd, trig, faults, tripped, lost>>

\* The worker tells BullMQ that the job is done.
Acknowledge(d) ==
    /\ d \in sq /\ d.pc = "stored"
    /\ Becomes(d, {})
    /\ UNCHANGED <<cmd, trig, stored, known, faults, tripped, lost>>

\* An error of the database, a template that is gone, or a creation of the subscriber that
\* is rejected: the job is not tried again.
GiveUp(d) ==
    /\ d \in sq /\ d.pc = "waiting"
    /\ Fault
    /\ lost' = lost \cup {d.job}
    /\ Becomes(d, {})
    /\ UNCHANGED <<cmd, trig, stored, known, tripped>>

\* A stalled job goes back to the queue.
Stalled(d) == {[d EXCEPT !.pc = "waiting", !.try = @ + 1]}

CrashSubscriberJob(d) ==
    /\ d \in sq
    /\ Fault
    /\ IF d.try < MaxStalls
       THEN Becomes(d, Stalled(d)) /\ UNCHANGED lost
       ELSE Becomes(d, {}) /\ lost' = lost \cup {d.job}
    /\ UNCHANGED <<cmd, trig, stored, known, tripped>>

SubscriberStep(d) == StoreNotification(d) \/ Acknowledge(d)
=============================================================================
