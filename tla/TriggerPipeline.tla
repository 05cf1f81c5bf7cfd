--------------------------- MODULE TriggerPipeline ---------------------------
(***************************************************************************)
(* Triggers from the API to the stored jobs of every subscriber: the       *)
(* workers of the workflow queue and those of the subscriber queue         *)
(* together, with deaths of workers and errors at any point.               *)
(***************************************************************************)
EXTENDS SubscriberJobBound

Next ==
    \/ \E t \in Triggers :
          \/ Accept(t) \/ AcceptLost(t) \/ TriggerStep(t)
          \/ Throw(t) \/ CrashTrigger(t)
    \/ \E d \in sq : SubscriberStep(d) \/ GiveUp(d) \/ CrashSubscriberJob(d)

Spec == Init /\ [][Next]_vars

\* The workers take whatever is in their queues and go on with what they took.
Fairness ==
    /\ \A t \in Triggers : WF_vars(TriggerStep(t))
    /\ WF_vars(\E d \in sq : SubscriberStep(d))

FairSpec == Spec /\ Fairness

-----------------------------------------------------------------------------
TriggerState ==
    [pc : Active \cup {"new", "declined", "queued", "rejected", "failed", "done"},
     pass : Nat, actor : SUBSET Subscribers, todo : SUBSET Subscribers]

QueueEntry == [job : SubscriberJobs, try : Nat, pc : {"waiting", "stored"}]

\* Type invariant.
TypeOK ==
    /\ cmd \in [Triggers -> Commands]
    /\ trig \in [Triggers -> TriggerState]
    /\ sq \subseteq QueueEntry
    /\ stored \subseteq [job : SubscriberJobs, try : Nat]
    /\ known \subseteq Subscribers
    /\ faults \in Nat
    /\ tripped \subseteq Triggers
    /\ lost \subseteq SubscriberJobs

\* A subscriber gets a trigger once for every delivery of the workflow job, and once more
\* only if the worker of its own job died: never both by name and as a member of a topic.
OncePerDelivery ==
    \A d, e \in stored :
        /\ d.job.trigger = e.job.trigger /\ d.job.to = e.job.to
        /\ d.job.pass = e.job.pass /\ d.try = e.try
        => d = e

\* Nobody gets a trigger that is not addressed to him, and an actor gets his own only when
\* he is named, however often the worker died and began anew.
OnlyTheAddressed ==
    \A d \in stored :
        LET t == d.job.trigger
            s == d.job.to
        IN  \/ cmd[t].broadcast
            \/ s \in cmd[t].singles
            \/ s \in MembersOf(t) /\ s \notin cmd[t].actor

\* A trigger is turned down only when its transaction has stored jobs of another trigger,
\* or when its own delivery was interrupted before: triggers that come together never turn
\* each other down so that nobody is notified.
RejectionHasCause ==
    \A t \in Triggers : At(t, "rejected") =>
        \E d \in stored : /\ cmd[d.job.trigger].tx = cmd[t].tx
                          /\ d.job.trigger # t \/ t \in tripped

\* The subscribers a trigger must reach; a missing topic hides the members of all topics.
Owed(t) ==
    IF cmd[t].broadcast THEN KnownFirst
    ELSE IF cmd[t].topics \subseteq DOMAIN Topics THEN cmd[t].singles \cup (MembersOf(t) \ cmd[t].actor)
    ELSE cmd[t].singles

Reached(t, s) ==
    \/ \E d \in stored : d.job.trigger = t /\ d.job.to = s
    \/ \E j \in lost : j.trigger = t /\ j.to = s

\* Everybody a trigger is addressed to gets it, if its transaction is not used already and
\* its workflow job is not interrupted: one death of the worker of a subscriber's job, at
\* any point, or an error in the job of somebody else costs nobody his notification.
EverybodyIsReached ==
    \A t \in Triggers :
        At(t, "queued") ~> \/ At(t, "rejected")
                           \/ t \in tripped
                           \/ \A s \in Owed(t) : Reached(t, s)

\* A trigger is turned down as a duplicate only if another trigger has its transaction.
\* The code: 'transactionId property is not unique, please make sure all triggers have a
\* unique transactionId' (trigger-event.usecase.ts:218).
RejectedIsDuplicate ==
    \A t \in Triggers : At(t, "rejected") =>
        \E u \in Triggers \ {t} : cmd[u].tx = cmd[t].tx
=============================================================================
