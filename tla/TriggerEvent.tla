---------------------------- MODULE TriggerEvent ----------------------------
(***************************************************************************)
(* The first stage of a trigger: the API accepts it (ParseEventRequest)    *)
(* and puts it in the workflow queue, where a worker resolves it to        *)
(* subscribers (TriggerEvent, TriggerMulticast, TriggerBroadcast) and puts *)
(* one job per subscriber in the subscriber queue.                         *)
(*                                                                         *)
(* The topics of the environment and their members do not change during a  *)
(* run.  The workflow job of a trigger is tried once; if its worker dies   *)
(* BullMQ delivers it again, up to MaxStalls times.                        *)
(***************************************************************************)
EXTENDS Naturals, FiniteSets

CONSTANTS
    Triggers,      \* calls of the trigger API
    Subscribers,   \* external ids of subscribers
    Topics,        \* the topics that exist: a function to their members
    Commands,      \* what a trigger may ask for
    KnownFirst,    \* the subscribers that exist at first
    BatchSize,     \* SUBSCRIBER_TOPIC_DISTINCT_BATCH_SIZE, subscriberFetchBatchSize
    MaxStalls,     \* how often BullMQ delivers a job again whose worker died
    MaxFaults      \* bound: crashes and errors

\* tx is the transactionId, given by the caller or made up; a command goes to the
\* subscribers it names and to the members of topics, or to all subscribers; the actor
\* is a set of at most one subscriber.
ASSUME CommandAssumption ==
    \A c \in Commands : /\ c.broadcast \in BOOLEAN
                        /\ c.singles \subseteq Subscribers
                        /\ c.actor \subseteq Subscribers

ASSUME TriggerAssumption ==
    /\ \A k \in DOMAIN Topics : Topics[k] \subseteq Subscribers
    /\ KnownFirst \subseteq Subscribers
    /\ BatchSize \in Nat \ {0} /\ MaxStalls \in Nat /\ MaxFaults \in Nat

VARIABLES
    cmd,      \* the commands of the triggers
    trig,     \* every trigger's control state: pc, pass (number of redeliveries), actor
              \* (actorProcessed), todo (subscribers still to be read)
    sq,       \* the subscriber queue, and the jobs of it in progress
    stored,   \* notifications whose jobs are stored
    known,    \* subscribers in the database
    faults,   \* history: crashes and errors so far
    tripped,  \* history: triggers whose workflow job met one of them
    lost      \* history: subscriber jobs that were given up

vars == <<cmd, trig, sq, stored, known, faults, tripped, lost>>

Sources == {"single", "topic", "broadcast"}

\* A job of the subscriber queue: for whom, and of which delivery of the trigger.
SubscriberJobs == [trigger : Triggers, to : Subscribers, source : Sources, pass : Nat]

Init ==
    /\ cmd \in [Triggers -> Commands]
    /\ trig = [t \in Triggers |-> [pc |-> "new", pass |-> 0, actor |-> {}, todo |-> {}]]
    /\ sq = {}
    /\ stored = {}
    /\ known = KnownFirst
    /\ faults = 0
    /\ tripped = {}
    /\ lost = {}

-----------------------------------------------------------------------------
At(t, pc) == trig[t].pc = pc

Goes(t, pc, todo) == trig' = [trig EXCEPT ![t].pc = pc, ![t].todo = todo]

Fault == faults < MaxFaults /\ faults' = faults + 1

\* ParseEventRequest: the trigger is put in the workflow queue, or there is nothing to do
\* (workflow not active or without steps, tenant missing, payload refused).
Accept(t) ==
    /\ At(t, "new")
    /\ \E pc \in {"queued", "declined"} : Goes(t, pc, {})
    /\ UNCHANGED <<cmd, sq, stored, known, faults, tripped, lost>>

\* BullMqService.add awaits nothing: the API answers as if the job were in the queue.
AcceptLost(t) ==
    /\ At(t, "new")
    /\ Fault
    /\ Goes(t, "failed", {})
    /\ tripped' = tripped \cup {t}
    /\ UNCHANGED <<cmd, sq, stored, known, lost>>

-----------------------------------------------------------------------------
(* TriggerEvent                                                             *)

\* Mutant: jobs of any transaction count.
UsedByAny(tx) == stored # {}

\* jobRepository.findOne({ transactionId })
Used(tx) == \E d \in stored : cmd[d.job.trigger].tx = tx

\* validateTransactionIdProperty
Reject(t) ==
    /\ At(t, "queued")
    /\ Used(cmd[t].tx)
    /\ Goes(t, "rejected", {})
    /\ UNCHANGED <<cmd, sq, stored, known, faults, tripped, lost>>

Admit(t) ==
    /\ At(t, "queued")
    /\ ~Used(cmd[t].tx)
    /\ Goes(t, "admitted", {})
    /\ UNCHANGED <<cmd, sq, stored, known, faults, tripped, lost>>

\* Mutant: a trigger without an actor gets one.
AfterNobody(t, actor) ==
    trig' = [trig EXCEPT ![t].pc = IF cmd[t].broadcast THEN "cursor" ELSE "singles",
                         ![t].actor = IF actor = {} THEN {"undefined"} ELSE actor]

AfterActor(t, actor) ==
    trig' = [trig EXCEPT ![t].pc = IF cmd[t].broadcast THEN "cursor" ELSE "singles",
                         ![t].actor = actor]

\* The actor becomes a subscriber (or ProcessSubscriber throws); a broadcast opens its cursor.
ProcessActor(t) ==
    /\ At(t, "admitted")
    /\ known' = known \cup cmd[t].actor
    /\ AfterActor(t, cmd[t].actor)
    /\ UNCHANGED <<cmd, sq, stored, faults, tripped, lost>>

Jobs(t, subs, source) ==
    {[trigger |-> t, to |-> s, source |-> source, pass |-> trig[t].pass] : s \in subs}

Queue(jobs) == sq' = sq \cup {[job |-> j, try |-> 0, pc |-> "waiting"] : j \in jobs}

-----------------------------------------------------------------------------
(* TriggerMulticast and TriggerBroadcast                                    *)

SendSingles(t) ==
    /\ At(t, "singles")
    /\ Queue(Jobs(t, cmd[t].singles, "single"))
    /\ Goes(t, "topics", {})
    /\ UNCHANGED <<cmd, stored, known, faults, tripped, lost>>

MembersOf(t) == UNION {Topics[k] : k \in cmd[t].topics \cap DOMAIN Topics}

\* Mutant: the subscribers that are named are not excluded.
TopicMembersAndSingles(t) == MembersOf(t) \ trig[t].actor

\* Mutant: the actor is told of its own action.
TopicMembersAndActor(t) == MembersOf(t) \ cmd[t].singles

\* getTopicDistinctSubscribers, less the actor
TopicMembers(t) == (MembersOf(t) \ cmd[t].singles) \ trig[t].actor

\* validateTopicExist comes after the subscribers that are named.
TopicMissing(t) ==
    /\ At(t, "topics")
    /\ ~(cmd[t].topics \subseteq DOMAIN Topics)
    /\ Goes(t, "failed", {})
    /\ UNCHANGED <<cmd, sq, stored, known, faults, tripped, lost>>

ResolveTopics(t) ==
    /\ At(t, "topics")
    /\ cmd[t].topics \subseteq DOMAIN Topics
    /\ Goes(t, "sending", TopicMembers(t))
    /\ UNCHANGED <<cmd, sq, stored, known, faults, tripped, lost>>

\* findBatch reads on while subscribers are created: it may meet some that do not exist yet
\* when it begins, if they exist when it gets there.
OpenCursor(t) ==
    /\ At(t, "cursor")
    /\ \E late \in SUBSET (Subscribers \ known) : Goes(t, "sending", known \cup late)
    /\ UNCHANGED <<cmd, sq, stored, known, faults, tripped, lost>>

SourceOf(t) == IF cmd[t].broadcast THEN "broadcast" ELSE "topic"

Found(t, subs) == IF cmd[t].broadcast THEN subs \cap known ELSE subs

\* Mutant: what is left when the last batch is full is forgotten.
FullBatches(t) == {b \in SUBSET trig[t].todo : Cardinality(b) = BatchSize}

\* subscribersList: a full batch, or the rest.
Batches(t) ==
    {b \in SUBSET trig[t].todo :
        \/ Cardinality(b) = BatchSize
        \/ Cardinality(b) < BatchSize /\ b = trig[t].todo /\ b # {}}

SendBatch(t) ==
    /\ At(t, "sending")
    /\ \E b \in Batches(t) :
          /\ Queue(Jobs(t, Found(t, b), SourceOf(t)))
          /\ Goes(t, "sending", trig[t].todo \ b)
    /\ UNCHANGED <<cmd, stored, known, faults, tripped, lost>>

Finish(t) ==
    /\ At(t, "sending")
    /\ Batches(t) = {}
    /\ Goes(t, "done", {})
    /\ UNCHANGED <<cmd, sq, stored, known, faults, tripped, lost>>

Active == {"admitted", "singles", "topics", "cursor", "sending"}

\* A query fails, the creation of the actor is rejected, or addBulk fails, which may have put some chunks of its jobs in the queue.
Throw(t) ==
    /\ trig[t].pc \in Active
    /\ Fault
    /\ \/ UNCHANGED sq
       \/ At(t, "singles") /\ \E b \in SUBSET cmd[t].singles : Queue(Jobs(t, b, "single"))
       \/ At(t, "sending") /\ \E b \in Batches(t) : \E c \in SUBSET Found(t, b) :
             Queue(Jobs(t, c, SourceOf(t)))
    /\ Goes(t, "failed", {})
    /\ tripped' = tripped \cup {t}
    /\ UNCHANGED <<cmd, stored, known, lost>>

\* The worker dies; the stalled job starts from the beginning, unless it did so before.
CrashTrigger(t) ==
    /\ trig[t].pc \in Active
    /\ Fault
    /\ trig' = [trig EXCEPT ![t] =
          [pc |-> IF @.pass < MaxStalls THEN "queued" ELSE "failed",
           pass |-> @.pass + 1, actor |-> {}, todo |-> {}]]
    /\ tripped' = tripped \cup {t}
    /\ UNCHANGED <<cmd, sq, stored, known, lost>>

TriggerStep(t) ==
    \/ Reject(t) \/ Admit(t) \/ ProcessActor(t)
    \/ SendSingles(t) \/ TopicMissing(t) \/ ResolveTopics(t)
    \/ OpenCursor(t) \/ SendBatch(t) \/ Finish(t)
=============================================================================
