------------------------------ MODULE JobStore ------------------------------
(***************************************************************************)
(* The state shared by the parts of the workflow engine: the jobs          *)
(* collection in MongoDB (libs/dal, JobRepository), the "standard" BullMQ  *)
(* queue, the Redis locks of the digest groups, the control state of the   *)
(* worker slots and the control state of the cancel calls of the API.      *)
(*                                                                         *)
(* A trigger of a workflow creates one notification per subscriber, and    *)
(* one job per step of the workflow for every notification.  A job is      *)
(* written <<n, s>>: step s of notification n.                             *)
(***************************************************************************)
EXTENDS Naturals, FiniteSets

CONSTANTS
    Notifs,         \* notifications: one per (transaction, subscriber)
    CreatedAt,      \* creation time of the jobs of a notification
    Transactions,   \* transaction identifiers
    TransactionOf,  \* the transaction of a notification
    Groups,         \* (environment, template, subscriber, digest value)
    GroupOf,        \* the group of a notification
    NumSteps,       \* number of steps of the workflow
    StepType,       \* type of every step, the TRIGGER step included
    Filterable,     \* steps whose filters or preferences may say no
    Fallible,       \* steps whose handler may throw an ordinary error
    WebhookSteps,   \* steps with a webhook filter
    StopOnFail,     \* steps with shouldStopOnFail
    InAppSteps,     \* the channel steps that are in-app messages
    Backoff,        \* TRUE when the digest steps are back-off digests
    Workers,        \* concurrent slots of the worker processes
    Cancelled,      \* transactions for which the cancel endpoint is called
    Faults,         \* environment faults considered
    MaxFaults,      \* bound on the number of faults
    NoJob, NoWorker

Types == {"trigger", "digest", "delay", "channel"}

FaultKinds == {"crash", "lock_expiry", "lost_enqueue"}

Steps == 1..NumSteps

Jobs == Notifs \X Steps

ASSUME StepAssumption ==
    /\ NumSteps \in Nat \ {0}
    /\ StepType \in [Steps -> Types]
    /\ \A S \in {Filterable, Fallible, WebhookSteps, StopOnFail} : S \subseteq Steps
    /\ InAppSteps \subseteq {s \in Steps : StepType[s] = "channel"}

ASSUME NotifAssumption ==
    /\ CreatedAt \in [Notifs -> Nat]
    /\ TransactionOf \in [Notifs -> Transactions]
    /\ GroupOf \in [Notifs -> Groups]
    /\ Cancelled \subseteq Transactions

ASSUME EnvironmentAssumption ==
    /\ Backoff \in BOOLEAN
    /\ Faults \subseteq FaultKinds
    /\ MaxFaults \in Nat
    /\ NoJob \notin Jobs
    /\ NoWorker \notin Workers

VARIABLES
    status,      \* status of every job, "absent" before it is stored
    mergedInto,  \* _mergedDigestId of every job
    events,      \* digest.events of every job, as a set of notifications
    waiting,     \* BullMQ: deliveries that wait, by job and starts already made
    lock,        \* holder of the distributed lock of every group
    wk,          \* control state and local variables of every worker slot
    cc,          \* control state and local variables of every cancel call
    delivered,   \* history: messages of a step that carry a notification's event
    silenced,    \* history: notifications cancelled before anyone started them
    missed,      \* history: digest jobs whose merge was being written when the digest
                 \* they were sent to had read its events, or was handed over
    faults       \* history: number of faults so far

db == <<status, mergedInto, events>>
history == <<delivered, silenced, missed>>
vars == <<status, mergedInto, events, waiting, lock, wk, cc, delivered, silenced, missed, faults>>

-----------------------------------------------------------------------------
(* The job entity.                                                          *)

Statuses == {"absent", "pending", "queued", "delayed", "running", "completed",
             "failed", "canceled", "merged", "skipped"}

TypeOf(j) == StepType[j[2]]

IsDigest(j) == TypeOf(j) = "digest"

\* isActionStepType: digests and delays, the jobs that wait in the queue.
IsAction(j) == TypeOf(j) \in {"digest", "delay"}

\* Mutant: the end of a chain is not noticed.
HasChildAlways(j) == TRUE

HasChild(j) == j[2] < NumSteps

Child(j) == <<j[1], j[2] + 1>>

JobsOf(x) == {j \in Jobs : TransactionOf[j[1]] = x}

WithStatus(S) == {j \in Jobs : status[j] \in S}

\* Mutant: completed digests are taken for open ones.
OpenOrCompletedDigests(g) ==
    {j \in WithStatus({"delayed", "completed"}) : IsDigest(j) /\ GroupOf[j[1]] = g}

\* Mutant: merged digests are taken for open ones.
OpenOrMergedDigests(g) ==
    {j \in WithStatus({"delayed", "merged"}) : IsDigest(j) /\ GroupOf[j[1]] = g}

\* The DELAYED digest jobs of a group: the digests that are open.
OpenDigests(g) == {j \in WithStatus({"delayed"}) : IsDigest(j) /\ GroupOf[j[1]] = g}

\* The digest jobs that were merged into the digest job d.
Followers(d) == {j \in WithStatus({"merged"}) : IsDigest(j) /\ mergedInto[j] = d}

\* The digest jobs that are being merged into the digest job d by slots that have found
\* it under the lock and have not written MERGED to them yet.
InFlight(d) ==
    {f \in Jobs : /\ IsDigest(f)
                  /\ \E w \in Workers : /\ wk[w].pc = "merge"
                                         /\ wk[w].hit = d
                                         /\ wk[w].add[1] = f[1]
                                         /\ f[2] \in wk[w].todo}

\* What a message of job j carries: its digest.events, or its own payload.
Carries(j) == IF events[j] = {} THEN {j[1]} ELSE events[j]

-----------------------------------------------------------------------------
(* The queue.                                                               *)

\* DEFAULT_ATTEMPTS of the queue and worker base services.
DefaultAttempts == 3

\* A job is given more than one attempt only if its step has a webhook filter.
Attempts(j) == IF j[2] \in WebhookSteps THEN DefaultAttempts ELSE 1

\* Every start counts as an attempt made; only a crash makes one beyond them.
MaxStarts == DefaultAttempts + MaxFaults

HasDelivery(j, made) == waiting[j][made] > 0

Push(j, made) == waiting' = [waiting EXCEPT ![j][made] = @ + 1]

-----------------------------------------------------------------------------
(* Worker slots and cancel calls.                                           *)

Errors == {"none", "plain", "webhook"}

\* The errors that the handler of step s may throw.
ErrorsOf(s) == {e \in {"plain"} : s \in Fallible} \cup {e \in {"webhook"} : s \in WebhookSteps}

WorkerPCs == {"idle", "follow", "mark", "send", "digest", "complete", "next", "add",
              "skip", "claim", "merge", "enqueue", "reject", "failed"}

\* pc      where the slot is in the code
\* phase   the caller of AddJob: StoreSubscriberJobs, RunJob, HandleLastFailedJob
\* bull    the job of the BullMQ delivery, made the attempts made so far
\* cur     the job that is run; add the job that AddJob schedules
\* err     the error thrown so far
\* hit     the open digest found under the lock; todo the steps still to write
\* batch   the digest events read so far
Idle == [pc |-> "idle", phase |-> "store", bull |-> NoJob, made |-> 0, cur |-> NoJob,
         add |-> NoJob, err |-> "none", hit |-> NoJob, todo |-> {}, batch |-> {}]

CancelPCs == {"off", "pending", "write", "find", "promote", "children", "repoint", "done"}

\* ids     the jobs to cancel; main the DELAYED digest among them
\* next    the follower that replaces main; todo its children still to write
NoCancel == [pc |-> "off", ids |-> {}, main |-> NoJob, next |-> NoJob, todo |-> {}]

Init ==
    /\ status = [j \in Jobs |-> "absent"]
    /\ mergedInto = [j \in Jobs |-> NoJob]
    /\ events = [j \in Jobs |-> {}]
    /\ waiting = [j \in Jobs |-> [a \in 0..MaxStarts |-> 0]]
    /\ lock = [g \in Groups |-> NoWorker]
    /\ wk = [w \in Workers |-> Idle]
    /\ cc = [x \in Cancelled |-> NoCancel]
    /\ delivered = [s \in Steps |-> [n \in Notifs |-> 0]]
    /\ silenced = {}
    /\ missed = {}
    /\ faults = 0

\* A slot returns from AddJob (or finds nothing to add) with error e: a run that
\* threw rejects its delivery, every other caller is done.
Return(w, e) ==
    LET thrown == IF e = "none" THEN wk[w].err ELSE e
    IN  wk' = [wk EXCEPT ![w] = IF wk[w].phase = "run" /\ thrown # "none"
                                THEN [wk[w] EXCEPT !.pc = "reject", !.err = thrown]
                                ELSE Idle]
=============================================================================
