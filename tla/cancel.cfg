CONSTANTS
    w1 = w1
    w2 = w2
    t1 = t1
    t2 = t2
    t3 = t3
    g1 = g1
    g2 = g2
    Notifs <- Three
    CreatedAt <- CreatedInOrder
    Transactions = {t1,t2,t3}
    TransactionOf <- OwnTransaction
    Groups = {g1}
    GroupOf <- OneGroup
    NumSteps = 3
    StepType <- DigestFlow
    Filterable = {2}
    Fallible = {}
    WebhookSteps = {}
    StopOnFail = {}
    Backoff = FALSE
    Workers = {w1,w2}
    Cancelled = {t1}
    Faults = {}
    MaxFaults = 0
    InAppSteps = {3}
    NoJob = NoJob
    NoWorker = NoWorker
SPECIFICATION Spec
SYMMETRY WorkerSymmetry
INVARIANTS
    FlatMerge
    FollowersAreHandedOver
PROPERTIES
    CancelledStaysSilent
CHECK_DEADLOCK FALSE
