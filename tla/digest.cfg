CONSTANTS
    w1 = w1
    w2 = w2
    t1 = t1
    t2 = t2
    t3 = t3
    g1 = g1
    g2 = g2
    Notifs <- Three
    CreatedAt <- CreatedInOrder
    Transactions = {t1,t2,t3}
    TransactionOf <- OwnTransaction
    Groups = {g1}
    GroupOf <- OneGroup
    NumSteps = 3
    StepType <- DigestFlow
    Filterable = {}
    Fallible = {}
    WebhookSteps = {}
    StopOnFail = {}
    Backoff = FALSE
    Workers = {w1,w2}
    Cancelled = {}
    Faults = {}
    MaxFaults = 0
    InAppSteps = {3}
    NoJob = NoJob
    NoWorker = NoWorker
SPECIFICATION FairSpec
INVARIANTS
    TypeOK
    OneOpenDigest
    EventOncePerStep
PROPERTIES
    EveryEventSent
    ImplementsDigestWindow
CHECK_DEADLOCK FALSE
