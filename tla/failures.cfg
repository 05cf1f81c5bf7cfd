CONSTANTS
    w1 = w1
    w2 = w2
    t1 = t1
    t2 = t2
    t3 = t3
    g1 = g1
    g2 = g2
    Notifs <- Two
    CreatedAt <- CreatedInOrder
    Transactions = {t1,t2,t3}
    TransactionOf <- OwnTransaction
    Groups = {g1}
    GroupOf <- OneGroup
    NumSteps = 4
    StepType <- DelayFlow
    Filterable = {}
    Fallible = {2, 3}
    WebhookSteps = {1}
    StopOnFail = {2}
    Backoff = FALSE
    Workers = {w1,w2}
    Cancelled = {t1}
    Faults = {}
    MaxFaults = 0
    InAppSteps = {1}
    NoJob = NoJob
    NoWorker = NoWorker
SPECIFICATION FairSpec
INVARIANTS
    StopIsRespected
    EventOncePerStep
PROPERTIES
    ChainEnds
CHECK_DEADLOCK FALSE
