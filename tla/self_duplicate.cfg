CONSTANTS
    t1 = t1
    t2 = t2
    s1 = s1
    s2 = s2
    s3 = s3
    x1 = x1
    x2 = x2
    k1 = k1
    k2 = k2
    k3 = k3
    Triggers = {t1}
    Subscribers = {s1, s2, s3}
    Topics <- TwoTopics
    Commands <- OneKind
    KnownFirst = {s1}
    BatchSize = 2
    MaxStalls = 1
    MaxFaults = 1
SPECIFICATION Spec
INVARIANTS
    RejectedIsDuplicate
CHECK_DEADLOCK FALSE
