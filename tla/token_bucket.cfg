CONSTANTS
    s1 = s1
    s2 = s2
    c1 = c1
    c2 = c2
    Servers = {s1, s2}
    Calls = {c1, c2}
    ServerOf <- OneEach
    Costs = {1, 2}
    MaxTokens = 2
    RefillRate = 2
    FillInterval = 2
    MaxLatency = 2
    MaxTime = 10
SPECIFICATION Spec
INVARIANTS
    TypeOK
    RateIsBounded
    LocalRefusalIsJust
PROPERTIES
    ResetIsHonoured
CHECK_DEADLOCK FALSE
