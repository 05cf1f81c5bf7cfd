CONSTANTS
    p1 = p1
    p2 = p2
    p3 = p3
    r1 = r1
    e1 = e1
    e2 = e2
    l1 = l1
    Callers = {p1, p2}
    Readers = {r1}
    Calls <- MixedCalls
    FirstDocs <- NoneOrOne
    Values = {e1, e2, l1}
    Unset = Unset
    Null = Null
    Missing = Missing
    MaxFaults = 1
SPECIFICATION FairSpec
INVARIANTS
    TypeOK
    DetailsAreKept
    CallerGetsHisDetails
    NobodyIsLostInSight
PROPERTIES
    CacheIsFreshAgain
CHECK_DEADLOCK FALSE
