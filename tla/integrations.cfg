CONSTANTS
    i1 = i1
    i2 = i2
    i3 = i3
    e1 = e1
    e2 = e2
    Ids = {i1, i2, i3}
    Envs = {e1, e2}
    Organization = Organization
    Requests = {1, 2}
    FirstStores <- Stores
    MaxRequests = 2
SPECIFICATION Spec
INVARIANTS
    TypeOK
    TidyIsOrdered
    PrimaryIsNotLost
PROPERTIES
    LoneChoiceRepairs
CHECK_DEADLOCK FALSE
