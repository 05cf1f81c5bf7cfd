CONSTANTS
    r1 = r1
    r2 = r2
    r3 = r3
    k1 = k1
    b1 = b1
    b2 = b2
    Requests = {r1, r2, r3}
    Keys = {k1}
    Bodies = {b1, b2}
    KeyOf <- OneKey
    BodyOf <- TwoBodies
    MaxExpiries = 1
    MaxFaults = 2
SPECIFICATION FairSpec
INVARIANTS
    TypeOK
    OncePerMark
    AnswerIsItsOwn
    AnswersAgree
    RefusalIsJust
PROPERTIES
    EverybodySettles
CHECK_DEADLOCK FALSE
