CONSTANTS
    c1 = c1
    c2 = c2
    Callers = {c1, c2}
    maxConcurrent = 1
    default429Cooldown = 2
    maxRequestRetries = 2
SPECIFICATION FairSpec
INVARIANTS TypeOK SlotsAreHeld LateCallersWait RepeatsNeedLostAnswers
PROPERTY EveryCallReturns
CHECK_DEADLOCK FALSE
