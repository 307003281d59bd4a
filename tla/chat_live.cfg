\* One turn, two workers, two faults: a crash, a lapse, a redelivery, a lost
\* response, an expiry or Redis away, in any pair and order.
SPECIFICATION FairSpec
CONSTANTS
    c1 = c1
    q1 = q1
    t1 = t1
    w1 = w1
    w2 = w2
    Call = {c1}
    Request = {q1}
    Thread = {t1}
    Worker = {w1, w2}
    Beat = Beat
    None = None
    MaxFaults = 2
    MaxQueue = 1
CHECK_DEADLOCK FALSE
INVARIANTS SuccessIsSettled EndedIsTerminal
PROPERTIES EveryTurnEnds ImplementsBilling
