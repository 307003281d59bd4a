\* One turn, two workers, two faults: the old worker's cleanup under the new owner.
SPECIFICATION Spec
CONSTANTS
    c1 = c1
    q1 = q1
    t1 = t1
    w1 = w1
    w2 = w2
    Call = {c1}
    Request = {q1}
    Thread = {t1}
    Worker = {w1, w2}
    Beat = Beat
    None = None
    MaxFaults = 2
    MaxQueue = 1
CHECK_DEADLOCK FALSE
PROPERTIES CleanupIsFenced
