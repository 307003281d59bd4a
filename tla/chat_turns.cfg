\* Two API calls that share a request, a thread or both, two workers, one fault.
SPECIFICATION MCSpec
SYMMETRY Symmetry
CONSTANTS
    c1 = c1
    c2 = c2
    q1 = q1
    q2 = q2
    t1 = t1
    t2 = t2
    w1 = w1
    w2 = w2
    Call = {c1, c2}
    Request = {q1, q2}
    Thread = {t1, t2}
    Worker = {w1, w2}
    Beat = Beat
    None = None
    MaxFaults = 1
    MaxQueue = 1
CHECK_DEADLOCK FALSE
INVARIANTS AnsweredOnce OneActiveTurn
PROPERTIES ResultIsKept
