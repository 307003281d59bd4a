\* Three Missions of one workspace.
SPECIFICATION FairSpec
CONSTANTS
    m1 = m1
    m2 = m2
    m3 = m3
    Mission = {m1, m2, m3}
    None = None
    MaxWakes = 2
CHECK_DEADLOCK FALSE
INVARIANTS BoundedOvertaking
PROPERTY TurnComes
