\* Two Missions of one workspace, two workers, no commands: the slot and the
\* fences under crashes, losses, repeats and slow holders.
SPECIFICATION Spec
CONSTANTS
    m1 = m1
    m2 = m2
    ws = ws
    w1 = w1
    w2 = w2
    Mission = {m1, m2}
    Workspace = {ws}
    WorkspaceOf <- OneWorkspace
    Worker = {w1, w2}
    None = None
    CommandType = {}
    Service = {}
    PageLimit = 1
    ModelBudget = 0
    PortsMayWait = FALSE
    SlowCommits = FALSE
    MaxInputs = 0
    MaxYields = 1
    MaxGenerations = 3
    MaxFaults = 2
SYMMETRY Symmetry
CHECK_DEADLOCK FALSE
INVARIANTS OneSlotPerWorkspace OneLeasePerGeneration
PROPERTY ImplementsSlot
