\* One Mission, one worker, no fault: a cancel arrives while a tool or quality
\* call runs, and the call ends by asking the user.
SPECIFICATION FairSpec
CONSTANTS
    m1 = m1
    ws = ws
    w1 = w1
    Mission = {m1}
    Workspace = {ws}
    WorkspaceOf <- OneWorkspace
    Worker = {w1}
    None = None
    CommandType = {"cancel"}
    Service = {}
    PageLimit = 1
    ModelBudget = 1
    PortsMayWait = TRUE
    SlowCommits = FALSE
    MaxInputs = 1
    MaxYields = 1
    MaxGenerations = 20
    MaxFaults = 0
CHECK_DEADLOCK FALSE
PROPERTY CommandIsConsumed
