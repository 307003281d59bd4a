\* One Mission, one worker, under fairness: no review or billing writes, and
\* only the command boundary makes a Mission wait.
SPECIFICATION FairSpec
CONSTANTS
    m1 = m1
    ws = ws
    w1 = w1
    Mission = {m1}
    Workspace = {ws}
    WorkspaceOf <- OneWorkspace
    Worker = {w1}
    None = None
    CommandType = {"steer", "pause", "cancel"}
    Service = {}
    PageLimit = 1
    ModelBudget = 1
    PortsMayWait = FALSE
    SlowCommits = FALSE
    MaxInputs = 2
    MaxYields = 1
    MaxGenerations = 20
    MaxFaults = 1
CHECK_DEADLOCK FALSE
PROPERTIES CommandIsConsumed MissionRests
