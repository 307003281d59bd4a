\* One Mission, two workers, two writes by users, review or billing, one fault,
\* pages of one command, transactions that outlast their instants.
SPECIFICATION Spec
CONSTANTS
    m1 = m1
    ws = ws
    w1 = w1
    w2 = w2
    Mission = {m1}
    Workspace = {ws}
    WorkspaceOf <- OneWorkspace
    Worker = {w1, w2}
    None = None
    CommandType = {"steer", "mode", "pause", "cancel"}
    Service = {"review", "billing"}
    PageLimit = 1
    ModelBudget = 1
    PortsMayWait = TRUE
    SlowCommits = TRUE
    MaxInputs = 2
    MaxYields = 1
    MaxGenerations = 3
    MaxFaults = 1
SYMMETRY Symmetry
CHECK_DEADLOCK FALSE
INVARIANTS AlwaysRecoverable TerminalIsQuiet OnlyRunningIsDriven CompletionIsDrained CancelIsKept
