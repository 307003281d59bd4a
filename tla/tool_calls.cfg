\* Two leases and one surprise: two subagents that ask for one figure, a read that
\* may be tried twice, and two runs of one script.
SPECIFICATION FairSpec
CONSTANTS
    r1 = r1
    r2 = r2
    d = d
    b1 = b1
    b2 = b2
    figure = figure
    text = text
    script1 = script1
    script2 = script2
    job = job
    Call = {r1, r2, d, b1, b2}
    Plan <- MCPlan
    SubagentOps = {1}
    KeyOf <- MCKeyOf
    SandboxKeyOf <- MCSandboxKeyOf
    Retryable = {text}
    MaxEpoch = 2
    MaxSurprises = 1
CHECK_DEADLOCK FALSE
INVARIANTS HandlerHoldsClaim SandboxOnce
PROPERTIES ImplementsReceipts EveryCallIsReported
