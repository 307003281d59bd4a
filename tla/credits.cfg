\* A Mission and two chat turns on one balance.
CONSTANTS
    User = {u}
    Mission = {m1}
    Turn = {t1, t2}
    Estimates = {0, 2}
    BaseFee = 2
    MaxUsage = 3
    MaxOverdraft = 1
    FreeTokens = 2
    TurnTokens = 2
    TurnCredits = 1
    MaxTurnUsage = 3
    Grants = {3}
    Deductions = {2}
    MaxFunded = 3
SPECIFICATION FairSpec
INVARIANTS
    BooksBalance
    HoldsAreCovered
    FreeTokensOnce
    NoStrandedHold
PROPERTIES
    SettledIsFinal
    WorkIsReserved
    HoldReturns
\* Everything may be over.
CHECK_DEADLOCK FALSE
