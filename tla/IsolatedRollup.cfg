SPECIFICATION Spec
CONSTANTS
    Budgets <- Tree
    NoBudget <- none
    Parent <- TreeParent
    Level <- TreeLevel
    Name <- TreeName
    Isolated <- SoloOnly
    AllowFallback = {}
    Amount <- TreeAmount
    Requests = {r1, r2}
    Matches <- MatchTree
    Est <- EstMixed
    Costs = {1, 3}
    Slow = {r1, r2}
    Cleaners = {}
    MaxEst = 2
    MaxAttempts <- NoRetry
    MaxPeriods = 0
    MaxCrashes = 0
    user = user
    team = team
    solo = solo
    org = org
    none = none
    r1 = r1
    r2 = r2
PROPERTY IsolatedNotRolledUp
CHECK_DEADLOCK FALSE
