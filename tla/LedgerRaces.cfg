SPECIFICATION Spec
CONSTANTS
    Budgets <- TwoBudgets
    NoBudget <- none
    Parent <- ChainParent
    Level <- ChainLevel
    Name <- ChainName
    Isolated = {}
    AllowFallback = {}
    Amount <- ChainAmount
    Requests = {r1, r2}
    Matches <- MatchBoth
    Est <- EstMixed
    Costs = {1}
    Slow = {r1, r2}
    Cleaners = {c1, c2}
    MaxEst = 2
    MaxAttempts <- NoRetry
    MaxPeriods = 1
    MaxCrashes = 1
    user = user
    team = team
    solo = solo
    org = org
    none = none
    r1 = r1
    r2 = r2
INVARIANT TypeOK
INVARIANT PendingCoversHolds
INVARIANT NoOverspend
SYMMETRY Pods
