SPECIFICATION FairSpec
CONSTANTS
    Budgets <- Tree
    NoBudget <- none
    Parent <- TreeParent
    Level <- TreeLevel
    Name <- TreeName
    Isolated <- SoloOnly
    AllowFallback <- UserOnly
    Amount <- TreeAmount
    Requests = {r1, r2}
    Matches <- MatchTree
    Est <- EstMixed
    Costs = {4}
    Slow = {r1, r2}
    Cleaners = {c1}
    MaxEst = 2
    MaxAttempts <- RetrySolo
    MaxPeriods = 0
    MaxCrashes = 1
    user = user
    team = team
    solo = solo
    org = org
    none = none
    r1 = r1
    r2 = r2
INVARIANT PendingCoversHolds
INVARIANT NoOverspend
PROPERTY BucketFillConserves
PROPERTY HoldsAreReleased
