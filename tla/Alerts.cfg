SPECIFICATION FairSpec
CONSTANTS
    Budgets <- OneBudget
    Order <- OneOrder
    Pods = {p1}
    RecordIds = {1, 2, 3}
    Visible <- AllOrNone
    Amounts = {1, 2}
    Costs = {1}
    PeriodLength = 2
    WarnPct = 80
    AlertDays = 1
    KeepRecords = 1
    Overlap = 1
    MaxLag = 1
    MaxStored = 1
    MaxUsage = 2
    MaxTime = 1
    MaxFailures = 1
    MaxDismissed = 1
    team = team
INVARIANT TypeOK
INVARIANT AlertsAreEarned
INVARIANT RecordsWithinUsage
PROPERTY ExhaustionIsReported
CHECK_DEADLOCK FALSE
