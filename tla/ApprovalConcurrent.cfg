SPECIFICATION Spec
CONSTANTS
    Budgets = {b1}
    Actors = {admin, lead, user}
    None = None
    OrgOf <- OneOrg
    TeamOf <- OneTeam
    OrgAdmins = {admin}
    TeamAdmins = {lead}
    ParentTeam = "eng"
    MaxRejections = 3
    admin = admin
    lead = lead
    user = user
INVARIANT TypeOK
INVARIANT ClosedAfterThree
INVARIANT AttemptsNotAhead
PROPERTY FollowsLifecycle
CHECK_DEADLOCK FALSE
