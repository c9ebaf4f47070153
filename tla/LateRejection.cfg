SPECIFICATION Spec
CONSTANTS
    Budgets = {b1}
    Actors = {admin, lead}
    None = None
    OrgOf <- OneOrg
    TeamOf <- OneTeam
    OrgAdmins = {admin}
    TeamAdmins = {lead}
    ParentTeam = "eng"
    MaxRejections = 3
    admin = admin
    lead = lead
    user = user
INVARIANT ClosesAfterThree
CHECK_DEADLOCK FALSE
