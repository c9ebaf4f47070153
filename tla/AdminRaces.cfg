SPECIFICATION Spec
CONSTANTS
    Budgets <- OrgAndTeam
    NoBudget = NoBudget
    Orgs = {org}
    Users = {}
    Amounts = {1}
    Actors = {admin, lead}
    OrgAdmins = {admin}
    Members = {}
    Anonymous = {}
    Parents <- TeamUnderAny
    ClientVersions <- TeamAhead
    MaxVersion = 2
    org = org
    team = team
INVARIANT TypeOK
INVARIANT NoOrphans
PROPERTY NoLostUpdate
PROPERTY CascadeHitsChildren
PROPERTY IsolationIsTheOrgs
CHECK_DEADLOCK FALSE
