SPECIFICATION FairSpec
CONSTANTS
    s1 = s1
    s2 = s2
    w = w
    pod = pod
    org = org
    team = team
    gpt = gpt
    none = none
    Streams = {s1, s2}
    Workers = {w}
    PoolSize = 2
    Ids = {1}
    Models = {gpt}
    NoModel = none
    PodOf <- OnePod
    Bodies <- Responses
    CheckOrder <- OrgFirst
    Chain <- TeamFirst
INVARIANT TypeOK
INVARIANT HangsAreKnown
INVARIANT ChargedForWholeResponse
INVARIANT StatesAreDropped
PROPERTY CallsEnd
