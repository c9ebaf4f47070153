SPECIFICATION Spec
CONSTANTS
    Allocations = {x1, x2}
    Orgs = {o1, o2}
    Teams = {t1}
    Patterns = {p1, p2}
    Modes = {m1}
    Actors = {a1, a2}
    Nothing = Nothing
    MaxVersion <- Versions
    x1 = x1
    x2 = x2
INVARIANT TypeOK
INVARIANT OneActivePerSlot
INVARIANT AttemptsFollowRejections
INVARIANT OrgDisableHolds
PROPERTY NoLostUpdate
PROPERTY FollowsLifecycle
SYMMETRY Symmetric
CHECK_DEADLOCK FALSE
