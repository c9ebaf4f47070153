--------------------------- MODULE BudgetApproval ---------------------------
(***************************************************************************)
(* The approval workflow of budgets: CreateBudget with its ownership and   *)
(* auto-approval rules, and the approve, reject and resubmit handlers of   *)
(* internal/api/approval_handlers.go over approval_status and              *)
(* rejection_count of budget_definitions and the history in                *)
(* budget_approvals.                                                       *)
(*                                                                         *)
(* A handler reads the budget, checks what it read, writes the new status  *)
(* with an UPDATE that names only the id, and then inserts the history     *)
(* record, ignoring its error.  Each of the three is a step of its own;    *)
(* an actor is one client session, with one call at a time.                *)
(***************************************************************************)
EXTENDS Naturals

CONSTANTS
    Budgets,        \* rows of budget_definitions
    Actors,         \* sessions calling the API
    None,           \* SQL NULL, an empty claim
    OrgOf, TeamOf,  \* org_id and team_id claims of each session, or None
    OrgAdmins,      \* sessions with is_org
    TeamAdmins,     \* sessions with is_team_admin
    ParentTeam,     \* owner_team_id of the parent budget named in a create request
    MaxRejections   \* bound: a budget rejected this often is not rejected again

ASSUME ActorAssumption ==
    /\ OrgAdmins \subseteq Actors /\ TeamAdmins \subseteq Actors
    /\ MaxRejections \in Nat

VARIABLES
    status,     \* approval_status; "absent" before the insert, "gone" after the delete
    rejections, \* rejection_count
    owner,      \* owner_org_id, owner_team_id, created_by_user_id, entity_type
    history,    \* budget_approvals: records of each budget
    call,       \* the call each session is in, and where it stands
    target,     \* the budget of the call
    seen,       \* approval_status as the call read it
    count,      \* rejection_count as the call read it
    raced       \* history: budgets decided on by a call whose reading was stale

row   == <<status, rejections, owner, history>>
calls == <<call, target, seen, count>>
vars  == <<row, calls, raced>>

Calls == {"idle", "approving", "rejecting", "resubmitting",
          "submitted", "approved", "rejected", "resubmitted"}

\* Calls that have written the status and still have to insert their record.
Recording == {"submitted", "approved", "rejected", "resubmitted"}

Exists(b) == status[b] \notin {"absent", "gone"}

Nobody == [org |-> None, team |-> None, creator |-> None, kind |-> None]

Init ==
    /\ status = [b \in Budgets |-> "absent"]
    /\ rejections = [b \in Budgets |-> 0]
    /\ owner = [b \in Budgets |-> Nobody]
    /\ history = [b \in Budgets |-> {}]
    /\ call = [a \in Actors |-> "idle"]
    /\ target = [a \in Actors |-> None]
    /\ seen = [a \in Actors |-> "absent"]
    /\ count = [a \in Actors |-> 0]
    /\ raced = {}

\* The owner columns of CreateBudget: a user budget takes its parent's team, the
\* request overrides it, and only when neither names an org or a team does the
\* identity: its team alone for a budget without parent, else both.
OwnershipFor(a, kind, child, org, team) ==
    LET inherited == IF kind = "user" /\ child THEN ParentTeam ELSE None
        given     == IF team # None THEN team ELSE inherited
    IN  IF org # None \/ given # None
        THEN [org |-> org, team |-> given, creator |-> a, kind |-> kind]
        ELSE IF ~child /\ TeamOf[a] # None
             THEN [org |-> None, team |-> TeamOf[a], creator |-> a, kind |-> kind]
             ELSE [org |-> OrgOf[a], team |-> TeamOf[a], creator |-> a, kind |-> kind]

CanApproveOrReject(a, b) ==
    \/ a \in OrgAdmins /\ OrgOf[a] # None /\ OrgOf[a] = owner[b].org
    \/ a \in TeamAdmins /\ TeamOf[a] # None /\ TeamOf[a] = owner[b].team

\* The checks of ApproveBudget and RejectBudget on the caller.
MayDecide(a, b) ==
    /\ a \in OrgAdmins \cup TeamAdmins
    /\ owner[b].org # None
    /\ CanApproveOrReject(a, b)

CanResubmit(a, b) == owner[b].creator = a

Enter(a, b, label) ==
    /\ call[a] = "idle"
    /\ call' = [call EXCEPT ![a] = label]
    /\ target' = [target EXCEPT ![a] = b]
    /\ seen' = [seen EXCEPT ![a] = status[b]]
    /\ count' = [count EXCEPT ![a] = rejections[b]]
    /\ UNCHANGED <<row, raced>>

Leave(a) ==
    /\ call' = [call EXCEPT ![a] = "idle"]
    /\ target' = [target EXCEPT ![a] = None]
    /\ seen' = [seen EXCEPT ![a] = "absent"]
    /\ count' = [count EXCEPT ![a] = 0]

CreateBudget(a, b) ==
    /\ call[a] = "idle"
    /\ status[b] = "absent"
    /\ \E kind \in {"user", "team"}, child \in BOOLEAN,
          org \in {None, OrgOf[a]}, team \in {None, TeamOf[a]} :
          /\ a \notin OrgAdmins \cup TeamAdmins => kind = "user"
          /\ owner' = [owner EXCEPT ![b] = OwnershipFor(a, kind, child, org, team)]
          /\ \/ /\ a \in OrgAdmins \/ ~child
                /\ status' = [status EXCEPT ![b] = "approved"]
                /\ UNCHANGED calls
             \/ /\ a \notin OrgAdmins /\ child
                /\ status' = [status EXCEPT ![b] = "pending"]
                /\ call' = [call EXCEPT ![a] = "submitted"]
                /\ target' = [target EXCEPT ![a] = b]
                /\ UNCHANGED <<seen, count>>
    /\ UNCHANGED <<rejections, history, raced>>

ReadForApproval(a, b) ==
    /\ status[b] = "pending"
    /\ MayDecide(a, b)
    /\ Enter(a, b, "approving")

ReadForRejection(a, b) ==
    /\ status[b] = "pending"
    /\ MayDecide(a, b)
    /\ rejections[b] < MaxRejections
    /\ Enter(a, b, "rejecting")

ReadForResubmission(a, b) ==
    /\ status[b] = "rejected"
    /\ rejections[b] < 3
    /\ CanResubmit(a, b)
    /\ Enter(a, b, "resubmitting")

\* The budget is still as the call read it, as far as the decision depends on it.
AsRead(a) ==
    LET b == target[a]
    IN  status[b] = seen[a] /\ (call[a] = "rejecting" => rejections[b] = count[a])

\* UpdateBudgetApprovalStatus: the UPDATE does not look at the status it replaces,
\* and adds one to the count as it stands by then.
UpdateBudgetApprovalStatus(a, new, increment) ==
    /\ Exists(target[a])
    /\ raced' = IF AsRead(a) THEN raced ELSE raced \cup {target[a]}
    /\ status' = [status EXCEPT ![target[a]] = new]
    /\ rejections' = [rejections EXCEPT ![target[a]] = @ + increment]

ApproveBudget(a) ==
    /\ call[a] = "approving"
    /\ UpdateBudgetApprovalStatus(a, "approved", 0)
    /\ call' = [call EXCEPT ![a] = "approved"]
    /\ UNCHANGED <<owner, history, target, seen, count>>

\* Mutation of RejectedStatus: a value approval_status does not have.
RejectedStatusUnknown(before) == IF before + 1 >= 3 THEN "declined" ELSE "rejected"

\* Mutation of RejectedStatus: the second rejection closes the budget.
RejectedStatusEarly(before) == IF before + 1 >= 2 THEN "closed" ELSE "rejected"

\* Mutation of RejectedStatus: the limit is compared with the count before the rejection.
RejectedStatusLate(before) == IF before >= 3 THEN "closed" ELSE "rejected"

RejectedStatus(before) == IF before + 1 >= 3 THEN "closed" ELSE "rejected"

RejectBudget(a) ==
    /\ call[a] = "rejecting"
    /\ UpdateBudgetApprovalStatus(a, RejectedStatus(count[a]), 1)
    /\ call' = [call EXCEPT ![a] = "rejected"]
    /\ UNCHANGED <<owner, history, target, seen, count>>

ResubmitBudget(a) ==
    /\ call[a] = "resubmitting"
    /\ UpdateBudgetApprovalStatus(a, "pending", 0)
    /\ call' = [call EXCEPT ![a] = "resubmitted"]
    /\ UNCHANGED <<owner, history, target, seen, count>>

\* Mutation of CreateBudgetApproval: the attempt is counted from the row as it is now.
RecordCurrentAttempt(a) ==
    /\ call[a] \in Recording
    /\ Exists(target[a])
    /\ history' = [history EXCEPT ![target[a]] =
                      @ \cup {[action |-> call[a], actor |-> a,
                               attempt |-> rejections[target[a]] + 1]}]
    /\ Leave(a)
    /\ UNCHANGED <<status, rejections, owner, raced>>

CreateBudgetApproval(a) ==
    /\ call[a] \in Recording
    /\ Exists(target[a])
    /\ history' = [history EXCEPT ![target[a]] =
                      @ \cup {[action |-> call[a], actor |-> a, attempt |-> count[a] + 1]}]
    /\ Leave(a)
    /\ UNCHANGED <<status, rejections, owner, raced>>

\* The budget was deleted meanwhile, a statement fails, or the pod stops: the
\* call ends where it is.  A missing history record is not reported.
CallEnds(a) ==
    /\ call[a] # "idle"
    /\ Leave(a)
    /\ UNCHANGED <<row, raced>>

\* DELETE FROM budget_definitions: the history goes with the row.
DeleteBudget(b) ==
    /\ Exists(b)
    /\ status' = [status EXCEPT ![b] = "gone"]
    /\ history' = [history EXCEPT ![b] = {}]
    /\ UNCHANGED <<rejections, owner, calls, raced>>

Session(a) ==
    \/ \E b \in Budgets :
          \/ CreateBudget(a, b)
          \/ ReadForApproval(a, b)
          \/ ReadForRejection(a, b)
          \/ ReadForResubmission(a, b)
    \/ ApproveBudget(a)
    \/ RejectBudget(a)
    \/ ResubmitBudget(a)
    \/ CreateBudgetApproval(a)
    \/ CallEnds(a)

Next ==
    \/ \E a \in Actors : Session(a)
    \/ \E b \in Budgets : DeleteBudget(b)

Spec == Init /\ [][Next]_vars
-----------------------------------------------------------------------------
\* The lifecycle of one budget.
Lifecycle(b) == INSTANCE ApprovalLifecycle
    WITH Items <- {b}, Closing <- {n \in Nat : n >= 3},
         status <- [i \in {b} |-> status[i]], rejections <- [i \in {b} |-> rejections[i]]

Statuses == {"absent", "pending", "approved", "rejected", "closed", "gone"}

\* The columns keep their types, and a call in progress names the budget it is about.
TypeOK ==
    /\ status \in [Budgets -> Statuses]
    /\ rejections \in [Budgets -> Nat]
    /\ \A b \in Budgets : owner[b].creator \in Actors \cup {None}
    /\ \A b \in Budgets : \A e \in history[b] :
          e.action \in Recording /\ e.actor \in Actors /\ e.attempt \in Nat
    /\ call \in [Actors -> Calls]
    /\ target \in [Actors -> Budgets \cup {None}]
    /\ \A a \in Actors : call[a] # "idle" => target[a] \in Budgets
    /\ seen \in [Actors -> Statuses]
    /\ count \in [Actors -> Nat]
    /\ raced \subseteq Budgets

\* A budget is closed only after three rejections have been written, however the
\* calls of several admins interleave: RejectBudget decides by a count it read
\* earlier, and the count never shrinks.
ClosedAfterThree ==
    \A b \in Budgets : status[b] = "closed" => rejections[b] >= 3

\* No history record is numbered ahead of the attempts there have been: a record
\* carries the count its call read, and a rejection's record the count it made.
AttemptsNotAhead ==
    \A b \in Budgets : \A e \in history[b] :
        e.attempt <= (IF e.action = "rejected" THEN rejections[b] ELSE rejections[b] + 1)

\* RejectBudget: "Auto-closes the budget after 3 rejections."
ClosesAfterThree ==
    \A b \in Budgets : rejections[b] >= 3 => status[b] \in {"closed", "gone"}

\* Property: a budget follows the approval lifecycle until a call decides on it by a
\* reading that has become stale: only such a race decides on a budget that is not
\* pending, brings a closed or approved one back, or leaves one open that has been
\* rejected three times.  Calls cut short at any step cannot (the handlers of
\* approval_handlers.go).  What such a race does to a budget is not judged, and the
\* lifecycle is the code's, not the one docs/DESIGN.md draws (see ApprovalLifecycle).
FollowsLifecycle ==
    [][\A b \in Budgets \ raced' :
          [Lifecycle(b)!Advance]_<<status[b], rejections[b]>>]_vars
=============================================================================
