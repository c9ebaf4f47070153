------------------------ MODULE RateLimitAllocations ------------------------
(***************************************************************************)
(* The table rate_limit_allocations under the management API: the          *)
(* handlers of internal/api/ratelimit_handlers.go and the statements of    *)
(* internal/db/ratelimit_repository.go they run, each statement a step.    *)
(*                                                                         *)
(* Unlike the budgets' workflow, every status change here is an UPDATE     *)
(* guarded by the status it replaces, every UPDATE raises the row's        *)
(* version, an edit is guarded by the version it read, and a partial       *)
(* unique index keeps one allocation per org, team and pattern that is not *)
(* rejected.  CreateAllocation itself looks for the team and pattern only, *)
(* and takes the org from the request.  The limits and the enforcement     *)
(* mode are one field: they are read and written together.                 *)
(***************************************************************************)
EXTENDS Naturals, FiniteSets

CONSTANTS
    Allocations,    \* ids of rows
    Orgs,           \* values of org_id: the request names it, nothing validates it
    Teams,          \* values of team_id
    Patterns,       \* values of model_pattern
    Modes,          \* values of the limits and the enforcement mode
    Actors,         \* concurrent calls of the API
    Nothing,        \* no row, no slot, no mode
    MaxVersion      \* bound: no call is started on a row with this version or a higher one

\* The key of idx_unique_active_allocation.
Slots == Orgs \X Teams \X Patterns

ASSUME AllocationAssumption ==
    /\ Nothing \notin Allocations \cup Slots \cup Modes
    /\ MaxVersion \in [Allocations -> Nat]

VARIABLES
    status,     \* approval_status; "absent" before the insert, "gone" after the delete
    rejections, \* rejection_count
    version,    \* version
    slot,       \* org_id, team_id and model_pattern
    mode,       \* limits and enforcement
    enabled,    \* enabled
    byOrg,      \* disabled_by_is_org
    latest,     \* MAX(attempt_number) over the row's records in rate_limit_approvals
    call,       \* the call each session is in, and where it stands
    target,     \* the row of the call
    edit,       \* the row as the call will write it, and the version it was read at
    attempt,    \* attempt_number of the record the call will insert
    orgHold,    \* history: rows an org admin has disabled, until an org admin or a caller
                \* without identity enables them, or another caller disables them in turn
    base        \* history: the row as an edit read it

rows  == <<status, rejections, version, slot, mode, enabled, byOrg, latest>>
calls == <<call, target, edit, attempt, base>>
vars  == <<rows, calls, orgHold>>

Snapshot(x) == <<status[x], slot[x], mode[x], enabled[x], byOrg[x]>>

\* Who a request comes from: an org admin, another identity, or somebody without
\* one, whom OptionalAuthMiddleware lets through.
Callers == {"org", "team", "anonymous"}

Calls == {"idle", "checked", "cleared", "updating", "approving", "rejecting",
          "resubmitting", "numbered", "recording"}

Exists(x) == status[x] \notin {"absent", "gone"}

\* Rows the partial unique index covers.
Active(x) == status[x] \in {"pending", "approved", "closed"}

\* Mutation of SlotTaken: there is no such index.
SlotNeverTaken(s, x) == FALSE

\* The unique index refuses x a place in slot s: org, team and pattern are the same.
SlotTaken(s, x) == \E y \in Allocations \ {x} : Active(y) /\ slot[y] = s

\* What the SELECT of CreateAllocation looks for: any org's row will do.
SameTeamAndPattern(s, t) == s[2] = t[2] /\ s[3] = t[3]

\* An edit may change the pattern; no statement changes a row's org or team.
Repatterned(x) == {s \in Slots : s[1] = slot[x][1] /\ s[2] = slot[x][2]}

NoEdit == [slot |-> Nothing, mode |-> Nothing, enabled |-> FALSE, byOrg |-> FALSE, version |-> 0,
           status |-> "absent", overrules |-> FALSE]

Init ==
    /\ status = [x \in Allocations |-> "absent"]
    /\ rejections = [x \in Allocations |-> 0]
    /\ version = [x \in Allocations |-> 0]
    /\ slot = [x \in Allocations |-> Nothing]
    /\ mode = [x \in Allocations |-> Nothing]
    /\ enabled = [x \in Allocations |-> FALSE]
    /\ byOrg = [x \in Allocations |-> FALSE]
    /\ latest = [x \in Allocations |-> 0]
    /\ call = [a \in Actors |-> "idle"]
    /\ target = [a \in Actors |-> Nothing]
    /\ edit = [a \in Actors |-> NoEdit]
    /\ attempt = [a \in Actors |-> 0]
    /\ orgHold = {}
    /\ base = [a \in Actors |-> <<>>]

Goto(a, label) == call' = [call EXCEPT ![a] = label]

Leave(a) ==
    /\ Goto(a, "idle")
    /\ target' = [target EXCEPT ![a] = Nothing]
    /\ edit' = [edit EXCEPT ![a] = NoEdit]
    /\ attempt' = [attempt EXCEPT ![a] = 0]
    /\ base' = [base EXCEPT ![a] = <<>>]

\* The rows S leave the table; what counted their decisions is kept for the properties.
Delete(S) ==
    /\ status' = [x \in Allocations |-> IF x \in S THEN "gone" ELSE status[x]]
    /\ slot' = [x \in Allocations |-> IF x \in S THEN Nothing ELSE slot[x]]
    /\ mode' = [x \in Allocations |-> IF x \in S THEN Nothing ELSE mode[x]]
    /\ enabled' = [x \in Allocations |-> x \notin S /\ enabled[x]]
    /\ byOrg' = [x \in Allocations |-> x \notin S /\ byOrg[x]]
    /\ orgHold' = orgHold \ S

-----------------------------------------------------------------------------
(***************************************************************************)
(* CreateAllocation: SELECT an active row, DELETE the rejected ones,       *)
(* INSERT, and insert the record of a row that needs approval.             *)
(***************************************************************************)
CheckExisting(a) ==
    /\ call[a] = "idle"
    /\ \E s \in Slots, m \in Modes, who \in Callers :
          /\ ~\E y \in Allocations : Active(y) /\ SameTeamAndPattern(slot[y], s)
          /\ edit' = [edit EXCEPT ![a] = [NoEdit EXCEPT
                !.slot = s, !.mode = m, !.status = IF who = "team" THEN "pending" ELSE "approved"]]
    /\ Goto(a, "checked")
    /\ UNCHANGED <<rows, target, attempt, base, orgHold>>

\* Rows of the org, team and pattern that are deleted to make room for a new request.
Stale(s) == {x \in Allocations : status[x] = "rejected" /\ slot[x] = s}

DeleteRejected(a) ==
    /\ call[a] = "checked"
    /\ Delete(Stale(edit[a].slot))
    /\ Goto(a, "cleared")
    /\ UNCHANGED <<rejections, version, latest, target, edit, attempt, base>>

\* Mutation of InsertAllocation: the version of a new row is not set.
InsertUnversioned(a) ==
    /\ call[a] = "cleared"
    /\ \E x \in Allocations :
          /\ status[x] = "absent"
          /\ ~SlotTaken(edit[a].slot, x)
          /\ status' = [status EXCEPT ![x] = edit[a].status]
          /\ version' = [version EXCEPT ![x] = 0]
          /\ slot' = [slot EXCEPT ![x] = edit[a].slot]
          /\ mode' = [mode EXCEPT ![x] = edit[a].mode]
          /\ enabled' = [enabled EXCEPT ![x] = TRUE]
          /\ \/ edit[a].status = "approved" /\ Leave(a)
             \/ /\ edit[a].status = "pending"
                /\ Goto(a, "recording")
                /\ target' = [target EXCEPT ![a] = x]
                /\ edit' = [edit EXCEPT ![a] = NoEdit]
                /\ attempt' = [attempt EXCEPT ![a] = 1]
                /\ UNCHANGED base
    /\ UNCHANGED <<rejections, byOrg, latest, orgHold>>

InsertAllocation(a) ==
    /\ call[a] = "cleared"
    /\ \E x \in Allocations :
          /\ status[x] = "absent"
          /\ ~SlotTaken(edit[a].slot, x)
          /\ status' = [status EXCEPT ![x] = edit[a].status]
          /\ version' = [version EXCEPT ![x] = 1]
          /\ slot' = [slot EXCEPT ![x] = edit[a].slot]
          /\ mode' = [mode EXCEPT ![x] = edit[a].mode]
          /\ enabled' = [enabled EXCEPT ![x] = TRUE]
          /\ \/ edit[a].status = "approved" /\ Leave(a)
             \/ /\ edit[a].status = "pending"
                /\ Goto(a, "recording")
                /\ target' = [target EXCEPT ![a] = x]
                /\ edit' = [edit EXCEPT ![a] = NoEdit]
                /\ attempt' = [attempt EXCEPT ![a] = 1]
                /\ UNCHANGED base
    /\ UNCHANGED <<rejections, byOrg, latest, orgHold>>

-----------------------------------------------------------------------------
(***************************************************************************)
(* UpdateAllocation: read, apply the request to what was read, UPDATE      *)
(* where the version is still the one that was read.                       *)
(***************************************************************************)
canEnableRateLimit(who, x) == enabled[x] \/ ~(byOrg[x] /\ who # "org")

\* The row x with a new pattern and mode, and enabled or disabled if the request
\* says so.  An org admin's word overrules the org's mark, and so does that of a
\* caller without identity, who is not asked.
Edited(who, x, s, m, switch) ==
    [slot    |-> s,
     mode    |-> m,
     enabled |-> IF switch = "keep" THEN enabled[x] ELSE switch = "enable",
     byOrg   |-> IF switch = "keep" \/ (switch = "disable" /\ who = "anonymous")
                 THEN byOrg[x]
                 ELSE switch = "disable" /\ who = "org",
     version |-> version[x],
     status  |-> "absent",
     overrules |-> switch = "enable" /\ who # "team"]

ReadForUpdate(a, x) ==
    /\ call[a] = "idle"
    /\ Exists(x) /\ version[x] < MaxVersion[x]
    /\ \E s \in Repatterned(x), m \in Modes, who \in Callers,
          switch \in {"keep", "enable", "disable"} :
          /\ switch = "enable" /\ who # "anonymous" => canEnableRateLimit(who, x)
          /\ edit' = [edit EXCEPT ![a] = Edited(who, x, s, m, switch)]
    /\ target' = [target EXCEPT ![a] = x]
    /\ base' = [base EXCEPT ![a] = Snapshot(x)]
    /\ Goto(a, "updating")
    /\ UNCHANGED <<rows, attempt, orgHold>>

\* Mutation of Unmodified: the UPDATE names the id only.
NotDeleted(x, v) == Exists(x)

\* WHERE id = $1 AND version = $16
Unmodified(x, v) == Exists(x) /\ version[x] = v

UpdateAllocation(a) ==
    LET x == target[a] e == edit[a]
    IN  /\ call[a] = "updating"
        /\ Unmodified(x, e.version)
        /\ ~(Active(x) /\ SlotTaken(e.slot, x))
        /\ slot' = [slot EXCEPT ![x] = e.slot]
        /\ mode' = [mode EXCEPT ![x] = e.mode]
        /\ enabled' = [enabled EXCEPT ![x] = e.enabled]
        /\ byOrg' = [byOrg EXCEPT ![x] = e.byOrg]
        /\ version' = [version EXCEPT ![x] = @ + 1]
        /\ orgHold' = IF e.enabled
                      THEN IF e.overrules THEN orgHold \ {x} ELSE orgHold
                      ELSE IF e.byOrg THEN orgHold \cup {x} ELSE orgHold \ {x}
        /\ Leave(a)
        /\ UNCHANGED <<status, rejections, latest>>

-----------------------------------------------------------------------------
(***************************************************************************)
(* Approve, reject, resubmit: the attempt number is read first, the status *)
(* changes under a guard, and the record is inserted last.                 *)
(***************************************************************************)
GetLatestAttemptNumber(a, x, label) ==
    /\ call[a] = "idle"
    /\ x \in Allocations /\ version[x] < MaxVersion[x] /\ status[x] # "absent"
    /\ attempt' = [attempt EXCEPT ![a] = IF latest[x] = 0 THEN 1 ELSE latest[x]]
    /\ target' = [target EXCEPT ![a] = x]
    /\ Goto(a, label)
    /\ UNCHANGED <<rows, edit, base, orgHold>>

\* Mutation of Guarded: the UPDATE names the id only.
GuardedById(x, expected) == Exists(x)

\* WHERE id = $1 AND approval_status = '...'
Guarded(x, expected) == status[x] = expected

Bump(x) == version' = [version EXCEPT ![x] = @ + 1]

ApproveAllocation(a) ==
    LET x == target[a]
    IN  /\ call[a] = "approving"
        /\ Guarded(x, "pending")
        /\ status' = [status EXCEPT ![x] = "approved"]
        /\ \E m \in Modes : mode' = [mode EXCEPT ![x] = m]
        /\ Bump(x)
        /\ Goto(a, "recording")
        /\ UNCHANGED <<rejections, slot, enabled, byOrg, latest, target, edit, attempt, base, orgHold>>

\* Mutation of RejectAllocation: rejection_count is left alone.
RejectUncounted(a) ==
    LET x == target[a]
    IN  /\ call[a] = "rejecting"
        /\ Guarded(x, "pending")
        /\ status' = [status EXCEPT ![x] = "rejected"]
        /\ Bump(x)
        /\ Goto(a, "recording")
        /\ UNCHANGED <<rejections, slot, mode, enabled, byOrg, latest, target, edit, attempt, base, orgHold>>

RejectAllocation(a) ==
    LET x == target[a]
    IN  /\ call[a] = "rejecting"
        /\ Guarded(x, "pending")
        /\ status' = [status EXCEPT ![x] = "rejected"]
        /\ rejections' = [rejections EXCEPT ![x] = @ + 1]
        /\ Bump(x)
        /\ Goto(a, "recording")
        /\ UNCHANGED <<slot, mode, enabled, byOrg, latest, target, edit, attempt, base, orgHold>>

ReadForResubmit(a, x) ==
    /\ call[a] = "idle"
    /\ status[x] = "rejected" /\ version[x] < MaxVersion[x]
    /\ target' = [target EXCEPT ![a] = x]
    /\ Goto(a, "resubmitting")
    /\ UNCHANGED <<rows, edit, attempt, base, orgHold>>

NumberResubmission(a) ==
    /\ call[a] = "resubmitting"
    /\ attempt' = [attempt EXCEPT ![a] = latest[target[a]] + 1]
    /\ Goto(a, "numbered")
    /\ UNCHANGED <<rows, target, edit, base, orgHold>>

ResetAllocationForResubmit(a) ==
    LET x == target[a]
    IN  /\ call[a] = "numbered"
        /\ Guarded(x, "rejected")
        /\ ~SlotTaken(slot[x], x)
        /\ status' = [status EXCEPT ![x] = "pending"]
        /\ Bump(x)
        /\ Goto(a, "recording")
        /\ UNCHANGED <<rejections, slot, mode, enabled, byOrg, latest, target, edit, attempt, base, orgHold>>

CreateApproval(a) ==
    LET x == target[a]
    IN  /\ call[a] = "recording"
        /\ Exists(x)
        /\ latest' = [latest EXCEPT ![x] = IF attempt[a] > @ THEN attempt[a] ELSE @]
        /\ Leave(a)
        /\ UNCHANGED <<status, rejections, version, slot, mode, enabled, byOrg, orgHold>>

\* A guarded statement finds no row, the index refuses it, a statement fails, or
\* the pod stops: the call ends where it is.
CallEnds(a) ==
    /\ call[a] # "idle"
    /\ Leave(a)
    /\ UNCHANGED <<rows, orgHold>>

\* The records of the row are deleted with it.
DeleteAllocation(x) ==
    /\ Exists(x)
    /\ Delete({x})
    /\ UNCHANGED <<rejections, version, latest, calls>>

Session(a) ==
    \/ CheckExisting(a)
    \/ DeleteRejected(a)
    \/ InsertAllocation(a)
    \/ \E x \in Allocations :
          \/ ReadForUpdate(a, x)
          \/ GetLatestAttemptNumber(a, x, "approving")
          \/ GetLatestAttemptNumber(a, x, "rejecting")
          \/ ReadForResubmit(a, x)
    \/ UpdateAllocation(a)
    \/ ApproveAllocation(a)
    \/ RejectAllocation(a)
    \/ NumberResubmission(a)
    \/ ResetAllocationForResubmit(a)
    \/ CreateApproval(a)
    \/ CallEnds(a)

Next ==
    \/ \E a \in Actors : Session(a)
    \/ \E x \in Allocations : DeleteAllocation(x)

Spec == Init /\ [][Next]_vars
-----------------------------------------------------------------------------
Lifecycle == INSTANCE ApprovalLifecycle WITH Items <- Allocations, Closing <- {}

Edits == [slot : Slots \cup {Nothing}, mode : Modes \cup {Nothing}, enabled : BOOLEAN,
          byOrg : BOOLEAN, version : Nat, status : Lifecycle!Statuses, overrules : BOOLEAN]

\* The columns keep their types, a row that exists has a version from 1 on (0 is
\* what a request sends that names none), and a call in progress names its row.
TypeOK ==
    /\ status \in [Allocations -> Lifecycle!Statuses]
    /\ rejections \in [Allocations -> Nat]
    /\ version \in [Allocations -> Nat]
    /\ \A x \in Allocations : Exists(x) => version[x] > 0
    /\ slot \in [Allocations -> Slots \cup {Nothing}]
    /\ mode \in [Allocations -> Modes \cup {Nothing}]
    /\ enabled \in [Allocations -> BOOLEAN]
    /\ byOrg \in [Allocations -> BOOLEAN]
    /\ latest \in [Allocations -> Nat]
    /\ call \in [Actors -> Calls]
    /\ target \in [Actors -> Allocations \cup {Nothing}]
    /\ \A a \in Actors : call[a] \notin {"idle", "checked", "cleared"} => target[a] \in Allocations
    /\ edit \in [Actors -> Edits]
    /\ attempt \in [Actors -> Nat]
    /\ orgHold \subseteq Allocations

\* However creates, edits that change the pattern, rejections and resubmissions
\* interleave, there is at most one allocation per org, team and pattern that is
\* pending or approved, although the check in CreateAllocation runs before the
\* insert and edits are not checked at all.  (Of one team and pattern there may be
\* several, one per org_id: two creates that name different orgs both pass the
\* check, and an edit or a resubmission is held to the index only.)
OneActivePerSlot ==
    \A x, y \in Allocations : Active(x) /\ Active(y) /\ slot[x] = slot[y] => x = y

\* An edit is written only over the row its request was applied to: if its version
\* is still current, nothing of the row has changed since it was read, decisions
\* and concurrent edits included.
NoLostUpdate ==
    [][\A a \in Actors :
          call[a] = "updating" /\ call'[a] = "idle" /\ version' # version
             => Snapshot(target[a]) = base[a]]_vars

\* A row is resubmitted only after a rejection, so attempt numbers stay within
\* one of the rejections, although they are read, used and recorded in three steps.
AttemptsFollowRejections ==
    \A x \in Allocations : latest[x] <= rejections[x] + 1

\* The guarded UPDATEs make every interleaving of the handlers a behaviour of the
\* approval lifecycle.
FollowsLifecycle == Lifecycle!LifecycleSpec

\* What an org admin has disabled stays disabled until an org admin enables it, or
\* another caller disables it again and so replaces the mark, or a caller without
\* identity enables it, whom UpdateAllocation does not ask: an edit of a team member
\* cannot enable it, whatever it had read before (canEnableRateLimit: "If disabled
\* by org-admin, only org-admin can re-enable").
OrgDisableHolds == \A x \in orgHold : ~enabled[x]
=============================================================================
