---------------------------- MODULE BudgetAdmin ----------------------------
(***************************************************************************)
(* The definition columns of budget_definitions under the management API:  *)
(* CreateBudget, UpdateBudget with its cascading disable, and DeleteBudget *)
(* with its cascade, of internal/api/handlers.go, over the statements of   *)
(* internal/db/repository.go, each statement a step.                       *)
(*                                                                         *)
(* UpdateBudget reads the row, applies the request to what it read, turns  *)
(* off the children, compares the amount with the parent's and saves the   *)
(* whole row where the version is unchanged.  Charges and resets of the    *)
(* ledger raise the version too.  allow_fallback is handled by the same    *)
(* lines as isolated and is left out, as are the columns that are only     *)
(* copied (expression, period, description, owners).                       *)
(***************************************************************************)
EXTENDS Naturals, FiniteSets

CONSTANTS
    Budgets,        \* ids of rows, with their entity type and name
    NoBudget,       \* a NULL parent_id
    Orgs,           \* budgets with entity_type org
    Users,          \* budgets with entity_type user
    Amounts,        \* values of budget_amount_usd
    Actors,         \* sessions calling the API
    OrgAdmins,      \* sessions with is_org
    Members,        \* sessions with neither is_org nor is_team_admin
    Anonymous,      \* sessions without an identity
    Parents,        \* values of parent_id in requests about each budget
    ClientVersions, \* values of version in requests about each budget (0 matches no row)
    MaxVersion      \* bound: no write is started on a row with a higher version

ASSUME AdminAssumption ==
    /\ IsFiniteSet(Budgets) /\ NoBudget \notin Budgets
    /\ Orgs \subseteq Budgets /\ Users \subseteq Budgets \ Orgs
    /\ Amounts \subseteq Nat /\ Parents \in [Budgets -> SUBSET Budgets]
    /\ OrgAdmins \subseteq Actors /\ Members \subseteq Actors \ OrgAdmins
    /\ Anonymous \subseteq Actors \ (OrgAdmins \cup Members)
    /\ ClientVersions \in [Budgets -> SUBSET (Nat \ {0})] /\ MaxVersion \in Nat

VARIABLES
    row,        \* budget_definitions
    deleted,    \* ids of rows that have been deleted
    call,       \* the call each session is in, and where it stands
    target,     \* the budget of the call
    edit,       \* the row as the call will write it, with the version it expects
    kids,       \* cascading disable: the children still to be turned off, as read
    doomed,     \* cascading delete: the rows to delete, with their depth
    base        \* history: the row as UpdateBudget read it

calls == <<call, target, edit, kids, doomed, base>>
vars  == <<row, deleted, calls>>

Calls == {"idle", "creating", "disabling", "cascading", "validating", "saving",
          "collecting", "deleting"}

Rows == [parent : Budgets \cup {NoBudget}, amount : Amounts, isolated : BOOLEAN,
         enabled : BOOLEAN, byOrg : BOOLEAN, version : Nat \ {0}]

\* No row: before the insert and after the delete.
NoRow == [parent |-> NoBudget, version |-> 0]

None == [b \in {} |-> NoRow]

Exists(b) == b \in Budgets /\ row[b] # NoRow

Children(b) == {c \in Budgets : Exists(c) /\ row[c].parent = b}

\* FOREIGN KEY (parent_id): what a row may refer to.
RefersToRow(r) == r.parent = NoBudget \/ Exists(r.parent)

Columns(r) == <<r.parent, r.amount, r.isolated, r.enabled, r.byOrg>>

Init ==
    /\ row = [b \in Budgets |-> NoRow]
    /\ deleted = {}
    /\ call = [a \in Actors |-> "idle"]
    /\ target = [a \in Actors |-> NoBudget]
    /\ edit = [a \in Actors |-> NoRow]
    /\ kids = [a \in Actors |-> None]
    /\ doomed = [a \in Actors |-> None]
    /\ base = [a \in Actors |-> NoRow]

Goto(a, label) == call' = [call EXCEPT ![a] = label]

Leave(a) ==
    /\ Goto(a, "idle")
    /\ target' = [target EXCEPT ![a] = NoBudget]
    /\ edit' = [edit EXCEPT ![a] = NoRow]
    /\ kids' = [kids EXCEPT ![a] = None]
    /\ doomed' = [doomed EXCEPT ![a] = None]
    /\ base' = [base EXCEPT ![a] = NoRow]

\* Mutation of MaySetIsolated: the caller's role is not looked at.
AnyoneMaySetIsolated(a, b) == TRUE

\* "Orgs can always set isolation", "Org-admins can set isolation on team budgets".
MaySetIsolated(a, b) == b \in Orgs \/ a \in OrgAdmins

\* A non-isolated child asks for more than its parent has.
ExceedsParent(r) ==
    /\ Exists(r.parent)
    /\ ~r.isolated
    /\ r.amount > row[r.parent].amount

-----------------------------------------------------------------------------
(***************************************************************************)
(* CreateBudget: the parent is read, inherited from and compared with; the *)
(* row is inserted later.                                                  *)
(***************************************************************************)
\* Mutation of NewRow: the version of a new row is not set.
NewUnversioned(a, b, p, found, m, isolated, enabled) ==
    [parent |-> p, amount |-> m,
     isolated |-> IF MaySetIsolated(a, b) THEN isolated ELSE found /\ row[p].isolated,
     enabled |-> enabled, byOrg |-> FALSE, version |-> 0]

\* The row that is inserted.  A parent that could not be read gives it nothing.
NewRow(a, b, p, found, m, isolated, enabled) ==
    [parent |-> p, amount |-> m,
     isolated |-> IF MaySetIsolated(a, b) THEN isolated ELSE found /\ row[p].isolated,
     enabled |-> enabled, byOrg |-> FALSE, version |-> 1]

\* The read of the parent may fail; the amount is then not compared with it either.
ReadForCreate(a, b) ==
    /\ call[a] = "idle"
    /\ ~Exists(b) /\ b \notin deleted
    /\ a \in Members => b \in Users
    /\ \E p \in {NoBudget} \cup {q \in Parents[b] : Exists(q)}, m \in Amounts,
          isolated, enabled, found \in BOOLEAN :
          LET new == NewRow(a, b, p, found, m, isolated, enabled)
          IN  /\ found => p # NoBudget /\ ~ExceedsParent(new)
              /\ edit' = [edit EXCEPT ![a] = new]
    /\ target' = [target EXCEPT ![a] = b]
    /\ Goto(a, "creating")
    /\ UNCHANGED <<row, deleted, kids, doomed, base>>

\* UNIQUE (entity_type, name) and the foreign key guard the insert.
InsertBudget(a) ==
    LET b == target[a]
    IN  /\ call[a] = "creating"
        /\ ~Exists(b) /\ b \notin deleted
        /\ RefersToRow(edit[a])
        /\ row' = [row EXCEPT ![b] = edit[a]]
        /\ Leave(a)
        /\ UNCHANGED deleted

-----------------------------------------------------------------------------
(***************************************************************************)
(* UpdateBudget.                                                           *)
(***************************************************************************)
canEnableBudget(a, b) == row[b].enabled \/ ~(row[b].byOrg /\ a \notin OrgAdmins)

\* disabled_by_is_org after the request: a row that is turned on, or turned off by
\* someone with an identity, forgets who turned it off before.
DisabledByIsOrg(a, old, switch) ==
    CASE switch = "enable" /\ ~old.enabled           -> FALSE
      [] switch = "disable" /\ a \notin Anonymous -> a \in OrgAdmins
      [] OTHER                                       -> old.byOrg

\* The row b with the request applied to it.
Edited(a, b, p, m, isolated, switch, v) ==
    [parent   |-> p,
     amount   |-> m,
     isolated |-> IF MaySetIsolated(a, b) THEN isolated ELSE row[b].isolated,
     enabled  |-> IF switch = "keep" THEN row[b].enabled ELSE switch = "enable",
     byOrg    |-> DisabledByIsOrg(a, row[b], switch),
     version  |-> v]

\* The version is the one that was read, or any the request names: that of an older
\* copy of the row, or one the row has yet to reach.
ReadForUpdate(a, b) ==
    /\ call[a] = "idle"
    /\ Exists(b) /\ row[b].version < MaxVersion
    /\ \E p \in {row[b].parent} \cup Parents[b], m \in Amounts, isolated \in BOOLEAN,
          switch \in {"keep", "enable", "disable"},
          v \in {row[b].version} \cup ClientVersions[b] :
          /\ switch = "enable" /\ a \notin Anonymous => canEnableBudget(a, b)
          /\ edit' = [edit EXCEPT ![a] = Edited(a, b, p, m, isolated, switch, v)]
          /\ Goto(a, IF switch = "disable" /\ a \in OrgAdmins THEN "disabling" ELSE "validating")
    /\ target' = [target EXCEPT ![a] = b]
    /\ base' = [base EXCEPT ![a] = row[b]]
    /\ UNCHANGED <<row, deleted, kids, doomed>>

\* Mutation of ToDisable: isolated children are turned off as well.
AllToDisable(b) == {c \in Children(b) : row[c].enabled}

ToDisable(b) == {c \in Children(b) : ~row[c].isolated /\ row[c].enabled}

\* disableNonIsolatedChildren: before the parent has been validated or saved.
ReadChildren(a) ==
    LET found == ToDisable(target[a])
    IN  /\ call[a] = "disabling"
        /\ kids' = [kids EXCEPT ![a] = [c \in found |-> row[c]]]
        /\ Goto(a, IF found = {} THEN "validating" ELSE "cascading")
        /\ UNCHANGED <<row, deleted, target, edit, doomed, base>>

\* Mutation of Unmodified: the UPDATE names the id only.
StillThere(b, v) == Exists(b)

\* WHERE id = $1 AND version = $19
Unmodified(b, v) == Exists(b) /\ row[b].version = v

\* repo.UpdateBudget writes every column of r; nothing is written when the
\* version has changed.
UpdateBudget(b, r) ==
    /\ Unmodified(b, r.version)
    /\ RefersToRow(r)
    /\ row' = [row EXCEPT ![b] = [r EXCEPT !.version = row[b].version + 1]]

NextChild(a, c) ==
    LET left == DOMAIN kids[a] \ {c}
    IN  /\ kids' = [kids EXCEPT ![a] = [d \in left |-> kids[a][d]]]
        /\ Goto(a, IF left = {} THEN "validating" ELSE "cascading")

DisableChild(a, c) ==
    /\ call[a] = "cascading"
    /\ c \in DOMAIN kids[a]
    /\ UpdateBudget(c, [kids[a][c] EXCEPT !.enabled = FALSE, !.byOrg = TRUE])
    /\ NextChild(a, c)
    /\ UNCHANGED <<deleted, target, edit, doomed, base>>

\* "failed to disable child budget": a warning, and on with the next one.  A failed
\* read of the children skips them all.
SkipChild(a, c) ==
    /\ call[a] = "cascading"
    /\ c \in DOMAIN kids[a]
    /\ NextChild(a, c)
    /\ UNCHANGED <<row, deleted, target, edit, doomed, base>>

\* A parent that could not be read is not compared with.
ValidateAmount(a) ==
    /\ call[a] = "validating"
    /\ \E found \in BOOLEAN : found => ~ExceedsParent(edit[a])
    /\ Goto(a, "saving")
    /\ UNCHANGED <<row, deleted, target, edit, kids, doomed, base>>

SaveBudget(a) ==
    /\ call[a] = "saving"
    /\ UpdateBudget(target[a], edit[a])
    /\ Leave(a)
    /\ UNCHANGED deleted

-----------------------------------------------------------------------------
(***************************************************************************)
(* DeleteBudget.  The descendants are read before the transaction that     *)
(* deletes them, the deepest first.                                        *)
(***************************************************************************)
\* Up(n)[x] is the n-th ancestor of x, NoBudget above the root.
Up(n) ==
    LET up[k \in 0..n] ==
          IF k = 0 THEN [x \in Budgets |-> x]
          ELSE [x \in Budgets |-> LET y == up[k - 1][x]
                                  IN  IF Exists(y) THEN row[y].parent ELSE NoBudget]
    IN  up[n]

Steps == 1..Cardinality(Budgets)

\* The depth of x below b, 0 if x is not below b.
DepthBelow(b, x) ==
    IF \E n \in Steps : Up(n)[x] = b
    THEN CHOOSE n \in Steps : Up(n)[x] = b /\ \A k \in 1..n - 1 : Up(k)[x] # b
    ELSE 0

ReadForDelete(a, b) ==
    /\ call[a] = "idle"
    /\ Exists(b)
    /\ target' = [target EXCEPT ![a] = b]
    /\ \/ /\ Children(b) = {}
          /\ doomed' = [doomed EXCEPT ![a] = [x \in {b} |-> 0]]
          /\ Goto(a, "deleting")
       \/ /\ Children(b) # {}
          /\ Goto(a, "collecting")
          /\ UNCHANGED doomed
    /\ UNCHANGED <<row, deleted, edit, kids, base>>

\* The recursive query does not end when b is among its own ancestors.
GetAllDescendants(a) ==
    LET b == target[a]
        below == {x \in Budgets : DepthBelow(b, x) > 0}
    IN  /\ call[a] = "collecting"
        /\ b \notin below
        /\ doomed' = [doomed EXCEPT ![a] = [x \in below \cup {b} |-> DepthBelow(b, x)]]
        /\ Goto(a, "deleting")
        /\ UNCHANGED <<row, deleted, target, edit, kids, base>>

\* Mutation of Unreferenced: parent_id is not a foreign key.
NotChecked(list, x) == TRUE

\* The foreign key lets x go: whatever refers to it went before.
Unreferenced(list, x) ==
    \A y \in Children(x) \ {x} : y \in DOMAIN list /\ list[y] >= list[x]

\* DeleteBudget, DeleteBudgetCascade: all of the list, or nothing.
DeleteBudgetCascade(a) ==
    LET list == doomed[a]
        gone == {x \in DOMAIN list : Exists(x)}
    IN  /\ call[a] = "deleting"
        /\ target[a] \in gone
        /\ \A x \in gone : Unreferenced(list, x)
        /\ row' = [x \in Budgets |-> IF x \in gone THEN NoRow ELSE row[x]]
        /\ deleted' = deleted \cup gone
        /\ Leave(a)

-----------------------------------------------------------------------------
\* The amount exceeds the parent's, the version has changed, a key is violated,
\* a statement fails, or the pod stops: the call ends, what it wrote stays.
CallEnds(a) ==
    /\ call[a] # "idle"
    /\ Leave(a)
    /\ UNCHANGED <<row, deleted>>

\* IncrementUsageInTx and ResetBudgetUsage raise the version as well.
Charge(b) ==
    /\ Exists(b) /\ row[b].version < MaxVersion
    /\ row' = [row EXCEPT ![b].version = @ + 1]
    /\ UNCHANGED <<deleted, calls>>

Session(a) ==
    \/ \E b \in Budgets :
          \/ ReadForCreate(a, b)
          \/ ReadForUpdate(a, b)
          \/ ReadForDelete(a, b)
          \/ DisableChild(a, b)
          \/ SkipChild(a, b)
    \/ InsertBudget(a)
    \/ ReadChildren(a)
    \/ ValidateAmount(a)
    \/ SaveBudget(a)
    \/ GetAllDescendants(a)
    \/ DeleteBudgetCascade(a)
    \/ CallEnds(a)

Next ==
    \/ \E a \in Actors : Session(a)
    \/ \E b \in Budgets : Charge(b)

Spec == Init /\ [][Next]_vars
-----------------------------------------------------------------------------
(***************************************************************************)
(* Properties.                                                             *)
(***************************************************************************)
\* Rows have their columns' types and a version from 1 on, and a call in progress
\* names its budget.
TypeOK ==
    /\ row \in [Budgets -> Rows \cup {NoRow}]
    /\ deleted \subseteq Budgets
    /\ call \in [Actors -> Calls]
    /\ target \in [Actors -> Budgets \cup {NoBudget}]
    /\ edit \in [Actors -> Rows \cup {NoRow}]
    /\ \A a \in Actors :
          /\ call[a] # "idle" => target[a] \in Budgets
          /\ DOMAIN kids[a] \subseteq Budgets /\ DOMAIN doomed[a] \subseteq Budgets

\* The request of a's call names a version ahead of the row it was applied to, so
\* that the row can reach it by changes the call has not seen.
AheadOfRead(a) == edit[a].version > base[a].version

\* Neither a save nor a cascading disable overwrites a change it has not seen, unless
\* the client named a version ahead of the row: what it replaces is the row its new
\* values were computed from, although edits, cascades of other sessions and the
\* ledger's charges run in between.
NoLostUpdate ==
    [][\A a \in Actors, b \in Budgets :
          Exists(b) /\ row'[b] # row[b] /\ row'[b] # NoRow =>
             /\ call[a] = "saving" /\ call'[a] = "idle" /\ target[a] = b /\ ~AheadOfRead(a)
                   => Columns(row[b]) = Columns(base[a])
             /\ call[a] = "cascading" /\ b \in DOMAIN kids[a] /\ b \notin DOMAIN kids'[a]
                   => row[b] = kids[a][b]]_vars

\* A cascade turns off only what is, at that moment, an enabled child of the
\* budget being disabled that is not isolated, although children are re-parented
\* and isolated by others between its read and its writes.
CascadeHitsChildren ==
    [][\A a \in Actors, c \in Budgets :
          call[a] = "cascading" /\ c \in DOMAIN kids[a] /\ c \notin DOMAIN kids'[a]
             /\ row'[c] # row[c] /\ row'[c] # NoRow
             => c \in Children(target[a]) /\ ~row[c].isolated /\ row[c].enabled]_vars

\* Whether a team or user budget is isolated is decided by org admins alone: no
\* save of anyone else changes it, by a stale copy of the row neither, unless the
\* request names a version ahead of the row it was applied to.
IsolationIsTheOrgs ==
    [][\A b \in Budgets \ Orgs :
          Exists(b) /\ row'[b] # NoRow /\ row'[b].isolated # row[b].isolated
             => \E a \in Actors : /\ call[a] = "saving" /\ target[a] = b
                                 /\ (a \in OrgAdmins \/ AheadOfRead(a))]_vars

\* No budget is left without its parent: a cascading delete works from a list of
\* descendants read earlier, and either takes everything below the budget as it
\* is by then, or nothing.
NoOrphans == \A b \in Budgets : Exists(b) => RefersToRow(row[b])
=============================================================================
