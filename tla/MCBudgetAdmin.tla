--------------------------- MODULE MCBudgetAdmin ---------------------------
(***************************************************************************)
(* An org budget and a team budget, an org admin and a team admin.         *)
(***************************************************************************)
EXTENDS BudgetAdmin

CONSTANTS org, team

OrgAndTeam == {org, team}

\* The API does not look at what kind of budget the parent is: the team budget may
\* be put under the org, and under itself.
TeamUnderAny == [b \in OrgAndTeam |-> IF b = team THEN {org, team} ELSE {}]
\* A request about the team budget may name the version the row has after its next write.
TeamAhead == [b \in OrgAndTeam |-> IF b = team THEN {2} ELSE {}]
=============================================================================
