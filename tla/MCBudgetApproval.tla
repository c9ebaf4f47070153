------------------------- MODULE MCBudgetApproval -------------------------
(***************************************************************************)
(* Small instances of BudgetApproval: an org admin, a team admin and a     *)
(* user of one org and one team.                                           *)
(***************************************************************************)
EXTENDS BudgetApproval

CONSTANTS admin, lead, user

OneOrg == [a \in Actors |-> "acme"]
OneTeam == [a \in Actors |-> IF a = admin THEN None ELSE "eng"]
=============================================================================
